----------------------------- MODULE ProxyProofs -----------------------------
(***************************************************************************)
(* What the mio proxy keeps true, for any sets of sources, targets and     *)
(* indexes, any limits, and whatever the server sends.                     *)
(*                                                                         *)
(* The maps of the UDP server: no method of Connection touches src_addr    *)
(* (the lemmas on Owned), accept_once enters a fresh index for a source    *)
(* that has none, and remove_closed takes the same connections out of both *)
(* maps.                                                                   *)
(*                                                                         *)
(* Its datagrams: try_read_server leaves at most the first half of a frame *)
(* behind (TryReadServerTyped), so that the parser always starts at the    *)
(* beginning of one; do_send_udp changes the socket with the address       *)
(* (DeliverNamed, by the least frame for which it would not), and          *)
(* check_timeout takes out of the cache only what no connection uses.      *)
(*                                                                         *)
(* A TCP connection: what the peer has got, the socket, the queues of the  *)
(* proxy and what the other socket still holds are, put in a line, the     *)
(* stream that was sent (UpOK, DownOK).  Every method moves units along    *)
(* the line (Faithful); what may be dropped, and when, is Excused.         *)
(*                                                                         *)
(* The idle pool: pool, batch and events to come hold indexes of at most   *)
(* 2 * Size connections, so that alloc always finds a free one (EnoughFree)*)
(* and never one that an event still names.  The removals of check_timeout *)
(* go from the highest place down, so that swap_remove moves only a        *)
(* connection that has been looked at (Swept, by the least turn of Sweep   *)
(* that would go wrong).                                                   *)
(*                                                                         *)
(* Wake-ups: mio reports edges.  PoolAwake, UdpAwake and TcpAwake say of   *)
(* each connection what its next event, or the one in the batch, has still *)
(* to do (PoolStirred, Stirred, TcpStirred): whatever no event will read   *)
(* has been read, whatever no event will write waits for a socket that is  *)
(* full and has said so.  Each handler is shown to use up one flag of the  *)
(* batch and to leave nothing behind for it.                               *)
(***************************************************************************)
EXTENDS MCProxy, SequenceTheorems, FiniteSetTheorems, WellFoundedInduction, TLAPS

\* r is a connection of the source s.
Owned(r, s) == "src" \in DOMAIN r /\ r.src = s

\* MapsAgree with the types it rests on.
IInv ==
    /\ table \subseteq Index /\ removed \subseteq Index
    /\ inq \in Seq(Src \X Dst)
    /\ srcMap \in [Src -> Index \cup {None}]
    /\ c = [i \in Index |-> c[i]]
    /\ \A i \in table : \E s \in Src : Owned(c[i], s) /\ srcMap[s] = i
    /\ \A s \in Src : srcMap[s] # None => srcMap[s] \in table /\ Owned(c[srcMap[s]], s)

\* DoSend, DoRead, WriteSession, DoStatus leave the source alone.
LEMMA TlsOwned ==
    ASSUME NEW r, NEW s, Owned(r, s)
    PROVE  Owned(DoSend(r), s) /\ Owned(DoRead(r), s) /\ Owned(WriteSession(r), s) /\ Owned(DoStatus(r), s)
<1>1. Owned(DoSend(r), s)
  BY DEF Owned, DoSend
<1>2. Owned(DoRead(r), s)
  BY DEF Owned, DoRead
<1>3. Owned(WriteSession(r), s)
  BY DEF Owned, WriteSession
<1>4. Owned(DoStatus(r), s)
  BY DEF Owned, DoStatus
<1> QED BY <1>1, <1>2, <1>3, <1>4

\* send_request leaves the source alone.
LEMMA SendRequestOwned ==
    ASSUME NEW r, NEW s, Owned(r, s)
    PROVE  Owned(SendRequest(r), s)
<1>1. CASE r.idle
  <2>1. Owned([r EXCEPT !.own = Shutdown(@)], s)
    BY DEF Owned
  <2> QED BY <1>1, <2>1, TlsOwned DEF SendRequest
<1>2. CASE ~r.idle
  <2>1. Owned(DoStatus(DoSend(WriteSession(r))), s)
    BY TlsOwned
  <2> QED BY <1>2, <2>1 DEF SendRequest
<1> QED BY <1>1, <1>2

\* ready leaves the source alone.
LEMMA ReadyOwned ==
    ASSUME NEW r, NEW s, NEW flags, NEW x, Owned(r, s)
    PROVE  Owned(Ready(r, flags, x), s)
<1> DEFINE q == [r EXCEPT !.idle = FALSE]
           t == IF "r" \in flags THEN DoSend(TryReadServer(q, x)) ELSE q
           u == IF "w" \in flags THEN DoSend([t EXCEPT !.server = Established(@)]) ELSE t
<1>1. Owned(q, s)
  BY DEF Owned
<1>2. Owned(TryReadServer(q, x), s)
  <2> HIDE DEF q
  <2> DEFINE d == DoRead(q)
  <2>1. Owned(d, s)
    BY <1>1, TlsOwned
  <2> HIDE DEF d
  <2>2. Owned([d EXCEPT !.dst = x.dst], s)
    BY <2>1 DEF Owned
  <2>3. \A w : Owned([[d EXCEPT !.dst = x.dst] EXCEPT !.sendBuffer = w], s)
    BY <2>2 DEF Owned
  <2>4. \A w : Owned([[d EXCEPT !.dst = x.dst] EXCEPT !.sendBuffer = w, !.server = Shutdown(@)], s)
    BY <2>2 DEF Owned
  <2> QED BY <2>2, <2>3, <2>4 DEF TryReadServer, d
<1>3. Owned(t, s)
  BY <1>1, <1>2, TlsOwned
<1>4. Owned(u, s)
  <2> HIDE DEF t
  <2>1. Owned([t EXCEPT !.server = Established(@)], s)
    BY <1>3 DEF Owned
  <2> QED BY <1>3, <2>1, TlsOwned
<1>5. Owned(DoStatus(u), s)
  BY <1>4, TlsOwned
<1> QED BY <1>5 DEF Ready

\* Changing one connection of the table without changing its source keeps the
\* invariant.
LEMMA SameOwner ==
    ASSUME IInv, NEW i \in table, NEW r, \A s \in Src : Owned(c[i], s) => Owned(r, s),
           c' = [c EXCEPT ![i] = r], removed' \subseteq Index, inq' \in Seq(Src \X Dst),
           UNCHANGED <<table, srcMap>>
    PROVE  IInv'
<1>1. i \in Index /\ c'[i] = r /\ \A j \in Index \ {i} : c'[j] = c[j]
  BY DEF IInv
<1>2. c' = [j \in Index |-> c'[j]]
  BY DEF IInv
<1>3. \A j \in table, s \in Src : Owned(c[j], s) => Owned(c'[j], s)
  BY <1>1 DEF IInv
<1> QED BY <1>2, <1>3 DEF IInv

\* What the environment does to a connection's sockets keeps the invariant.
LEMMA OutsideKeeps ==
    ASSUME IInv, NEW i \in table, NEW r, \A s \in Src : Owned(c[i], s) => Owned(r, s),
           Outside(i, r)
    PROVE  IInv'
BY SameOwner DEF Outside, IInv

\* The next packet is one of a source in Src.
LEMMA NextPacketType ==
    ASSUME inq \in Seq(Src \X Dst), Accepting, NextPacket
    PROVE  inq' \in Seq(Src \X Dst) /\ Head(inq)[1] \in Src
BY DEF Accepting, NextPacket

\* Every step of the loop, the clients and the server keeps the invariant.
LEMMA Inductive == IInv /\ [Next]_vars => IInv'
<1> SUFFICES ASSUME IInv, [Next]_vars PROVE IInv'
  OBVIOUS
<1> USE ConstAssumption
<1>1. CASE Fetch
  <2>1. \A i \in Index, s \in Src : Owned(c[i], s) => Owned(c'[i], s)
    BY <1>1 DEF Fetch, Owned
  <2>2. c' = [i \in Index |-> c'[i]]
    BY <1>1 DEF Fetch
  <2> QED BY <1>1, <2>1, <2>2 DEF Fetch, IInv
<1>2. CASE AcceptKnown
  <2> DEFINE s == Head(inq)[1]
             i == srcMap[s]
  <2>1. s \in Src /\ inq' \in Seq(Src \X Dst)
    BY <1>2, NextPacketType DEF AcceptKnown, IInv
  <2>2. i \in table
    BY <1>2, <2>1 DEF AcceptKnown, IInv
  <2>3. \A q \in Src : Owned(c[i], q) => Owned(SendRequest(c[i]), q)
    BY SendRequestOwned
  <2>4. /\ c' = [c EXCEPT ![i] = SendRequest(c[i])]
        /\ removed' \subseteq Index /\ UNCHANGED <<table, srcMap>>
    BY <1>2, <2>2 DEF AcceptKnown, Update, IInv
  <2> HIDE DEF i
  <2> QED BY <2>1, <2>2, <2>3, <2>4, SameOwner
<1>3. CASE AcceptNew
  <2> DEFINE s == Head(inq)[1]
  <2>1. s \in Src /\ inq' \in Seq(Src \X Dst) /\ srcMap[s] = None
    BY <1>3, NextPacketType DEF AcceptNew, IInv
  <2>2. PICK i \in Index \ table, h \in Handover :
          /\ Insert(i, s) /\ Update(i, SendRequest(NewConn(s, Head(inq)[2], h)))
    BY <1>3 DEF AcceptNew
  <2> DEFINE r == SendRequest(NewConn(s, Head(inq)[2], h))
  <2>3. Owned(r, s)
    <3>1. Owned(NewConn(s, Head(inq)[2], h), s)
      BY DEF Owned, NewConn
    <3> QED BY <3>1, SendRequestOwned
  <2> HIDE DEF r, s
  <2>4. /\ c' = [c EXCEPT ![i] = r] /\ removed' \subseteq Index
        /\ table' = table \cup {i} /\ srcMap' = [srcMap EXCEPT ![s] = i]
    BY <2>2 DEF Update, Insert, IInv, r
  <2>5. c'[i] = r /\ (\A j \in Index \ {i} : c'[j] = c[j]) /\ c' = [j \in Index |-> c'[j]]
    BY <2>2, <2>4 DEF IInv
  <2>6. srcMap' \in [Src -> Index \cup {None}] /\ srcMap'[s] = i /\ \A q \in Src \ {s} : srcMap'[q] = srcMap[q]
    BY <2>1, <2>2, <2>4 DEF IInv
  <2>7. \A j \in table' : \E q \in Src : Owned(c'[j], q) /\ srcMap'[q] = j
    <3> TAKE j \in table'
    <3>1. CASE j = i
      BY <3>1, <2>1, <2>3, <2>5, <2>6
    <3>2. CASE j # i
      <4>1. PICK q \in Src : Owned(c[j], q) /\ srcMap[q] = j
        BY <3>2, <2>4 DEF IInv
      <4>2. j \in Index /\ j # None
        BY <3>2, <2>4 DEF IInv
      <4>3. q # s
        BY <4>1, <4>2, <2>1
      <4> QED BY <3>2, <4>1, <4>2, <4>3, <2>5, <2>6
    <3> QED BY <3>1, <3>2
  <2>8. \A q \in Src : srcMap'[q] # None => srcMap'[q] \in table' /\ Owned(c'[srcMap'[q]], q)
    <3> TAKE q \in Src
    <3>1. CASE q = s
      BY <3>1, <2>3, <2>4, <2>5, <2>6
    <3>2. CASE q # s
      BY SMTT(60), <3>2, <2>2, <2>4, <2>5, <2>6 DEF IInv
    <3> QED BY <3>1, <3>2
  <2>9. table' \subseteq Index
    BY <2>2, <2>4 DEF IInv
  <2> QED BY <2>1, <2>4, <2>5, <2>6, <2>7, <2>8, <2>9 DEF IInv
<1>4. CASE AcceptFails
  BY <1>4, NextPacketType DEF AcceptFails, IInv
<1>5. CASE HandleConn
  <2>1. PICK i \in table, ok \in BOOLEAN :
          Update(i, Ready(c[i], batch[i], Deliver(c[i].dst, Received(c[i]), ok)))
    BY <1>5 DEF HandleConn
  <2>2. UNCHANGED <<table, srcMap, inq>>
    BY <1>5 DEF HandleConn
  <2> DEFINE r == Ready(c[i], batch[i], Deliver(c[i].dst, Received(c[i]), ok))
  <2>3. \A s \in Src : Owned(c[i], s) => Owned(r, s)
    BY ReadyOwned
  <2> HIDE DEF r
  <2>4. c' = [c EXCEPT ![i] = r] /\ removed' \subseteq Index
    BY <2>1 DEF Update, IInv, r
  <2> QED BY <2>2, <2>3, <2>4, SameOwner DEF IInv
<1>6. CASE RemoveClosed
  <2> DEFINE dead == removed \cap table
  <2>1. /\ table' = table \ dead /\ removed' = {} /\ UNCHANGED inq
        /\ c' = [i \in Index |-> IF i \in removed THEN Blank ELSE c[i]]
        /\ srcMap' = [s \in Src |-> IF \E i \in dead : c[i].src = s THEN None ELSE srcMap[s]]
    BY <1>6 DEF RemoveClosed, Forget
  <2>2. \A i \in table' : i \in table /\ i \notin removed /\ c'[i] = c[i]
    BY <2>1 DEF IInv
  <2>3. \A i \in table' : \E s \in Src : Owned(c'[i], s) /\ srcMap'[s] = i
    <3> TAKE i \in table'
    <3>1. PICK s \in Src : Owned(c[i], s) /\ srcMap[s] = i
      BY <2>2 DEF IInv
    <3>2. \A j \in dead : c[j].src # s
      <4> SUFFICES ASSUME NEW j \in dead, c[j].src = s PROVE FALSE
        OBVIOUS
      <4>1. PICK q \in Src : Owned(c[j], q) /\ srcMap[q] = j
        BY DEF IInv
      <4>2. q = s
        BY <4>1 DEF Owned
      <4> QED BY <3>1, <4>1, <4>2, <2>2
    <3> QED BY <3>1, <3>2, <2>1, <2>2
  <2>4. \A s \in Src : srcMap'[s] # None => srcMap'[s] \in table' /\ Owned(c'[srcMap'[s]], s)
    <3> SUFFICES ASSUME NEW s \in Src, srcMap'[s] # None
                 PROVE  srcMap'[s] \in table' /\ Owned(c'[srcMap'[s]], s)
      OBVIOUS
    <3>1. srcMap'[s] = srcMap[s] /\ (\A j \in dead : c[j].src # s)
      BY <2>1
    <3>2. srcMap[s] \in table /\ Owned(c[srcMap[s]], s)
      BY <3>1 DEF IInv
    <3>3. srcMap[s] \notin dead
      BY <3>1, <3>2 DEF Owned
    <3> QED BY <3>1, <3>2, <3>3, <2>1, <2>2
  <2>5. srcMap' \in [Src -> Index \cup {None}]
    BY <2>1 DEF IInv
  <2>6. c' = [i \in Index |-> c'[i]]
    BY <2>1
  <2>7. table' \subseteq Index /\ removed' \subseteq Index /\ inq' \in Seq(Src \X Dst)
    BY <2>1 DEF IInv
  <2> QED BY <2>3, <2>4, <2>5, <2>6, <2>7 DEF IInv
<1>7. CASE CheckTimeout
  BY <1>7 DEF CheckTimeout, IInv
<1>8. ASSUME NEW s \in Src, ClientSend(s) PROVE IInv'
  <2>1. PICK d \in Dst : inq' = Append(inq, <<s, d>>)
    BY <1>8 DEF ClientSend
  <2>2. inq' \in Seq(Src \X Dst)
    BY <2>1 DEF IInv
  <2> QED BY <1>8, <2>2 DEF ClientSend, IInv
<1>9. ASSUME NEW i \in Index, Quiet(i) PROVE IInv'
  <2>1. \A s \in Src : Owned(c[i], s) => Owned([c[i] EXCEPT !.idle = TRUE], s)
    BY DEF Owned
  <2>2. i \in table /\ c' = [c EXCEPT ![i] = [c[i] EXCEPT !.idle = TRUE]] /\ UNCHANGED <<table, srcMap, removed, inq>>
    BY <1>9 DEF Quiet, IInv
  <2> QED BY <2>1, <2>2, SameOwner DEF IInv
<1>10. ASSUME NEW i \in Index, ServerConnect(i) PROVE IInv'
  <2>1. \A s \in Src : \A w : Owned(c[i], s) => /\ Owned([c[i] EXCEPT !.scon = w], s)
                                                 /\ Owned([c[i] EXCEPT !.send = w], s)
    BY DEF Owned
  <2> QED BY <1>10, <2>1, OutsideKeeps DEF ServerConnect, Registered
<1>11. ASSUME NEW i \in Index, ServerHello(i) PROVE IInv'
  <2>1. \A s \in Src : Owned(c[i], s) => Owned([c[i] EXCEPT !.hin = TRUE], s)
    BY DEF Owned
  <2> QED BY <1>11, <2>1, OutsideKeeps DEF ServerHello, Registered
<1>12. ASSUME NEW i \in Index, ServerSend(i) PROVE IInv'
  <2>1. \A s \in Src : \A h : Owned(c[i], s) => Owned([c[i] EXCEPT !.sin = Append(@, h)], s)
    BY DEF Owned
  <2>2. PICK h \in Half : Outside(i, [c[i] EXCEPT !.sin = Append(@, h)])
    BY <1>12 DEF ServerSend
  <2> QED BY <1>12, <2>1, <2>2, OutsideKeeps DEF ServerSend, Registered
<1>13. ASSUME NEW i \in Index, ServerClose(i) PROVE IInv'
  <2>1. \A s \in Src : \A w : Owned(c[i], s) => Owned([c[i] EXCEPT !.send = w], s)
    BY DEF Owned
  <2> QED BY <1>13, <2>1, OutsideKeeps DEF ServerClose, Registered
<1>14. ASSUME NEW i \in Index, ServerRecv(i) PROVE IInv'
  <2>1. \A s \in Src : Owned(c[i], s) => /\ Owned([c[i] EXCEPT !.sout = @ - 1, !.sblk = FALSE], s)
                                        /\ Owned([c[i] EXCEPT !.sout = @ - 1], s)
    BY DEF Owned
  <2>2. i \in table
    BY <1>14 DEF ServerRecv, Registered
  <2>3. CASE c[i].sblk
    BY <1>14, <2>1, <2>2, <2>3, OutsideKeeps DEF ServerRecv
  <2>4. CASE ~c[i].sblk
    <3>1. c' = [c EXCEPT ![i] = [c[i] EXCEPT !.sout = @ - 1]] /\ UNCHANGED <<table, srcMap, removed, inq>>
      BY <1>14, <2>4, <2>2 DEF ServerRecv, IInv
    <3> QED BY <3>1, <2>1, <2>2, SameOwner DEF IInv
  <2> QED BY <2>3, <2>4
<1>15. CASE UNCHANGED vars
  BY <1>15 DEF vars, IInv
<1> QED
  BY <1>1, <1>2, <1>3, <1>4, <1>5, <1>6, <1>7, <1>8, <1>9, <1>10, <1>11, <1>12,
     <1>13, <1>14, <1>15 DEF Next, Loop

\* For any sets of sources, targets and indexes, conns and src_map of UdpServer
\* describe the same connections in every reachable state.
THEOREM OneConnectionPerSource == Spec => []MapsAgree
<1>1. Init => IInv
  BY ConstAssumption DEF Init, IInv
<1>2. IInv => MapsAgree
  BY DEF IInv, MapsAgree, Owned
<1> QED BY <1>1, <1>2, Inductive, PTL DEF Spec

-----------------------------------------------------------------------------
\* The halves of frames that a connection has received or will read are in sequence.
InFrames(q) ==
    /\ q # <<>> => q[1][2] # 2
    /\ \A k \in 1 .. Len(q) - 1 : IF q[k][2] = 1 THEN q[k + 1] = <<q[k][1], 2>> ELSE q[k + 1][2] # 2

\* One connection: its type and its bounds.
Typed(r) == r \in ConnState /\ r.sout <= SockCap /\ r.plain + r.session <= SessLimit

\* What the operators that leave the received data alone establish.
Kept(r, t) == Typed(t) /\ t.src = r.src /\ t.dst = r.dst /\ t.sendBuffer = r.sendBuffer /\ t.sin = r.sin

\* The type of every field.
LEMMA TypedFields ==
    ASSUME NEW r, Typed(r)
    PROVE  /\ r.src \in Src \cup {None} /\ r.dst \in Dst \cup {None} /\ r.own \in Status /\ r.server \in Status
           /\ r.sendBuffer \in Seq(Half) /\ r.sin \in Seq(Half) /\ r.idle \in BOOLEAN /\ r.writable \in BOOLEAN
           /\ r.tls \in {"start", "sent", "done"} /\ r.plain \in Nat /\ r.session \in Nat /\ r.sout \in Nat
           /\ r.sblk \in BOOLEAN /\ r.hin \in BOOLEAN /\ r.send \in {"open", "fin", "rst"}
           /\ r.scon \in {"connecting", "up"}
           /\ r.sout <= SockCap /\ r.plain + r.session <= SessLimit
           /\ SockCap \in Nat /\ SessLimit \in Nat
BY ConstAssumption DEF Typed, ConnState

\* The life cycle stays among its states.
LEMMA StatusTypes ==
    ASSUME NEW st \in Status
    PROVE  /\ Shutdown(st) \in Status /\ PeerClosed(st) \in Status /\ Established(st) \in Status
           /\ \A b \in BOOLEAN : CheckStatus(st, b) \in Status
BY DEF Status, Shutdown, PeerClosed, Established, CheckStatus

\* do_send moves records into the socket, as many as it takes.
LEMMA DoSendKeeps == ASSUME NEW r, Typed(r) PROVE Kept(r, DoSend(r))
<1> DEFINE n == IF r.session <= SockCap - r.sout THEN r.session ELSE SockCap - r.sout
           a == [r EXCEPT !.writable = TRUE]
           b == [r EXCEPT !.writable = TRUE, !.server = Shutdown(@)]
           d == [r EXCEPT !.tls = IF @ = "start" THEN "sent" ELSE @,
                   !.sout = @ + n, !.session = @ - n,
                   !.writable = (n = r.session), !.sblk = @ \/ n < r.session]
<1>1. n \in Nat /\ r.session - n \in Nat /\ r.sout + n \in Nat /\ r.sout + n <= SockCap
      /\ r.plain + (r.session - n) <= SessLimit
  BY SMTT(60), TypedFields
<1>2. Shutdown(r.server) \in Status
  BY TypedFields, StatusTypes
<1>3. Kept(r, a)
  BY DEF Kept, Typed, ConnState
<1>4. Kept(r, b)
  BY <1>2 DEF Kept, Typed, ConnState
<1>5. Kept(r, d)
  <2> HIDE DEF n
  <2>1. (n = r.session) \in BOOLEAN /\ (r.sblk \/ n < r.session) \in BOOLEAN
    OBVIOUS
  <2> QED BY ZenonT(60), <1>1, <2>1 DEF Kept, Typed, ConnState
<1>6. Kept(r, r)
  BY DEF Kept
<1>7. DoSend(r) \in {r, a, b, d}
  BY DEF DoSend
<1> HIDE DEF a, b, d
<1> QED BY <1>3, <1>4, <1>5, <1>6, <1>7

\* Two such operators in a row.
LEMMA KeptTrans == ASSUME NEW r, NEW t, NEW u, Kept(r, t), Kept(t, u) PROVE Kept(r, u)
BY DEF Kept

\* do_read empties the socket and may complete the handshake.
LEMMA DoReadTyped ==
    ASSUME NEW r, Typed(r)
    PROVE  /\ Typed(DoRead(r)) /\ DoRead(r).src = r.src /\ DoRead(r).dst = r.dst
           /\ DoRead(r).sendBuffer = r.sendBuffer /\ DoRead(r).sin = <<>>
<1> DEFINE v == IF r.send # "open" THEN Shutdown(r.server) ELSE r.server
           l == IF r.hin THEN "done" ELSE r.tls
           m == IF r.hin THEN r.session + r.plain ELSE r.session
           p == IF r.hin THEN 0 ELSE r.plain
           t == [r EXCEPT !.sin = <<>>, !.hin = FALSE, !.tls = l, !.session = m, !.plain = p, !.server = v]
<1>1. v \in Status
  BY TypedFields, StatusTypes
<1>2. m \in Nat /\ p \in Nat /\ p + m <= SessLimit /\ l \in {"start", "sent", "done"}
  BY TypedFields
<1>3. DoRead(r) = t
  BY DEF DoRead
<1>4. <<>> \in Seq(Half)
  BY EmptySeq
<1> HIDE DEF v, m, p, l
<1>5. Typed(t) /\ t.src = r.src /\ t.dst = r.dst /\ t.sendBuffer = r.sendBuffer /\ t.sin = <<>>
  BY <1>1, <1>2, <1>4 DEF Typed, ConnState
<1> QED BY <1>3, <1>5

\* write_session never queues more than the limit.
LEMMA WriteSessionKeeps == ASSUME NEW r, Typed(r) PROVE Kept(r, WriteSession(r))
<1> DEFINE a == [r EXCEPT !.server = Shutdown(@)]
           b == [r EXCEPT !.session = @ + 1]
           d == [r EXCEPT !.plain = @ + 1]
<1>1. Kept(r, a)
  <2>1. Shutdown(r.server) \in Status
    BY TypedFields, StatusTypes
  <2> QED BY <2>1 DEF Kept, Typed, ConnState
<1>2. r.plain + r.session < SessLimit => r.plain + (r.session + 1) <= SessLimit /\ (r.plain + 1) + r.session <= SessLimit
  BY TypedFields
<1>3. ASSUME r.plain + r.session < SessLimit PROVE Kept(r, b) /\ Kept(r, d)
  <2> DEFINE m == r.session + 1
             p == r.plain + 1
  <2>1. m \in Nat /\ p \in Nat /\ r.plain + m <= SessLimit /\ p + r.session <= SessLimit
    BY <1>2, <1>3, TypedFields
  <2>2. b = [r EXCEPT !.session = m] /\ d = [r EXCEPT !.plain = p]
    OBVIOUS
  <2> HIDE DEF m, p, b, d
  <2>3. Kept(r, b)
    BY <2>1, <2>2 DEF Kept, Typed, ConnState
  <2>4. Kept(r, d)
    BY <2>1, <2>2 DEF Kept, Typed, ConnState
  <2> QED BY <2>3, <2>4
<1>4. ~(r.plain + r.session >= SessLimit) => r.plain + r.session < SessLimit
  BY TypedFields
<1> HIDE DEF a, b, d
<1> QED BY <1>1, <1>3, <1>4 DEF WriteSession, a, b, d

\* do_status changes the two states only.
LEMMA DoStatusKeeps == ASSUME NEW r, Typed(r) PROVE Kept(r, DoStatus(r))
<1> DEFINE v == IF IsShutdown(r.own) THEN PeerClosed(r.server) ELSE r.server
           o == IF IsShutdown(v) THEN PeerClosed(r.own) ELSE r.own
           x == CheckStatus(o, r.sendBuffer = <<>>)
           y == CheckStatus(v, ~WantsWrite(r))
           t == [r EXCEPT !.own = x, !.server = y]
<1>1. v \in Status /\ o \in Status
  BY TypedFields, StatusTypes
<1>2. (r.sendBuffer = <<>>) \in BOOLEAN /\ (~WantsWrite(r)) \in BOOLEAN
  BY DEF WantsWrite
<1> HIDE DEF v, o
<1>3. x \in Status /\ y \in Status
  BY <1>1, <1>2, StatusTypes
<1>4. DoStatus(r) = t
  BY DEF DoStatus, v, o
<1> HIDE DEF x, y
<1>5. Kept(r, t)
  BY <1>3 DEF Kept, Typed, ConnState
<1> QED BY <1>4, <1>5

\* send_request leaves what was received, and the socket in use, alone.
LEMMA SendRequestKeeps == ASSUME NEW r, Typed(r) PROVE Kept(r, SendRequest(r))
<1> DEFINE a == [r EXCEPT !.own = Shutdown(@)]
           b == WriteSession(r)
<1>1. Kept(r, a)
  <2>1. Shutdown(r.own) \in Status
    BY TypedFields, StatusTypes
  <2> QED BY <2>1 DEF Kept, Typed, ConnState
<1>2. Kept(r, b)
  BY WriteSessionKeeps
<1> HIDE DEF a, b
<1>3. Kept(r, DoStatus(a))
  <2>1. Kept(a, DoStatus(a))
    BY <1>1, DoStatusKeeps DEF Kept
  <2> QED BY <1>1, <2>1, KeptTrans
<1>4. Kept(r, DoStatus(DoSend(b)))
  <2>1. Kept(b, DoSend(b))
    BY <1>2, DoSendKeeps DEF Kept
  <2>2. Kept(DoSend(b), DoStatus(DoSend(b)))
    BY <2>1, DoStatusKeeps DEF Kept
  <2> QED BY <1>2, <2>1, <2>2, KeptTrans
<1>5. Kept(r, r)
  BY DEF Kept
<1> QED BY <1>3, <1>4, <1>5 DEF SendRequest, a, b

\* The least element of a set of numbers.
LEMMA LeastOf ==
    ASSUME NEW A \in SUBSET Nat, A # {}
    PROVE  \E m \in A : \A n \in A : m <= n
<1> DEFINE R == OpToRel(<, Nat)
<1>1. IsWellFoundedOn(R, Nat)
  BY NatLessThanWellFounded
<1> HIDE DEF R
<1>2. PICK m \in A : \A y \in A : ~(<<y, m>> \in R)
  BY <1>1, WFMin
<1>3. \A y \in A : ~(y < m)
  BY <1>2 DEF R, OpToRel
<1> QED BY <1>3

\* do_send_client stops somewhere.
LEMMA FramesType ==
    ASSUME NEW buf \in Seq(Half)
    PROVE  /\ Frames(buf) \in Nat /\ 2 * Frames(buf) <= Len(buf)
           /\ \A k \in 1 .. Frames(buf) : buf[2 * k - 1][2] = 1 /\ buf[2 * k] = <<buf[2 * k - 1][1], 2>>
<1> DEFINE L == Len(buf)
           F(k) == buf[2 * k - 1][2] = 1 /\ buf[2 * k] = <<buf[2 * k - 1][1], 2>>
           Stops(n) == 2 * n + 2 <= L => (buf[2 * n + 1][2] # 1 \/ buf[2 * n + 2] # <<buf[2 * n + 1][1], 2>>)
           A == {n \in 0 .. L \div 2 : Stops(n)}
           Good(n) == (\A k \in 1 .. n : F(k)) /\ Stops(n)
<1>1. L \in Nat /\ L \div 2 \in Nat /\ 2 * (L \div 2) <= L /\ L < 2 * (L \div 2) + 2
  <2>1. L \in Nat
    BY LenProperties
  <2> HIDE DEF L
  <2> QED BY <2>1
<1>2. L \div 2 \in A
  BY <1>1
<1>3. PICK m \in A : \A n \in A : m <= n
  <2>1. A \in SUBSET Nat
    BY <1>1
  <2> HIDE DEF A
  <2> QED BY <1>2, <2>1, LeastOf
<1>4. Good(m)
  <2>1. Stops(m) /\ m \in Nat /\ m <= L \div 2
    BY <1>1, <1>3
  <2>2. ASSUME NEW k \in 1 .. m PROVE F(k)
    <3>1. k - 1 \in 0 .. L \div 2 /\ ~(m <= k - 1) /\ k \in Nat
      BY <1>1, <2>1
    <3>2. k - 1 \notin A
      BY <1>3, <3>1
    <3>3. ~Stops(k - 1)
      BY <3>1, <3>2
    <3>4. 2 * (k - 1) + 1 = 2 * k - 1 /\ 2 * (k - 1) + 2 = 2 * k
      BY <3>1
    <3> QED BY <3>3, <3>4
  <2> QED BY <2>1, <2>2
<1>5. Frames(buf) = CHOOSE n \in 0 .. L \div 2 : Good(n)
  BY DEF Frames
<1>6. m \in 0 .. L \div 2
  OBVIOUS
<1> HIDE DEF Good
<1>7. Frames(buf) \in 0 .. L \div 2 /\ Good(Frames(buf))
  BY <1>4, <1>5, <1>6
<1> DEFINE f == Frames(buf)
<1> HIDE DEF f
<1>8. f \in Nat /\ 2 * f <= L
  <2>1. f \in 0 .. L \div 2
    BY <1>7 DEF f
  <2> HIDE DEF L
  <2> QED BY <1>1, <2>1
<1> QED BY <1>7, <1>8 DEF Good, f

\* What a buffer's frames make of the socket in use, the cache and the datagrams.
Named(x) ==
    /\ DOMAIN x = {"dst", "cache", "sent"} /\ x.dst \in x.cache /\ cache \subseteq x.cache /\ x.cache \subseteq Dst
    /\ x.sent \in Seq(Dst \X Dst) /\ \A k \in 1 .. Len(x.sent) : x.sent[k][1] = x.sent[k][2]

\* do_send_udp sends through the socket of the address in the frame.
LEMMA DoSendUdpNamed ==
    ASSUME NEW x, Named(x), NEW a \in Dst, NEW ok
    PROVE  Named(DoSendUdp(x, a, ok))
<1> DEFINE q == Append(x.sent, <<a, a>>)
           p == x.sent
           y == [dst |-> a, cache |-> x.cache \cup {a}, sent |-> q]
<1>1. p \in Seq(Dst \X Dst) /\ <<a, a>> \in Dst \X Dst /\ <<a, a>>[1] = <<a, a>>[2]
  BY DEF Named
<1>2. q \in Seq(Dst \X Dst) /\ Len(q) = Len(p) + 1 /\ Len(p) \in Nat /\ q[Len(p) + 1] = <<a, a>>
      /\ \A k \in 1 .. Len(p) : q[k] = p[k]
  <2> DEFINE e == <<a, a>>
  <2>1. q = Append(p, e)
    OBVIOUS
  <2>2. e \in Dst \X Dst
    BY <1>1
  <2> HIDE DEF e, p, q
  <2> QED BY <1>1, <2>1, <2>2, AppendProperties, LenProperties DEF e
<1>3. \A k \in 1 .. Len(p) : p[k][1] = p[k][2]
  BY DEF Named
<1> HIDE DEF p, q
<1>4. \A k \in 1 .. Len(q) : q[k][1] = q[k][2]
  <2> SUFFICES ASSUME NEW k \in 1 .. Len(q) PROVE q[k][1] = q[k][2]
    OBVIOUS
  <2>1. k \in 1 .. Len(p) \/ k = Len(p) + 1
    BY <1>2
  <2> QED BY <1>1, <1>2, <1>3, <2>1
<1>5. Named(y)
  BY <1>2, <1>4 DEF Named
<1> QED BY <1>5 DEF DoSendUdp, q

\* Deliver goes through the frames one by one.
LEMMA DeliverNamed ==
    ASSUME NEW d, d \in cache, cache \subseteq Dst, NEW buf \in Seq(Half), NEW ok
    PROVE  Named(Deliver(d, buf, ok))
<1> DEFINE x0 == [dst |-> d, cache |-> cache, sent |-> <<>>]
           N == Frames(buf)
           G(g, n) == g = [k \in 0 .. n |-> IF k = 0 THEN x0 ELSE DoSendUdp(g[k - 1], buf[2 * k][1], ok)]
           Bad == {n \in Nat : n <= N /\ ~ \E g : G(g, n) /\ Named(g[n])}
           f == CHOOSE g : G(g, N)
<1>1. N \in Nat /\ \A k \in 1 .. N : buf[2 * k][1] \in Dst
  <2>1. N \in Nat /\ 2 * N <= Len(buf) /\ Len(buf) \in Nat
    BY FramesType, LenProperties
  <2>2. \A k \in 1 .. N : 2 * k \in 1 .. Len(buf)
    <3> HIDE DEF N
    <3> QED BY <2>1
  <2>3. \A j \in 1 .. Len(buf) : buf[j] \in Half
    BY ElementOfSeq
  <2> QED BY <2>1, <2>2, <2>3 DEF Half
<1>2. Named(x0)
  <2>1. <<>> \in Seq(Dst \X Dst) /\ Len(<<>>) = 0
    BY EmptySeq
  <2> QED BY <2>1 DEF Named
<1> HIDE DEF x0, N
<1>3. Bad = {}
  <2> SUFFICES ASSUME Bad # {} PROVE FALSE
    OBVIOUS
  <2>1. PICK m \in Bad : \A n \in Bad : m <= n
    <3>1. Bad \in SUBSET Nat
      OBVIOUS
    <3> HIDE DEF Bad
    <3> QED BY <3>1, LeastOf
  <2>2. m \in Nat /\ m <= N /\ ~ \E g : G(g, m) /\ Named(g[m])
    OBVIOUS
  <2>3. CASE m = 0
    <3> DEFINE g == [k \in 0 .. 0 |-> x0]
    <3>1. g[0] = x0 /\ \A k \in 0 .. 0 : k = 0
      OBVIOUS
    <3>2. G(g, 0)
      BY <3>1
    <3> QED BY <1>2, <2>2, <2>3, <3>1, <3>2
  <2>4. CASE m # 0
    <3>1. m - 1 \in Nat /\ ~(m <= m - 1) /\ m - 1 <= N /\ m \in 1 .. N
      BY <1>1, <2>2, <2>4
    <3>2. PICK g : G(g, m - 1) /\ Named(g[m - 1])
      BY <2>1, <3>1
    <3> DEFINE y == DoSendUdp(g[m - 1], buf[2 * m][1], ok)
               h == [k \in 0 .. m |-> IF k = m THEN y ELSE g[k]]
    <3>3. Named(y)
      BY <1>1, <3>1, <3>2, DoSendUdpNamed
    <3>4. h[m] = y /\ \A k \in 0 .. m - 1 : h[k] = g[k]
      BY <2>2
    <3>5. ASSUME NEW k \in 0 .. m
          PROVE  h[k] = IF k = 0 THEN x0 ELSE DoSendUdp(h[k - 1], buf[2 * k][1], ok)
      <4>1. CASE k = m
        <5>1. k # 0 /\ m - 1 \in 0 .. m - 1
          BY <2>4, <3>1, <4>1
        <5> QED BY <3>4, <4>1, <5>1
      <4>2. CASE k # m
        <5>1. k \in 0 .. m - 1 /\ (k # 0 => k - 1 \in 0 .. m - 1)
          BY <2>2, <4>2
        <5>2. g[k] = IF k = 0 THEN x0 ELSE DoSendUdp(g[k - 1], buf[2 * k][1], ok)
          BY <3>2, <5>1
        <5> HIDE DEF h, y
        <5> QED BY <3>4, <5>1, <5>2
      <4> QED BY <4>1, <4>2
    <3>6. h = [k \in 0 .. m |-> h[k]]
      OBVIOUS
    <3> HIDE DEF h, y
    <3>7. G(h, m)
      BY <3>5, <3>6
    <3> QED BY <2>2, <3>3, <3>4, <3>7
  <2> QED BY <2>3, <2>4
<1>4. \E g : G(g, N)
  <2>1. N \notin Bad
    BY <1>3
  <2>2. N <= N
    BY <1>1
  <2>3. \E g : G(g, N) /\ Named(g[N])
    <3> HIDE DEF G
    <3> QED BY <1>1, <2>1, <2>2
  <2> HIDE DEF G
  <2> QED BY <2>3
<1>5. G(f, N)
  <2> HIDE DEF G
  <2> QED BY <1>4
<1>6. f[0] = x0 /\ \A k \in 1 .. N : f[k] = DoSendUdp(f[k - 1], buf[2 * k][1], ok)
  <2> HIDE DEF f
  <2>1. \A k \in 0 .. N : f[k] = IF k = 0 THEN x0 ELSE DoSendUdp(f[k - 1], buf[2 * k][1], ok)
    BY <1>5
  <2>2. 0 \in 0 .. N /\ \A k \in 1 .. N : k \in 0 .. N /\ k # 0
    BY <1>1
  <2> QED BY <2>1, <2>2
<1> DEFINE Off == {n \in Nat : n <= N /\ ~Named(f[n])}
<1>7. Off = {}
  <2> SUFFICES ASSUME Off # {} PROVE FALSE
    OBVIOUS
  <2> HIDE DEF f
  <2>1. PICK m \in Off : \A n \in Off : m <= n
    <3>1. Off \in SUBSET Nat
      OBVIOUS
    <3> HIDE DEF Off
    <3> QED BY <3>1, LeastOf
  <2>2. m \in Nat /\ m <= N /\ ~Named(f[m])
    OBVIOUS
  <2>3. m # 0
    BY <1>2, <1>6, <2>2
  <2>4. m - 1 \in Nat /\ ~(m <= m - 1) /\ m - 1 <= N /\ m \in 1 .. N
    BY <1>1, <2>2, <2>3
  <2>5. Named(f[m - 1])
    BY <2>1, <2>4
  <2>6. Named(DoSendUdp(f[m - 1], buf[2 * m][1], ok))
    BY <1>1, <2>4, <2>5, DoSendUdpNamed
  <2> QED BY <1>6, <2>2, <2>4, <2>6
<1>8. Named(f[N])
  <2>1. N \notin Off /\ N <= N
    BY <1>1, <1>7
  <2> HIDE DEF f
  <2> QED BY <1>1, <2>1
<1>9. Deliver(d, buf, ok) = f[N]
  BY DEF Deliver, N, x0
<1> QED BY <1>8, <1>9

\* A connection whose received halves are in sequence.
Whole(r) == InFrames(r.sendBuffer \o r.sin)

\* What leaves the received data alone keeps it in sequence.
LEMMA KeptWhole == ASSUME NEW r, NEW t, Kept(r, t), Whole(r) PROVE Whole(t)
BY DEF Kept, Whole

\* try_read_server leaves at most the first half of a frame behind.
LEMMA TryReadServerTyped ==
    ASSUME NEW r, Typed(r), Whole(r), NEW x, x.dst \in Dst
    PROVE  /\ Typed(TryReadServer(r, x)) /\ Whole(TryReadServer(r, x))
           /\ TryReadServer(r, x).src = r.src /\ TryReadServer(r, x).dst = x.dst
<1> DEFINE d == DoRead(r)
           t == [d EXCEPT !.dst = x.dst]
           buf == Received(r)
           F == Frames(buf)
           rest == SubSeq(buf, 2 * F + 1, Len(buf))
           e == Shutdown(t.server)
           u == [t EXCEPT !.sendBuffer = <<>>, !.server = e]
           w == [t EXCEPT !.sendBuffer = rest]
<1>1. Typed(d) /\ d.src = r.src /\ d.dst = r.dst /\ d.sendBuffer = r.sendBuffer /\ d.sin = <<>>
  BY DoReadTyped
<1>2. r.sendBuffer \in Seq(Half) /\ r.sin \in Seq(Half)
  BY TypedFields
<1>3. buf \in Seq(Half)
  BY <1>2, ConcatProperties DEF Received
<1>4. rest \in Seq(Half)
  <2>1. F \in Nat /\ 2 * F <= Len(buf) /\ Len(buf) \in Nat
    BY <1>3, FramesType, LenProperties
  <2> DEFINE l == 2 * F + 1
             n == Len(buf)
  <2>2. \A k \in l .. n : k \in 1 .. n
    <3> HIDE DEF F
    <3> QED BY <2>1
  <2>3. \A k \in 1 .. n : buf[k] \in Half
    BY <1>3, ElementOfSeq
  <2>4. l \in Int /\ n \in Int
    <3> HIDE DEF F
    <3> QED BY <2>1
  <2> HIDE DEF l, buf
  <2>5. \A k \in l .. n : buf[k] \in Half
    BY <2>2, <2>3
  <2>6. SubSeq(buf, l, n) \in Seq(Half)
    <3> HIDE DEF n
    <3> QED BY <1>3, <2>4, <2>5, SubSeqProperties
  <2> QED BY <2>6 DEF l
<1> HIDE DEF d
<1>5. Typed(t) /\ t.src = r.src /\ t.dst = x.dst /\ t.sendBuffer = r.sendBuffer /\ t.sin = <<>>
  BY <1>1 DEF Typed, ConnState
<1>6. e \in Status
  BY <1>5, TypedFields, StatusTypes
<1> HIDE DEF t, e, rest
<1>7. <<>> \in Seq(Half)
  BY EmptySeq
<1>8. Typed(u) /\ u.src = r.src /\ u.dst = x.dst /\ u.sendBuffer = <<>> /\ u.sin = <<>>
  BY <1>5, <1>6, <1>7 DEF Typed, ConnState
<1>9. Typed(w) /\ w.src = r.src /\ w.dst = x.dst /\ w.sendBuffer = rest /\ w.sin = <<>>
  BY <1>4, <1>5 DEF Typed, ConnState
<1>10. ASSUME NEW q \in Seq(Half) PROVE q \o <<>> = q
  BY <1>10, ConcatEmptySeq
<1>11. r.sin = <<>> => Whole(t)
  BY <1>5 DEF Whole
<1>12. Whole(u)
  <2>1. <<>> \o <<>> = <<>> /\ Len(<<>>) = 0
    BY <1>7, <1>10, EmptySeq
  <2>2. u.sendBuffer \o u.sin = <<>>
    BY <1>8, <2>1
  <2> HIDE DEF u
  <2> QED BY <2>1, <2>2 DEF Whole, InFrames
<1>13. ~Invalid(rest) => Whole(w)
  <2> SUFFICES ASSUME ~Invalid(rest) PROVE Whole(w)
    OBVIOUS
  <2>1. w.sendBuffer \o w.sin = rest
    BY <1>4, <1>9, <1>10
  <2>2. Len(rest) \in Nat /\ (rest # <<>> => rest[1][2] = 1 /\ ~(Len(rest) > 1))
    BY <1>4, LenProperties DEF Invalid
  <2>3. rest = <<>> => Len(rest) = 0
    BY EmptySeq
  <2>4. Len(rest) <= 1
    BY <2>2, <2>3
  <2>5. \A k \in 1 .. Len(rest) - 1 : FALSE
    BY <2>2, <2>4
  <2>6. rest # <<>> => rest[1][2] # 2
    BY <2>2
  <2>7. InFrames(rest)
    BY <2>5, <2>6 DEF InFrames
  <2> HIDE DEF w
  <2> QED BY <2>1, <2>7 DEF Whole
<1>14. TryReadServer(r, x) = IF r.sin = <<>> THEN t ELSE IF Invalid(rest) THEN u ELSE w
  BY DEF TryReadServer, t, d, e, rest
<1> HIDE DEF u, w
<1> QED BY <1>5, <1>8, <1>9, <1>11, <1>12, <1>13, <1>14

\* ready keeps the type, the owner and the sequence; a read moves to the last socket used.
LEMMA ReadyTyped ==
    ASSUME NEW r, Typed(r), Whole(r), NEW flags, NEW x, "r" \in flags => x.dst \in Dst
    PROVE  /\ Typed(Ready(r, flags, x)) /\ Whole(Ready(r, flags, x))
           /\ Ready(r, flags, x).dst = IF "r" \in flags THEN x.dst ELSE r.dst
<1> DEFINE q == [r EXCEPT !.idle = FALSE]
           y == TryReadServer(q, x)
           t == IF "r" \in flags THEN DoSend(y) ELSE q
           e == Established(t.server)
           v == [t EXCEPT !.server = e]
           u == IF "w" \in flags THEN DoSend(v) ELSE t
<1>1. Kept(r, q)
  BY DEF Kept, Typed, ConnState
<1>2. Whole(q)
  BY <1>1, KeptWhole
<1>3. Typed(q) /\ q.dst = r.dst
  BY <1>1 DEF Kept
<1> HIDE DEF q
<1>4. "r" \in flags => Typed(y) /\ Whole(y) /\ y.dst = x.dst
  BY <1>2, <1>3, TryReadServerTyped
<1> HIDE DEF y
<1>5. Typed(t) /\ Whole(t) /\ t.dst = IF "r" \in flags THEN x.dst ELSE r.dst
  <2>1. CASE "r" \in flags
    <3>1. Kept(y, DoSend(y))
      BY <1>4, <2>1, DoSendKeeps
    <3>2. Whole(DoSend(y))
      BY <1>4, <2>1, <3>1, KeptWhole
    <3>3. Typed(DoSend(y)) /\ DoSend(y).dst = x.dst
      BY <1>4, <2>1, <3>1 DEF Kept
    <3> QED BY <2>1, <3>2, <3>3
  <2>2. CASE "r" \notin flags
    BY <1>2, <1>3, <2>2
  <2> QED BY <2>1, <2>2
<1> HIDE DEF t
<1>6. e \in Status
  BY <1>5, TypedFields, StatusTypes
<1> HIDE DEF e
<1>7. Kept(t, v)
  BY <1>5, <1>6 DEF Kept, Typed, ConnState
<1> HIDE DEF v
<1>8. Kept(t, t)
  BY <1>5 DEF Kept
<1>9. Kept(v, DoSend(v))
  BY <1>7, DoSendKeeps DEF Kept
<1>10. Kept(t, u)
  BY <1>7, <1>8, <1>9, KeptTrans
<1> HIDE DEF u
<1>11. Kept(t, DoStatus(u))
  <2>1. Kept(u, DoStatus(u))
    BY <1>10, DoStatusKeeps DEF Kept
  <2> QED BY <1>10, <2>1, KeptTrans
<1>12. Ready(r, flags, x) = DoStatus(u)
  BY DEF Ready, u, v, e, t, y, q
<1>13. Whole(DoStatus(u))
  BY <1>5, <1>11, KeptWhole
<1> QED BY <1>5, <1>11, <1>12, <1>13 DEF Kept

\* The datagrams of one step, in the names of their frames.
InName(q) == q \in Seq(Src \X Dst \X Dst) /\ \A k \in 1 .. Len(q) : q[k][2] = q[k][3]

\* The connections, and the sockets they use.
ConnsInv ==
    /\ c = [i \in Index |-> c[i]] /\ \A i \in Index : Typed(c[i]) /\ Whole(c[i])
    /\ cache \subseteq Dst /\ SocketsShared

\* The event loop.
EventsInv ==
    /\ removed \subseteq Index /\ polling \in BOOLEAN /\ ev \subseteq Index \cup {Listener}
    /\ batch \in [Index \cup {Listener} -> SUBSET {"r", "w"}]

\* What every step keeps, together with IInv.
UInv == ConnsInv /\ EventsInv /\ InName(out) /\ garbled = FALSE

\* Most steps send no datagram.
LEMMA NothingSent == InName(<<>>)
<1>1. <<>> \in Seq(Src \X Dst \X Dst) /\ Len(<<>>) = 0
  BY EmptySeq
<1> QED BY <1>1 DEF InName

\* The datagrams of a read are the source's.
LEMMA SentInName ==
    ASSUME NEW s \in Src, NEW q \in Seq(Dst \X Dst), \A k \in 1 .. Len(q) : q[k][1] = q[k][2]
    PROVE  InName([k \in 1 .. Len(q) |-> <<s>> \o q[k]])
<1> DEFINE n == Len(q)
           o == [k \in 1 .. n |-> <<s>> \o q[k]]
<1>1. n \in Nat
  BY LenProperties
<1>2. ASSUME NEW k \in 1 .. n
      PROVE  o[k] \in Src \X Dst \X Dst /\ o[k][2] = o[k][3]
  <2>1. q[k] \in Dst \X Dst /\ q[k][1] = q[k][2]
    BY ElementOfSeq
  <2>2. PICK a \in Dst, b \in Dst : q[k] = <<a, b>>
    BY <2>1
  <2>3. <<s>> \o <<a, b>> = <<s, a, b>>
    <3> DEFINE S == {s, a, b}
               u == <<s>>
               v == <<a, b>>
               w == <<s, a, b>>
    <3>1. u \in Seq(S) /\ v \in Seq(S) /\ w \in Seq(S)
      OBVIOUS
    <3>2. Len(u) = 1 /\ Len(v) = 2 /\ Len(w) = 3 /\ u[1] = s /\ v[1] = a /\ v[2] = b
          /\ w[1] = s /\ w[2] = a /\ w[3] = b
      OBVIOUS
    <3> HIDE DEF u, v, w, S
    <3>3. u \o v \in Seq(S) /\ Len(u \o v) = 3
          /\ (u \o v)[1] = s /\ (u \o v)[2] = a /\ (u \o v)[3] = b
      <4>1. u \o v \in Seq(S) /\ Len(u \o v) = Len(u) + Len(v)
            /\ \A j \in 1 .. Len(u) + Len(v) : (u \o v)[j] = IF j <= Len(u) THEN u[j] ELSE v[j - Len(u)]
        BY <3>1, ConcatProperties
      <4>2. \A j \in 1 .. 3 : (u \o v)[j] = IF j <= 1 THEN u[j] ELSE v[j - 1]
        BY <3>2, <4>1
      <4>3. (u \o v)[1] = u[1] /\ (u \o v)[2] = v[2 - 1] /\ (u \o v)[3] = v[3 - 1]
        <5>1. 1 \in 1 .. 3 /\ 1 <= 1 /\ 2 \in 1 .. 3 /\ ~(2 <= 1) /\ 3 \in 1 .. 3 /\ ~(3 <= 1)
          OBVIOUS
        <5> DEFINE z == u \o v
        <5> HIDE DEF z
        <5>2. \A j \in 1 .. 3 : z[j] = IF j <= 1 THEN u[j] ELSE v[j - 1]
          BY <4>2 DEF z
        <5>3. z[1] = u[1]
          BY <5>1, <5>2
        <5>4. z[2] = v[2 - 1]
          BY <5>1, <5>2
        <5>5. z[3] = v[3 - 1]
          BY <5>1, <5>2
        <5> QED BY <5>3, <5>4, <5>5 DEF z
      <4>4. 2 - 1 = 1 /\ 3 - 1 = 2
        OBVIOUS
      <4> QED BY <3>2, <4>1, <4>3, <4>4
    <3>4. \A j \in 1 .. 3 : j = 1 \/ j = 2 \/ j = 3
      OBVIOUS
    <3>5. \A j \in 1 .. Len(u \o v) : (u \o v)[j] = w[j]
      BY <3>2, <3>3, <3>4
    <3>6. u \o v = w
      BY <3>1, <3>2, <3>3, <3>5, SeqEqual
    <3> QED BY <3>6 DEF u, v, w
  <2>4. o[k] = <<s, a, b>>
    BY <2>2, <2>3
  <2>5. a = b
    BY <2>1, <2>2
  <2> HIDE DEF o
  <2> QED BY <2>4, <2>5
<1> HIDE DEF n
<1>3. Len(o) = n /\ o \in Seq(Src \X Dst \X Dst)
  <2>1. DOMAIN o = 1 .. n
    OBVIOUS
  <2>2. o \in [1 .. n -> Src \X Dst \X Dst]
    BY <1>2
  <2> HIDE DEF o
  <2>3. o \in Seq(Src \X Dst \X Dst)
    BY <1>1, <2>2, SeqDef
  <2> QED BY <1>1, <2>1, <2>3, LenProperties
<1> HIDE DEF o
<1>4. InName(o)
  BY <1>2, <1>3 DEF InName
<1> QED BY <1>4 DEF o, n

\* One connection changes; the sockets of the others stay in the cache.
LEMMA OneChanged ==
    ASSUME ConnsInv, NEW i \in Index, NEW r, Typed(r), Whole(r), c' = [c EXCEPT ![i] = r],
           table' \subseteq Index, table' \subseteq table \cup {i}, cache \subseteq cache', cache' \subseteq Dst,
           i \in table' => r.dst \in cache'
    PROVE  ConnsInv'
<1>1. c'[i] = r /\ \A j \in Index \ {i} : c'[j] = c[j]
  BY DEF ConnsInv
<1>2. c' = [j \in Index |-> c'[j]]
  BY DEF ConnsInv
<1>3. \A j \in Index : Typed(c'[j]) /\ Whole(c'[j])
  BY <1>1 DEF ConnsInv
<1>4. \A j \in table' : c'[j].dst \in cache'
  BY <1>1 DEF ConnsInv, SocketsShared
<1>5. \A j \in Index : Typed(c[j])' /\ Whole(c[j])'
  BY <1>3 DEF Typed, Whole
<1> QED BY <1>2, <1>4, <1>5 DEF ConnsInv, SocketsShared

\* The same for what leaves the socket and the received data alone.
LEMMA OneKept ==
    ASSUME ConnsInv, NEW i \in Index, NEW r, Kept(c[i], r), c' = [c EXCEPT ![i] = r],
           table \subseteq Index, UNCHANGED <<table, cache>>
    PROVE  ConnsInv'
<1>1. Typed(r) /\ Whole(r) /\ r.dst = c[i].dst
  BY KeptWhole DEF Kept, ConnsInv
<1>2. i \in table => r.dst \in cache
  BY <1>1 DEF ConnsInv, SocketsShared
<1>3. cache \subseteq Dst /\ table' = table /\ cache' = cache
  BY DEF ConnsInv
<1> QED BY <1>1, <1>2, <1>3, OneChanged

\* What the environment does to a connection keeps the invariant.
LEMMA OutsideNamed ==
    ASSUME UInv, NEW i \in Index, NEW r, Typed(r), Whole(r), r.dst = c[i].dst, Outside(i, r),
           table \subseteq Index
    PROVE  UInv'
<1>1. i \in table => r.dst \in cache
  BY DEF UInv, ConnsInv, SocketsShared
<1>2. ConnsInv'
  <2>1. c' = [c EXCEPT ![i] = r] /\ table' = table /\ cache' = cache /\ cache \subseteq Dst /\ ConnsInv
    BY DEF Outside, UInv, ConnsInv
  <2> QED BY <1>1, <2>1, OneChanged
<1>3. EventsInv'
  BY DEF Outside, UInv, EventsInv, Registered
<1>4. garbled' = FALSE /\ InName(out)'
  BY NothingSent DEF Outside, UInv, InName
<1> QED BY <1>2, <1>3, <1>4 DEF UInv

\* The server continues the sequence of halves.
LEMMA AppendInFrames ==
    ASSUME NEW q \in Seq(Half), NEW h \in Half, InFrames(q),
           IF q # <<>> /\ q[Len(q)][2] = 1 THEN h = <<q[Len(q)][1], 2>> ELSE h[2] # 2
    PROVE  InFrames(Append(q, h))
<1> DEFINE p == Append(q, h)
           n == Len(q)
<1>1. n \in Nat /\ (q = <<>> <=> n = 0) /\ p \in Seq(Half) /\ Len(p) = n + 1 /\ p[n + 1] = h
      /\ \A k \in 1 .. n : p[k] = q[k]
  BY AppendProperties, LenProperties, EmptySeq
<1>2. n # 0 /\ q[n][2] = 1 => h = <<q[n][1], 2>>
  BY <1>1
<1>3. ~(n # 0 /\ q[n][2] = 1) => h[2] # 2
  BY <1>1
<1>4. n # 0 => q[1][2] # 2
  BY <1>1 DEF InFrames
<1>5. \A k \in 1 .. n - 1 : IF q[k][2] = 1 THEN q[k + 1] = <<q[k][1], 2>> ELSE q[k + 1][2] # 2
  BY DEF InFrames
<1> HIDE DEF p, n
<1>6. p[1][2] # 2
  <2>1. CASE n = 0
    <3>1. n + 1 = 1
      BY <2>1
    <3> QED BY <1>1, <1>3, <2>1, <3>1
  <2>2. CASE n # 0
    <3>1. 1 \in 1 .. n
      BY <1>1, <2>2
    <3> QED BY <1>1, <1>4, <2>2, <3>1
  <2> QED BY <2>1, <2>2
<1>7. ASSUME NEW k \in 1 .. Len(p) - 1
      PROVE  IF p[k][2] = 1 THEN p[k + 1] = <<p[k][1], 2>> ELSE p[k + 1][2] # 2
  <2>1. k \in 1 .. n /\ (k \in 1 .. n - 1 \/ k = n)
    BY <1>1
  <2>2. CASE k \in 1 .. n - 1
    <3>1. k + 1 \in 1 .. n
      BY <1>1, <2>2
    <3> QED BY <1>1, <1>5, <2>1, <2>2, <3>1
  <2>3. CASE k = n
    <3>1. n # 0 /\ p[k] = q[n] /\ p[k + 1] = h
      BY <1>1, <2>1, <2>3
    <3> QED BY <1>2, <1>3, <3>1
  <2> QED BY <2>1, <2>2, <2>3
<1>8. InFrames(p)
  BY <1>6, <1>7 DEF InFrames
<1> QED BY <1>8 DEF p

\* New data goes to the end of what do_send_client will see.
LEMMA ReceivedAppend ==
    ASSUME NEW a \in Seq(Half), NEW b \in Seq(Half), NEW h \in Half
    PROVE  a \o Append(b, h) = Append(a \o b, h)
<1> DEFINE e == <<h>>
<1>1. e \in Seq(Half)
  OBVIOUS
<1>2. a \o b \in Seq(Half)
  BY ConcatProperties
<1>3. Append(b, h) = b \o e /\ Append(a \o b, h) = (a \o b) \o e
  BY <1>2, AppendIsConcat
<1> HIDE DEF e
<1>4. (a \o b) \o e = a \o (b \o e)
  BY SMTT(30), <1>1, ConcatAssociative
<1> QED BY <1>3, <1>4

\* A connection starts with nothing received.
LEMMA NewConnTyped ==
    ASSUME NEW s \in Src \cup {None}, NEW d \in Dst \cup {None}, NEW h
    PROVE  Typed(NewConn(s, d, h)) /\ Whole(NewConn(s, d, h)) /\ NewConn(s, d, h).dst = d
<1> DEFINE r == NewConn(s, d, h)
<1>1. <<>> \in Seq(Half) /\ Len(<<>>) = 0 /\ <<>> \o <<>> = <<>>
  BY EmptySeq, ConcatEmptySeq
<1>2. r \in ConnState
  BY <1>1 DEF NewConn, ConnState, Status
<1>3. r.sout = 0 /\ r.plain + r.session = 1 /\ r.dst = d /\ r.sendBuffer = <<>> /\ r.sin = <<>>
  BY DEF NewConn
<1> HIDE DEF r
<1>4. Typed(r)
  BY <1>2, <1>3, ConstAssumption DEF Typed
<1>5. r.sendBuffer \o r.sin = <<>>
  BY <1>1, <1>3
<1>6. Whole(r)
  BY <1>1, <1>5 DEF Whole, InFrames
<1> QED BY <1>3, <1>4, <1>6 DEF r

\* And so does the record of an index that is free.
LEMMA BlankTyped == Typed(Blank) /\ Whole(Blank)
<1> DEFINE r == NewConn(None, None, "warm")
           t == [r EXCEPT !.session = 0]
<1>1. Typed(r) /\ Whole(r)
  BY NewConnTyped
<1>2. r.plain = 0
  BY DEF NewConn
<1> HIDE DEF r
<1>3. Typed(t) /\ t.sendBuffer = r.sendBuffer /\ t.sin = r.sin
  <2>1. r.plain + 0 <= SessLimit
    BY <1>2, ConstAssumption
  <2>2. r \in ConnState /\ r.sout <= SockCap
    BY <1>1 DEF Typed
  <2>3. t \in ConnState /\ t.sout = r.sout /\ t.plain = r.plain /\ t.session = 0
        /\ t.sendBuffer = r.sendBuffer /\ t.sin = r.sin
    BY <2>2 DEF ConnState
  <2> HIDE DEF t
  <2> QED BY <2>1, <2>2, <2>3 DEF Typed
<1>4. Whole(t)
  BY <1>1, <1>3 DEF Whole
<1> HIDE DEF t
<1> QED BY <1>3, <1>4 DEF Blank, t, r

\* The flags of an event.
LEMMA FlagsType == ASSUME NEW x PROVE Flags(x) \in SUBSET {"r", "w"}
BY DEF Flags

\* Taking a packet off the queue ends the listener's event at most.
LEMMA NextPacketBatch ==
    ASSUME EventsInv, NextPacket
    PROVE  batch' \in [Index \cup {Listener} -> SUBSET {"r", "w"}]
BY DEF EventsInv, NextPacket

\* Every step keeps the invariant of the datagrams, given that of the two maps.
LEMMA UdpInductive == UInv /\ IInv /\ IInv' /\ [Next]_vars => UInv'
<1> SUFFICES ASSUME UInv, IInv, IInv', [Next]_vars PROVE UInv'
  OBVIOUS
<1> USE ConstAssumption
<1>a. ConnsInv /\ EventsInv /\ InName(out) /\ garbled = FALSE
  BY DEF UInv
<1>b. /\ table \subseteq Index /\ table' \subseteq Index /\ cache \subseteq Dst
      /\ \A i \in Index : Typed(c[i]) /\ Whole(c[i])
      /\ c = [i \in Index |-> c[i]] /\ \A i \in table : c[i].dst \in cache
  BY <1>a DEF ConnsInv, IInv, SocketsShared
<1>q. out' = <<>> => InName(out)'
  BY NothingSent DEF InName
<1>s. UNCHANGED <<c, table, cache>> => ConnsInv'
  BY <1>a DEF ConnsInv, SocketsShared, Typed, Whole
<1>t. ASSUME NEW i \in Index, ServerConnect(i) \/ ServerHello(i) \/ ServerSend(i) \/ ServerClose(i)
      PROVE  UInv'
  <2> DEFINE r == c[i]
  <2>1. Typed(r) /\ Whole(r)
    BY <1>b
  <2>2. ASSUME NEW w, Kept(r, w), Outside(i, w) PROVE UInv'
    <3>1. Typed(w) /\ Whole(w) /\ w.dst = c[i].dst
      BY <2>1, <2>2, KeptWhole DEF Kept
    <3> QED BY <1>b, <2>2, <3>1, OutsideNamed
  <2>3. CASE ServerConnect(i)
    <3>1. Kept(r, [r EXCEPT !.scon = "up"]) /\ Kept(r, [r EXCEPT !.send = "rst"])
      BY <2>1 DEF Kept, Typed, ConnState
    <3> QED BY <2>2, <2>3, <3>1 DEF ServerConnect
  <2>4. CASE ServerHello(i)
    <3>1. Kept(r, [r EXCEPT !.hin = TRUE])
      BY <2>1 DEF Kept, Typed, ConnState
    <3> QED BY <2>2, <2>4, <3>1 DEF ServerHello
  <2>5. CASE ServerSend(i)
    <3> DEFINE q == InFlight(r)
    <3>1. PICK h \in Half :
            /\ IF q # <<>> /\ q[Len(q)][2] = 1 THEN h = <<q[Len(q)][1], 2>> ELSE h[2] # 2
            /\ Outside(i, [r EXCEPT !.sin = Append(@, h)])
      BY <2>5 DEF ServerSend
    <3> DEFINE e == Append(r.sin, h)
               w == [r EXCEPT !.sin = e]
    <3>2. r.sendBuffer \in Seq(Half) /\ r.sin \in Seq(Half)
      BY <2>1, TypedFields
    <3> HIDE DEF r
    <3>3. q \in Seq(Half) /\ InFrames(q) /\ r.sendBuffer \o e = Append(q, h) /\ e \in Seq(Half)
      <4>1. q \in Seq(Half) /\ InFrames(q)
        BY <2>1, <3>2, ConcatProperties DEF InFlight, Whole
      <4>2. r.sendBuffer \o e = Append(q, h)
        BY <3>2, ReceivedAppend DEF InFlight
      <4>3. e \in Seq(Half)
        BY <3>2, AppendProperties
      <4> QED BY <4>1, <4>2, <4>3
    <3>4. InFrames(Append(q, h))
      <4> HIDE DEF q
      <4> QED BY <3>1, <3>3, AppendInFrames
    <3> HIDE DEF e
    <3>5. Typed(w) /\ w.sendBuffer = r.sendBuffer /\ w.sin = e /\ w.dst = r.dst
      BY <2>1, <3>3 DEF Typed, ConnState
    <3>6. Whole(w)
      BY <3>3, <3>4, <3>5 DEF Whole
    <3>7. Outside(i, w)
      BY <3>1 DEF e
    <3> HIDE DEF w
    <3> QED BY <1>b, <3>5, <3>6, <3>7, OutsideNamed DEF r
  <2>6. CASE ServerClose(i)
    <3>1. \A how \in {"fin", "rst"} : Kept(r, [r EXCEPT !.send = how])
      BY <2>1 DEF Kept, Typed, ConnState
    <3> QED BY <2>2, <2>6, <3>1 DEF ServerClose
  <2> QED BY <1>t, <2>3, <2>4, <2>5, <2>6
<1>1. CASE Fetch
  <2>1. ASSUME NEW i \in Index PROVE Kept(c[i], c'[i])
    <3> DEFINE b == c[i].sblk \/ (i \in ev /\ c[i].sout = SockCap)
    <3>1. c'[i] = [c[i] EXCEPT !.sblk = b]
      BY <1>1 DEF Fetch
    <3>2. b \in BOOLEAN /\ Typed(c[i])
      BY <1>b, TypedFields
    <3> HIDE DEF b
    <3> QED BY <3>1, <3>2 DEF Kept, Typed, ConnState
  <2>2. \A i \in Index : Typed(c'[i]) /\ Whole(c'[i]) /\ c'[i].dst = c[i].dst
    BY <1>b, <2>1, KeptWhole DEF Kept
  <2>3. \A i \in Index : Typed(c[i])' /\ Whole(c[i])'
    BY <2>2 DEF Typed, Whole
  <2>4. ConnsInv'
    <3>1. c' = [i \in Index |-> c'[i]] /\ table' = table /\ cache' = cache
      BY <1>1 DEF Fetch
    <3>2. \A i \in table' : c'[i].dst \in cache'
      BY <1>b, <2>2, <3>1
    <3> QED BY <1>b, <2>3, <3>1, <3>2 DEF ConnsInv, SocketsShared
  <2>5. EventsInv'
    <3>1. \A x : (IF x \in ev THEN Flags(x) ELSE {}) \in SUBSET {"r", "w"}
      BY FlagsType
    <3> QED BY <1>1, <1>a, <3>1 DEF Fetch, EventsInv
  <2> QED BY <1>1, <1>a, <1>q, <2>4, <2>5 DEF Fetch, UInv
<1>2. CASE AcceptKnown
  <2> DEFINE s == Head(inq)[1]
             i == srcMap[s]
             r == SendRequest(c[i])
  <2>1. s \in Src /\ i \in table /\ i \in Index
    BY <1>2, NextPacketType DEF AcceptKnown, IInv
  <2>2. Kept(c[i], r)
    BY <1>b, <2>1, SendRequestKeeps
  <2>3. c' = [c EXCEPT ![i] = r] /\ UNCHANGED <<table, cache, polling, garbled>> /\ out' = <<>>
        /\ removed' \subseteq removed \cup {i} /\ ev' \subseteq ev /\ NextPacket
    BY <1>2 DEF AcceptKnown, Update
  <2> HIDE DEF r, i, s
  <2>4. ConnsInv'
    BY <1>a, <1>b, <2>1, <2>2, <2>3, OneKept
  <2>5. EventsInv'
    BY <1>a, <2>1, <2>3, NextPacketBatch DEF EventsInv
  <2> QED BY <1>a, <1>q, <2>3, <2>4, <2>5 DEF UInv
<1>3. CASE AcceptNew
  <2> DEFINE s == Head(inq)[1]
             d == Head(inq)[2]
  <2>1. s \in Src /\ d \in Dst
    <3>1. inq \in Seq(Src \X Dst) /\ inq # <<>>
      BY <1>3 DEF AcceptNew, Accepting, IInv
    <3> QED BY <3>1
  <2>2. PICK i \in Index \ table, h \in Handover :
          /\ Insert(i, s) /\ cache' = cache \cup {d} /\ Update(i, SendRequest(NewConn(s, d, h)))
          /\ ev' = (IF h = "cold" \/ c'[i].server = "Deregistered" THEN ev ELSE ev \cup {i})
          /\ NextPacket /\ out' = <<>> /\ UNCHANGED <<polling, garbled>>
    BY <1>3 DEF AcceptNew
  <2> DEFINE n == NewConn(s, d, h)
             r == SendRequest(n)
  <2> HIDE DEF s, d
  <2>3. Typed(n) /\ Whole(n) /\ n.dst = d
    BY <2>1, NewConnTyped
  <2> HIDE DEF n
  <2>4. Kept(n, r)
    BY <2>3, SendRequestKeeps
  <2>5. Typed(r) /\ Whole(r) /\ r.dst = d
    BY <2>3, <2>4, KeptWhole DEF Kept
  <2>6. c' = [c EXCEPT ![i] = r] /\ table' = table \cup {i} /\ removed' \subseteq removed \cup {i}
    BY <2>2 DEF Update, Insert, n
  <2> HIDE DEF r
  <2>7. ConnsInv'
    BY <1>a, <1>b, <2>1, <2>2, <2>5, <2>6, OneChanged
  <2>8. EventsInv'
    BY <1>a, <2>2, <2>6, NextPacketBatch DEF EventsInv
  <2> QED BY <1>a, <1>q, <2>2, <2>7, <2>8 DEF UInv
<1>4. CASE AcceptFails
  <2>1. NextPacket /\ out' = <<>> /\ UNCHANGED <<table, c, removed, cache, ev, polling, garbled>>
    BY <1>4 DEF AcceptFails
  <2>2. EventsInv'
    BY <1>a, <2>1, NextPacketBatch DEF EventsInv
  <2> QED BY <1>a, <1>q, <1>s, <2>1, <2>2 DEF UInv
<1>5. CASE HandleConn
  <2>1. PICK i \in table, ok \in BOOLEAN :
        LET x == Deliver(c[i].dst, Received(c[i]), ok)
            read == "r" \in batch[i]
        IN /\ Update(i, Ready(c[i], batch[i], x))
           /\ cache' = IF read THEN x.cache ELSE cache
           /\ out' = IF read THEN [k \in 1 .. Len(x.sent) |-> <<c[i].src>> \o x.sent[k]] ELSE <<>>
           /\ garbled' = (garbled \/ (read /\ Received(c[i]) # <<>> /\ Received(c[i])[1][2] = 2))
           /\ ev' = IF c'[i].server = "Deregistered" THEN ev \ {i} ELSE ev
           /\ batch' = [batch EXCEPT ![i] = {}]
           /\ UNCHANGED <<table, srcMap, inq, polling>>
    BY <1>5 DEF HandleConn
  <2> DEFINE b == Received(c[i])
             x == Deliver(c[i].dst, b, ok)
             read == "r" \in batch[i]
             r == Ready(c[i], batch[i], x)
  <2>2. i \in Index /\ Typed(c[i]) /\ Whole(c[i]) /\ c[i].dst \in cache
    BY <1>b
  <2>3. b \in Seq(Half) /\ InFrames(b)
    <3>1. c[i].sendBuffer \in Seq(Half) /\ c[i].sin \in Seq(Half)
      BY <2>2, TypedFields
    <3> QED BY <2>2, <3>1, ConcatProperties DEF Received, Whole
  <2>4. Named(x)
    <3> HIDE DEF b
    <3> QED BY <1>b, <2>2, <2>3, DeliverNamed
  <2>5. c[i].src \in Src
    BY DEF IInv, Owned
  <2>6. /\ c' = [c EXCEPT ![i] = r] /\ removed' \subseteq removed \cup {i}
        /\ cache' = (IF read THEN x.cache ELSE cache)
        /\ out' = (IF read THEN [k \in 1 .. Len(x.sent) |-> <<c[i].src>> \o x.sent[k]] ELSE <<>>)
        /\ garbled' = (garbled \/ (read /\ b # <<>> /\ b[1][2] = 2))
        /\ ev' \subseteq ev /\ batch' = [batch EXCEPT ![i] = {}]
        /\ UNCHANGED <<table, polling>>
    BY <2>1 DEF Update
  <2> HIDE DEF b, x
  <2>7. x.dst \in x.cache /\ cache \subseteq x.cache /\ x.cache \subseteq Dst
        /\ x.sent \in Seq(Dst \X Dst) /\ \A k \in 1 .. Len(x.sent) : x.sent[k][1] = x.sent[k][2]
    BY <2>4 DEF Named
  <2>8. Typed(r) /\ Whole(r) /\ r.dst = (IF read THEN x.dst ELSE c[i].dst)
    BY <2>2, <2>7, ReadyTyped
  <2> HIDE DEF r
  <2>9. ConnsInv'
    <3>1. cache \subseteq cache' /\ cache' \subseteq Dst /\ r.dst \in cache'
      BY <1>b, <2>2, <2>6, <2>7, <2>8
    <3>2. table' = table
      BY <2>6
    <3> QED BY <1>a, <1>b, <2>2, <2>6, <2>8, <3>1, <3>2, OneChanged
  <2>10. EventsInv'
    BY <1>a, <2>2, <2>6 DEF EventsInv
  <2>11. InName(out)'
    <3>1. read => InName(out')
      BY <2>5, <2>6, <2>7, SentInName
    <3>2. ~read => InName(out')
      BY <2>6, NothingSent
    <3> QED BY <3>1, <3>2 DEF InName
  <2>12. garbled' = FALSE
    BY <1>a, <2>3, <2>6 DEF InFrames
  <2> QED BY SMTT(30), <2>9, <2>10, <2>11, <2>12 DEF UInv
<1>6. CASE RemoveClosed
  <2>1. /\ table' \subseteq table /\ removed' = {} /\ ev' \subseteq ev /\ polling' = TRUE /\ out' = <<>>
        /\ c' = [i \in Index |-> IF i \in removed THEN Blank ELSE c[i]]
        /\ UNCHANGED <<cache, batch, garbled>>
    BY <1>6 DEF RemoveClosed, Forget
  <2>2. \A i \in table' : i \in table /\ i \notin removed
    BY <1>6 DEF RemoveClosed, Forget
  <2>3. \A i \in Index : Typed(c'[i]) /\ Whole(c'[i])
    BY <1>b, <2>1, BlankTyped
  <2>4. \A i \in Index : Typed(c[i])' /\ Whole(c[i])'
    BY <2>3 DEF Typed, Whole
  <2>5. \A i \in table' : c'[i].dst \in cache'
    BY <1>b, <2>1, <2>2
  <2>6. ConnsInv'
    BY <1>b, <2>1, <2>4, <2>5 DEF ConnsInv, SocketsShared
  <2>7. EventsInv'
    BY <1>a, <2>1 DEF EventsInv
  <2> QED BY <1>a, <1>q, <2>1, <2>6, <2>7 DEF UInv
<1>7. CASE CheckTimeout
  <2>1. cache' = cache \ Unused /\ out' = <<>> /\ UNCHANGED <<table, c, removed, ev, batch, polling, garbled>>
    BY <1>7 DEF CheckTimeout
  <2>2. \A i \in table : c[i].dst \in cache \ Unused
    BY <1>b DEF Unused
  <2>3. ConnsInv'
    BY <1>a, <2>1, <2>2 DEF ConnsInv, SocketsShared, Typed, Whole
  <2>4. EventsInv'
    BY <1>a, <2>1 DEF EventsInv
  <2> QED BY <1>a, <1>q, <2>1, <2>3, <2>4 DEF UInv
<1>8. ASSUME NEW s \in Src, ClientSend(s) PROVE UInv'
  <2>1. ev' = ev \cup {Listener} /\ out' = <<>> /\ UNCHANGED <<table, c, removed, cache, batch, polling, garbled>>
    BY <1>8 DEF ClientSend
  <2>2. EventsInv'
    BY <1>a, <2>1 DEF EventsInv
  <2> QED BY <1>a, <1>q, <1>s, <2>1, <2>2 DEF UInv
<1>9. ASSUME NEW i \in Index, Quiet(i) PROVE UInv'
  <2> DEFINE r == [c[i] EXCEPT !.idle = TRUE]
  <2>1. c' = [c EXCEPT ![i] = r] /\ out' = <<>> /\ UNCHANGED <<table, removed, cache, ev, batch, polling, garbled>>
    BY <1>9, <1>b DEF Quiet
  <2>2. Kept(c[i], r)
    <3>1. Typed(c[i])
      BY <1>b
    <3> QED BY <3>1 DEF Kept, Typed, ConnState
  <2> HIDE DEF r
  <2>3. ConnsInv'
    BY <1>a, <1>b, <2>1, <2>2, OneKept
  <2>4. EventsInv'
    BY <1>a, <2>1 DEF EventsInv
  <2> QED BY <1>a, <1>q, <2>1, <2>3, <2>4 DEF UInv
<1>14. ASSUME NEW i \in Index, ServerRecv(i) PROVE UInv'
  <2> DEFINE n == c[i].sout - 1
             r == [c[i] EXCEPT !.sout = n, !.sblk = FALSE]
             t == [c[i] EXCEPT !.sout = n]
  <2>1. n \in Nat /\ n <= SockCap
    BY <1>14, <1>b, TypedFields DEF ServerRecv
  <2> HIDE DEF n
  <2>2. Kept(c[i], r) /\ Kept(c[i], t)
    <3>1. Typed(c[i])
      BY <1>b
    <3>2. Kept(c[i], r)
      BY <2>1, <3>1 DEF Kept, Typed, ConnState
    <3>3. Kept(c[i], t)
      BY <2>1, <3>1 DEF Kept, Typed, ConnState
    <3> QED BY <3>2, <3>3
  <2>3. CASE c[i].sblk
    <3>1. Outside(i, r)
      BY <1>14, <2>3 DEF ServerRecv, n
    <3> HIDE DEF r
    <3>2. Typed(r) /\ Whole(r) /\ r.dst = c[i].dst
      BY <1>b, <2>2, KeptWhole DEF Kept
    <3> QED BY <1>b, <3>1, <3>2, OutsideNamed
  <2>4. CASE ~c[i].sblk
    <3>1. c' = [c EXCEPT ![i] = t] /\ out' = <<>> /\ UNCHANGED <<table, removed, cache, ev, batch, polling, garbled>>
      BY <1>14, <1>b, <2>4 DEF ServerRecv, n
    <3> HIDE DEF t
    <3>2. ConnsInv'
      BY <1>a, <1>b, <2>2, <3>1, OneKept
    <3>3. EventsInv'
      BY <1>a, <3>1 DEF EventsInv
    <3> QED BY <1>a, <1>q, <3>1, <3>2, <3>3 DEF UInv
  <2> QED BY <2>3, <2>4
<1>15. CASE UNCHANGED vars
  <2>1. UNCHANGED <<c, table, cache, removed, ev, batch, polling, garbled, out>>
    BY <1>15 DEF vars
  <2>2. EventsInv' /\ InName(out)'
    BY <1>a, <2>1 DEF EventsInv, InName
  <2> QED BY <1>a, <1>s, <2>1, <2>2 DEF UInv
<1> QED
  BY <1>1, <1>2, <1>3, <1>4, <1>5, <1>6, <1>7, <1>8, <1>9, <1>t, <1>14, <1>15 DEF Next, Loop

\* No connection, no datagram and no event at the start.
LEMMA UdpInitially == MCInit => UInv /\ IInv
<1> SUFFICES ASSUME Init PROVE UInv /\ IInv
  BY DEF MCInit
<1>1. IInv
  BY ConstAssumption DEF Init, IInv
<1>2. ConnsInv
  BY BlankTyped DEF Init, ConnsInv, SocketsShared
<1>3. EventsInv
  BY DEF Init, EventsInv
<1> QED BY <1>1, <1>2, <1>3, NothingSent DEF Init, UInv

\* In every reachable state of the proxy, for any sets of sources, targets and
\* indexes and any bounds, what do_send_udp sends goes out of the socket bound to the
\* address in the frame, do_send_client never meets a frame from its middle, and
\* UdpSvrCache keeps every socket that a connection answers through.
THEOREM UdpAnswersInName == MCSpec => []UdpInName
<1>1. MCInit => UInv /\ IInv
  BY UdpInitially
<1>2. UInv /\ IInv /\ [MCNext]_all => (UInv /\ IInv)'
  <2>1. [MCNext]_all => [Next]_vars
    BY DEF MCNext, TcpTurn, PoolTurn, UdpTurn, all, vars
  <2> QED BY <2>1, UdpInductive, Inductive
<1>3. UInv /\ IInv => UdpInName
  <2> SUFFICES ASSUME UInv, IInv PROVE UdpInName
    OBVIOUS
  <2>1. \A i \in Index : c[i] \in ConnState /\ c[i].sout <= SockCap /\ c[i].plain + c[i].session <= SessLimit
    BY DEF UInv, ConnsInv, Typed
  <2>2. c \in [Index -> ConnState]
    BY <2>1 DEF UInv, ConnsInv
  <2>3. TypeOK
    <3>1. /\ removed \subseteq Index /\ cache \subseteq Dst /\ polling \in BOOLEAN
          /\ ev \subseteq Index \cup {Listener} /\ batch \in [Index \cup {Listener} -> SUBSET {"r", "w"}]
      BY DEF UInv, ConnsInv, EventsInv
    <3>2. table \subseteq Index /\ srcMap \in [Src -> Index \cup {None}] /\ inq \in Seq(Src \X Dst)
      BY DEF IInv
    <3>3. garbled = FALSE
      BY DEF UInv
    <3>4. out \in Seq(Src \X Dst \X Dst)
      BY DEF UInv, InName
    <3> QED BY <2>1, <2>2, <3>1, <3>2, <3>3, <3>4 DEF TypeOK
  <2> QED BY <2>3 DEF UInv, ConnsInv, InName, UdpInName, AnsweredInName
<1> QED BY <1>1, <1>2, <1>3, PTL DEF MCSpec

-----------------------------------------------------------------------------
(* A TCP connection *)

\* The part of T!TypeOK that is about the connection.
Fit(s) == s \in T!ConnState /\ Len(s.cout) <= SockCap /\ Len(s.sout) <= SockCap

\* What the client sent and the proxy has read, in the order it goes to the server.
UpLine(s) == serverGot \o s.sout \o s.session \o s.plain

\* What the server sent and the proxy has read, with h in hand.
DownLine(s, h) == clientGot \o s.cout \o s.sendBuffer \o h

\* Plaintext is kept back before the handshake is done, records exist after it.
Stage(s) == IF s.tls = "done" THEN s.plain = T!Empty ELSE s.session = T!Empty

\* The line and the rest r are all the client has sent; r is what its socket holds,
\* unless the session was full.
UpOK(s) ==
    \E r \in Seq(Nat) :
        /\ UpLine(s) \o r = T!UpStream
        /\ r = s.cin \/ (s.broken /\ T!IsShutdown(s.server))

\* When units of the server may be dropped: the records do not decrypt, or the
\* client is closed and was not closed by the end of the server's stream.
Excused(s) ==
    \/ s.send = "bad"
    \/ T!IsShutdown(s.client) /\ (s.cend # "open" \/ s.broken \/ timedOut)

DownOK(s, h) ==
    \E r \in Seq(Nat) : DownLine(s, h) \o r = T!DownStream /\ (r = s.sin \/ Excused(s))

\* How the two endpoints are closed while neither an overflow nor a timeout cuts them.
EndsOK(s) ==
    /\ s.client = "PeerClosed" => T!IsShutdown(s.server)
    /\ s.server = "PeerClosed" => T!IsShutdown(s.client)
    /\ (~s.broken /\ ~timedOut) =>
         /\ (s.cend = "open" /\ T!IsShutdown(s.client)) => T!IsShutdown(s.server) /\ s.sendBuffer = T!Empty
         /\ (s.send = "open" /\ T!IsShutdown(s.server))
              => T!IsShutdown(s.client) /\ (s.tls = "done" => s.session = T!Empty)
         /\ (s.send = "fin" /\ s.cend = "open" /\ T!IsShutdown(s.server)) => s.sin = T!Empty
         /\ (s.cend = "fin" /\ s.send = "open" /\ T!IsShutdown(s.client)) => s.cin = T!Empty

\* The numbers of units sent and what the peers got have their types.
TcpPeersOK ==
    /\ upSent \in 0 .. MaxUp /\ downSent \in 0 .. MaxDown
    /\ clientGot \in Seq(Nat) /\ serverGot \in Seq(Nat)

\* What every method keeps true of the connection, with h in hand.
Faithful(s, h) == Fit(s) /\ Stage(s) /\ UpOK(s) /\ DownOK(s, h) /\ EndsOK(s)

-----------------------------------------------------------------------------
(* Sequences *)

LEMMA TEmpty == T!Empty = <<>> /\ T!Empty \in Seq(Nat) /\ Len(T!Empty) = 0
  BY DEF T!Empty

LEMMA Joined ==
    ASSUME NEW p \in Seq(Nat), NEW q \in Seq(Nat)
    PROVE  /\ p \o q \in Seq(Nat) /\ Len(p \o q) = Len(p) + Len(q)
           /\ Len(p) \in Nat /\ Len(q) \in Nat
           /\ p \o T!Empty = p /\ T!Empty \o p = p
  BY ConcatProperties, ConcatEmptySeq, LenProperties, TEmpty

LEMMA Joins ==
    ASSUME NEW p \in Seq(Nat), NEW q \in Seq(Nat), NEW r \in Seq(Nat)
    PROVE  (p \o q) \o r = p \o (q \o r)
  BY SMTT(60), ConcatAssociative

LEMMA Split ==
    ASSUME NEW q \in Seq(Nat), NEW n \in 0 .. Len(q)
    PROVE  /\ T!Take(q, n) \in Seq(Nat) /\ T!Drop(q, n) \in Seq(Nat)
           /\ Len(T!Take(q, n)) = n /\ Len(T!Drop(q, n)) = Len(q) - n
           /\ T!Take(q, n) \o T!Drop(q, n) = q
  <1> DEFINE t == T!Take(q, n)
             d == T!Drop(q, n)
             m == Len(q)
  <1>0. m \in Nat BY LenProperties
  <1>1. \A i \in 1 .. m : q[i] \in Nat BY ElementOfSeq
  <1>2. t \in Seq(Nat) /\ Len(t) = n /\ \A i \in 1 .. n : t[i] = q[i]
    <2>1. \A i \in 1 .. n : q[i] \in Nat BY <1>0, <1>1
    <2>2. /\ SubSeq(q, 1, n) \in Seq(Nat)
          /\ Len(SubSeq(q, 1, n)) = IF 1 <= n THEN n - 1 + 1 ELSE 0
          /\ \A i \in 1 .. n - 1 + 1 : SubSeq(q, 1, n)[i] = q[1 + i - 1]
      BY <1>0, <2>1, SubSeqProperties
    <2>3. n - 1 + 1 = n /\ (~(1 <= n) => n = 0) BY <1>0
    <2>4. \A i \in 1 .. n : 1 + i - 1 = i BY <1>0
    <2> QED BY <2>2, <2>3, <2>4 DEF T!Take
  <1>3. d \in Seq(Nat) /\ Len(d) = m - n /\ \A i \in 1 .. m - n : d[i] = q[n + i]
    <2>1. \A i \in n + 1 .. m : q[i] \in Nat BY <1>0, <1>1
    <2>2. /\ SubSeq(q, n + 1, m) \in Seq(Nat)
          /\ Len(SubSeq(q, n + 1, m)) = IF n + 1 <= m THEN m - (n + 1) + 1 ELSE 0
          /\ \A i \in 1 .. m - (n + 1) + 1 : SubSeq(q, n + 1, m)[i] = q[n + 1 + i - 1]
      BY <1>0, <2>1, SubSeqProperties
    <2>3. m - (n + 1) + 1 = m - n /\ (~(n + 1 <= m) => m - n = 0) BY <1>0
    <2>4. \A i \in 1 .. m - n : n + 1 + i - 1 = n + i BY <1>0
    <2> QED BY Zenon, <2>2, <2>3, <2>4 DEF T!Drop
  <1>a. t \in Seq(Nat) /\ d \in Seq(Nat) /\ Len(t) = n /\ Len(d) = Len(q) - n BY <1>2, <1>3
  <1> HIDE DEF t, d
  <1>4. /\ t \o d \in Seq(Nat) /\ Len(t \o d) = n + (m - n)
        /\ \A i \in 1 .. n + (m - n) : (t \o d)[i] = IF i <= n THEN t[i] ELSE d[i - n]
    BY SMTT(60), <1>2, <1>3, ConcatProperties
  <1>5. n + (m - n) = m BY <1>0
  <1>6. \A i \in 1 .. m : (t \o d)[i] = q[i]
    <2> SUFFICES ASSUME NEW i \in 1 .. m PROVE (t \o d)[i] = q[i] OBVIOUS
    <2>1. CASE i <= n
      <3>1. i \in 1 .. n BY <1>0, <2>1
      <3> QED BY <1>2, <1>4, <1>5, <2>1, <3>1
    <2>2. CASE ~(i <= n)
      <3>1. i - n \in 1 .. m - n /\ n + (i - n) = i BY <1>0, <2>2
      <3> QED BY <1>3, <1>4, <1>5, <2>2, <3>1
    <2> QED BY <2>1, <2>2
  <1>7. t \o d = q BY <1>4, <1>5, <1>6, SeqEqual
  <1> QED BY <1>a, <1>7 DEF t, d

\* A write moves the front of a queue into the buffer before it.
LEMMA Written ==
    ASSUME NEW g \in Seq(Nat), NEW b \in Seq(Nat), NEW q \in Seq(Nat), NEW n \in 0 .. Len(q)
    PROVE  (g \o (b \o T!Take(q, n))) \o T!Drop(q, n) = (g \o b) \o q
  <1> DEFINE t == T!Take(q, n)
             d == T!Drop(q, n)
  <1>1. t \in Seq(Nat) /\ d \in Seq(Nat) /\ t \o d = q BY Split
  <1> HIDE DEF t, d
  <1>2. g \o b \in Seq(Nat) BY Joined
  <1>3. (g \o b) \o t = g \o (b \o t) BY <1>1, Joins, SMTT(60)
  <1>4. ((g \o b) \o t) \o d = (g \o b) \o (t \o d) BY <1>1, <1>2, Joins, ZenonT(30)
  <1>5. (g \o (b \o t)) \o d = (g \o b) \o q BY <1>1, <1>3, <1>4
  <1> QED BY <1>5 DEF t, d

\* The front of a sequence is a prefix of it.
LEMMA FrontIsPrefix ==
    ASSUME NEW p \in Seq(Nat), NEW r \in Seq(Nat), NEW q, p \o r = q
    PROVE  T!IsPrefixOf(p, q)
  <1>1. /\ q \in Seq(Nat) /\ Len(q) = Len(p) + Len(r) /\ Len(p) \in Nat /\ Len(r) \in Nat
        /\ \A i \in 1 .. Len(p) + Len(r) : q[i] = IF i <= Len(p) THEN p[i] ELSE r[i - Len(p)]
    BY ConcatProperties, LenProperties
  <1> DEFINE n == Len(p)
             m == Len(r)
  <1>2. n \in 0 .. Len(q) BY <1>1
  <1>3. T!Take(q, n) = p
    <2>1. \A i \in 1 .. n : q[i] = p[i] /\ q[i] \in Nat
      <3> SUFFICES ASSUME NEW i \in 1 .. n PROVE q[i] = p[i] /\ q[i] \in Nat OBVIOUS
      <3>1. i \in 1 .. n + m /\ i <= n BY <1>1
      <3>2. p[i] \in Nat BY ElementOfSeq
      <3> QED BY <1>1, <3>1, <3>2
    <2>2. /\ SubSeq(q, 1, n) \in Seq(Nat)
          /\ Len(SubSeq(q, 1, n)) = IF 1 <= n THEN n - 1 + 1 ELSE 0
          /\ \A i \in 1 .. n - 1 + 1 : SubSeq(q, 1, n)[i] = q[1 + i - 1]
      BY <1>1, <2>1, SubSeqProperties
    <2>3. n - 1 + 1 = n /\ (~(1 <= n) => n = 0) BY <1>1
    <2>4. \A i \in 1 .. n : 1 + i - 1 = i BY <1>1
    <2>5. Len(SubSeq(q, 1, n)) = n /\ \A i \in 1 .. n : SubSeq(q, 1, n)[i] = p[i] BY <2>1, <2>2, <2>3, <2>4
    <2>6. SubSeq(q, 1, n) = p BY <2>2, <2>5, SeqEqual
    <2> QED BY <2>6 DEF T!Take
  <1> QED BY <1>1, <1>2, <1>3 DEF T!IsPrefixOf

\* The streams are sequences, and a peer that sends makes its own longer by one.
LEMMA StreamsType ==
    ASSUME TcpPeersOK
    PROVE  /\ T!UpStream \in Seq(Nat) /\ T!DownStream \in Seq(Nat)
           /\ Len(T!UpStream) = upSent + 1 /\ Len(T!DownStream) = downSent
           /\ \A i \in 1 .. upSent + 1 : T!UpStream[i] = i - 1
           /\ \A i \in 1 .. downSent : T!DownStream[i] = i
           /\ upSent \in Nat /\ downSent \in Nat
  <1>1. upSent \in Nat /\ downSent \in Nat BY BoundsAssumption DEF TcpPeersOK
  <1>2. \A n \in Nat : \A f \in [1 .. n -> Nat] : f \in Seq(Nat) /\ Len(f) = n
    BY IsASeq
  <1>3. T!UpStream \in [1 .. upSent + 1 -> Nat] BY <1>1 DEF T!UpStream
  <1>4. T!DownStream \in [1 .. downSent -> Nat] BY <1>1 DEF T!DownStream
  <1>5. upSent + 1 \in Nat BY <1>1
  <1> QED BY <1>1, <1>2, <1>3, <1>4, <1>5 DEF T!UpStream, T!DownStream

-----------------------------------------------------------------------------
(* The methods *)

LEMMA TFields ==
    ASSUME NEW s, Fit(s)
    PROVE  /\ s.client \in T!Status /\ s.server \in T!Status /\ s.tls \in {"start", "sent", "done"}
           /\ s.plain \in Seq(Nat) /\ s.session \in Seq(Nat) /\ s.sendBuffer \in Seq(Nat)
           /\ s.cin \in Seq(Nat) /\ s.cout \in Seq(Nat) /\ s.sin \in Seq(Nat) /\ s.sout \in Seq(Nat)
           /\ s.cend \in {"open", "fin", "rst"} /\ s.send \in {"open", "fin", "rst", "bad"}
           /\ s.broken \in BOOLEAN /\ s.hin \in BOOLEAN
           /\ Len(s.cout) <= SockCap /\ Len(s.sout) <= SockCap
  BY DEF Fit, T!ConnState

LEMMA TStatus ==
    ASSUME NEW st \in T!Status
    PROVE  /\ T!Shutdown(st) \in T!Status /\ T!IsShutdown(T!Shutdown(st)) /\ T!Shutdown(st) # "PeerClosed"
           /\ T!Established(st) \in T!Status
           /\ T!IsShutdown(T!Established(st)) <=> T!IsShutdown(st)
           /\ (T!Established(st) = "PeerClosed") <=> (st = "PeerClosed")
           /\ T!PeerClosed(st) \in T!Status
           /\ T!Alive(st) => ~T!IsShutdown(st)
           /\ \A b \in BOOLEAN : T!CheckStatus(st, b) \in T!Status
  BY DEF T!Status, T!Shutdown, T!IsShutdown, T!Established, T!PeerClosed, T!Alive, T!CheckStatus

LEMMA UpKept ==
    ASSUME NEW s, NEW t, UpOK(s), UpLine(t) = UpLine(s), t.cin = s.cin, s.broken => t.broken,
           T!IsShutdown(s.server) => T!IsShutdown(t.server)
    PROVE  UpOK(t)
  BY DEF UpOK

LEMMA DownKept ==
    ASSUME NEW s, NEW t, NEW h, NEW g, DownOK(s, h), DownLine(t, g) = DownLine(s, h), t.sin = s.sin,
           Excused(s) => Excused(t)
    PROVE  DownOK(t, g)
  BY DEF DownOK

\* A step that only touches the flags and lets no status pass to or from closed.
LEMMA FlagsKept ==
    ASSUME NEW s, NEW t, NEW h, Faithful(s, h), t \in T!ConnState,
           t.tls = s.tls, t.plain = s.plain, t.session = s.session, t.sendBuffer = s.sendBuffer,
           t.cin = s.cin, t.cout = s.cout, t.sin = s.sin, t.sout = s.sout,
           t.cend = s.cend, t.send = s.send, t.broken = s.broken,
           T!IsShutdown(t.client) <=> T!IsShutdown(s.client),
           T!IsShutdown(t.server) <=> T!IsShutdown(s.server),
           (t.client = "PeerClosed") <=> (s.client = "PeerClosed"),
           (t.server = "PeerClosed") <=> (s.server = "PeerClosed")
    PROVE  Faithful(t, h)
  <1>1. Fit(t) /\ Stage(t) BY DEF Faithful, Fit, Stage
  <1>2. UpLine(t) = UpLine(s) /\ DownLine(t, h) = DownLine(s, h) BY DEF UpLine, DownLine
  <1>3. UpOK(t) BY <1>2, UpKept DEF Faithful
  <1>4. Excused(t) <=> Excused(s) BY DEF Excused
  <1>5. DownOK(t, h) BY <1>2, <1>4, DownKept DEF Faithful
  <1>6. EndsOK(t) BY Zenon DEF Faithful, EndsOK
  <1> QED BY <1>1, <1>3, <1>5, <1>6 DEF Faithful

LEMMA SmallerType ==
    ASSUME NEW a \in Nat, NEW b \in Nat
    PROVE  T!Smaller(a, b) \in 0 .. a /\ T!Smaller(a, b) <= b
  BY DEF T!Smaller

LEMMA TcpDoSend ==
    ASSUME NEW s, NEW h, Faithful(s, h), TcpPeersOK
    PROVE  Faithful(T!DoSend(s), h)
  <1> DEFINE t == T!DoSend(s)
             n == T!Smaller(Len(s.session), SockCap - Len(s.sout))
  <1>f. Fit(s) /\ Stage(s) /\ UpOK(s) /\ DownOK(s, h) /\ EndsOK(s) /\ s \in T!ConnState
    BY DEF Faithful, Fit
  <1>0. /\ Len(s.session) \in Nat /\ Len(s.sout) \in Nat /\ SockCap - Len(s.sout) \in Nat /\ SockCap \in Nat
    BY <1>f, TFields, LenProperties, ConstAssumption
  <1>n. n \in 0 .. Len(s.session) /\ n <= SockCap - Len(s.sout) BY <1>0, SmallerType
  <1>1. CASE s.server = "Connecting"
    BY <1>1 DEF T!DoSend
  <1>2. CASE s.server # "Connecting" /\ ~T!WantsWrite(s)
    <2>1. t = [s EXCEPT !.writable = TRUE] BY <1>2 DEF T!DoSend
    <2>2. /\ t \in T!ConnState /\ t.server = s.server /\ t.client = s.client
          /\ t.tls = s.tls /\ t.plain = s.plain /\ t.session = s.session /\ t.sendBuffer = s.sendBuffer
          /\ t.cin = s.cin /\ t.cout = s.cout /\ t.sin = s.sin /\ t.sout = s.sout
          /\ t.cend = s.cend /\ t.send = s.send /\ t.broken = s.broken
      BY ZenonT(60), <1>f, <2>1 DEF T!ConnState
    <2> HIDE DEF t
    <2>3. Faithful(t, h) BY <2>2, FlagsKept
    <2> QED BY <2>3 DEF t
  <1>3. CASE s.server # "Connecting" /\ T!WantsWrite(s) /\ (T!IsShutdown(s.server) \/ s.send = "rst")
    <2> DEFINE v == T!Shutdown(s.server)
    <2>v. v \in T!Status /\ T!IsShutdown(v) /\ v # "PeerClosed" BY <1>f, TFields, TStatus
    <2>1. t = [s EXCEPT !.writable = TRUE, !.server = v] BY <1>3 DEF T!DoSend
    <2> HIDE DEF v
    <2>2. /\ t \in T!ConnState /\ t.server = v /\ t.client = s.client
          /\ t.tls = s.tls /\ t.plain = s.plain /\ t.session = s.session /\ t.sendBuffer = s.sendBuffer
          /\ t.cin = s.cin /\ t.cout = s.cout /\ t.sin = s.sin /\ t.sout = s.sout
          /\ t.cend = s.cend /\ t.send = s.send /\ t.broken = s.broken
      BY ZenonT(60), <1>f, <2>1, <2>v DEF T!ConnState
    <2> HIDE DEF t
    <2>3. Fit(t) /\ Stage(t) BY <1>f, <2>2 DEF Fit, Stage
    <2>4. UpLine(t) = UpLine(s) /\ DownLine(t, h) = DownLine(s, h) BY <2>2 DEF UpLine, DownLine
    <2>5. UpOK(t) BY <1>f, <2>2, <2>4, <2>v, UpKept
    <2>6. DownOK(t, h) BY <1>f, <2>2, <2>4, DownKept DEF Excused
    <2>7. EndsOK(t)
      <3>1. T!IsShutdown(t.server) /\ t.server # "PeerClosed" BY <2>2, <2>v
      <3>2. T!IsShutdown(s.server) \/ (s.send # "open" /\ s.send # "fin") BY <1>3
      <3> QED BY <1>f, <2>2, <3>1, <3>2, Zenon DEF EndsOK
    <2> QED BY <2>3, <2>5, <2>6, <2>7 DEF Faithful, t
  <1>4. CASE s.server # "Connecting" /\ T!WantsWrite(s) /\ ~(T!IsShutdown(s.server) \/ s.send = "rst")
    <2> DEFINE a == T!Take(s.session, n)
               d == T!Drop(s.session, n)
               o == s.sout \o a
               w == (n = Len(s.session))
               k == s.sblk \/ n < Len(s.session)
               l == IF s.tls = "start" THEN "sent" ELSE s.tls
    <2>a. a \in Seq(Nat) /\ d \in Seq(Nat) /\ Len(a) = n BY <1>f, <1>n, TFields, Split
    <2>1. t = [s EXCEPT !.tls = l, !.sout = o, !.session = d, !.writable = w, !.sblk = k]
      BY <1>4 DEF T!DoSend
    <2>o. o \in Seq(Nat) /\ Len(o) = Len(s.sout) + n
      <3> HIDE DEF a, n
      <3> QED BY <1>f, <2>a, TFields, Joined
    <2>c. Len(o) <= SockCap
      <3> HIDE DEF n, o
      <3> QED BY <1>0, <1>n, <2>o
    <2>l. l \in {"start", "sent", "done"} /\ ((l = "done") <=> (s.tls = "done")) /\ w \in BOOLEAN
      BY <1>f, TFields
    <2>k. k \in BOOLEAN BY <1>f DEF T!ConnState
    <2>u. (serverGot \o o) \o d = (serverGot \o s.sout) \o s.session
      <3>1. s.session \in Seq(Nat) /\ s.sout \in Seq(Nat) /\ serverGot \in Seq(Nat)
        BY <1>f, TFields DEF TcpPeersOK
      <3> HIDE DEF n
      <3>2. (serverGot \o (s.sout \o T!Take(s.session, n))) \o T!Drop(s.session, n)
               = (serverGot \o s.sout) \o s.session
        BY ZenonT(60), <1>n, <3>1, Written
      <3> QED BY <3>2
    <2>e. s.session = T!Empty => d = T!Empty
      <3> SUFFICES ASSUME s.session = T!Empty PROVE d = T!Empty OBVIOUS
      <3>1. Len(s.session) = 0 BY TEmpty
      <3>2. n = 0 BY <1>n, <3>1
      <3>3. Len(d) = Len(s.session) - n BY <1>f, <1>n, TFields, Split
      <3>4. Len(d) = 0 BY <3>1, <3>2, <3>3
      <3> QED BY <2>a, <3>4, EmptySeq, TEmpty
    <2> HIDE DEF n, a, d, o, w, k, l
    <2>2. /\ t \in T!ConnState /\ t.server = s.server /\ t.client = s.client
          /\ t.tls = l /\ t.plain = s.plain /\ t.session = d /\ t.sendBuffer = s.sendBuffer
          /\ t.cin = s.cin /\ t.cout = s.cout /\ t.sin = s.sin /\ t.sout = o
          /\ t.cend = s.cend /\ t.send = s.send /\ t.broken = s.broken
      <3> HIDE DEF t
      <3>1. s \in T!ConnState BY <1>f
      <3>2. /\ t.server = s.server /\ t.client = s.client
            /\ t.tls = l /\ t.plain = s.plain /\ t.session = d /\ t.sendBuffer = s.sendBuffer
        BY <2>1, <3>1 DEF T!ConnState
      <3>3. /\ t.cin = s.cin /\ t.cout = s.cout /\ t.sin = s.sin /\ t.sout = o
            /\ t.cend = s.cend /\ t.send = s.send /\ t.broken = s.broken
        BY <2>1, <3>1 DEF T!ConnState
      <3>4. t \in T!ConnState
        BY ZenonT(60), <2>1, <2>a, <2>o, <2>l, <2>k, <3>1 DEF T!ConnState
      <3> QED BY <3>2, <3>3, <3>4
    <2> HIDE DEF t
    <2>3. Fit(t) BY <1>f, <2>2, <2>c DEF Fit
    <2>s. Stage(t) BY <1>f, <2>2, <2>l, <2>e DEF Stage
    <2>4. UpLine(t) = UpLine(s) /\ DownLine(t, h) = DownLine(s, h) BY <2>2, <2>u DEF UpLine, DownLine
    <2>5. UpOK(t) BY <1>f, <2>2, <2>4, UpKept
    <2>6. DownOK(t, h) BY <1>f, <2>2, <2>4, DownKept DEF Excused
    <2>7. EndsOK(t) BY <1>f, <1>4, <2>2, Zenon DEF EndsOK
    <2> QED BY <2>3, <2>s, <2>5, <2>6, <2>7 DEF Faithful, t
  <1> QED BY <1>1, <1>2, <1>3, <1>4

LEMMA TcpDoRead ==
    ASSUME NEW s, Faithful(s, T!Empty), TcpPeersOK, T!Alive(s.client)
    PROVE  Faithful(T!DoRead(s), T!ReadBuffer(s))
  <1> DEFINE t == T!DoRead(s)
             h == T!ReadBuffer(s)
             done == s.hin /\ s.send # "bad"
             l == IF done THEN "done" ELSE s.tls
             x == IF done THEN s.session \o s.plain ELSE s.session
             p == IF done THEN T!Empty ELSE s.plain
             v == IF s.send # "open" THEN T!Shutdown(s.server) ELSE s.server
  <1>f. Fit(s) /\ Stage(s) /\ UpOK(s) /\ DownOK(s, T!Empty) /\ EndsOK(s) /\ s \in T!ConnState
    BY DEF Faithful, Fit
  <1>t. /\ s.plain \in Seq(Nat) /\ s.session \in Seq(Nat) /\ s.sendBuffer \in Seq(Nat) /\ s.sin \in Seq(Nat)
        /\ s.cout \in Seq(Nat) /\ s.sout \in Seq(Nat) /\ clientGot \in Seq(Nat) /\ serverGot \in Seq(Nat)
        /\ s.tls \in {"start", "sent", "done"} /\ s.server \in T!Status /\ s.client \in T!Status
    BY <1>f, TFields DEF TcpPeersOK
  <1>c. ~T!IsShutdown(s.client) BY <1>t, TStatus
  <1>v. /\ v \in T!Status /\ (T!IsShutdown(s.server) => T!IsShutdown(v))
        /\ v = "PeerClosed" => s.server = "PeerClosed"
        /\ T!IsShutdown(v) => T!IsShutdown(s.server) \/ s.send # "open"
    BY <1>t, TStatus
  <1>l. l \in {"start", "sent", "done"} BY <1>t
  <1>x. x \in Seq(Nat) /\ p \in Seq(Nat) BY <1>t, Joined, TEmpty
  <1>p. IF l = "done" THEN p = T!Empty ELSE x = T!Empty BY <1>f DEF Stage
  <1>g. ((serverGot \o s.sout) \o x) \o p = ((serverGot \o s.sout) \o s.session) \o s.plain
    <2>1. CASE done
      <3> DEFINE g == serverGot \o s.sout
                 y == s.session \o s.plain
      <3>1. g \in Seq(Nat) /\ y \in Seq(Nat) BY <1>t, Joined
      <3>0. s.session \in Seq(Nat) /\ s.plain \in Seq(Nat) BY <1>t
      <3> HIDE DEF g
      <3>2. (g \o s.session) \o s.plain = g \o (s.session \o s.plain) BY ZenonT(60), <3>0, <3>1, Joins
      <3> HIDE DEF y
      <3>3. g \o y \in Seq(Nat) BY <3>1, Joined
      <3>4. (g \o y) \o T!Empty = g \o y BY <3>3, Joined
      <3>5. x = y /\ p = T!Empty BY <2>1 DEF y
      <3> QED BY <3>2, <3>4, <3>5 DEF g
    <2>2. CASE ~done
      BY <2>2
    <2> QED BY <2>1, <2>2
  <1>1. t = [s EXCEPT !.sin = T!Empty, !.hin = FALSE, !.tls = l, !.session = x, !.plain = p, !.server = v]
    BY DEF T!DoRead
  <1>h. IF s.send = "bad" THEN h = T!Empty ELSE h = s.sin
    BY DEF T!ReadBuffer
  <1> HIDE DEF l, x, p, v, h
  <1>2. /\ t \in T!ConnState /\ t.server = v /\ t.client = s.client
        /\ t.tls = l /\ t.plain = p /\ t.session = x /\ t.sendBuffer = s.sendBuffer
        /\ t.cin = s.cin /\ t.cout = s.cout /\ t.sin = T!Empty /\ t.sout = s.sout
        /\ t.cend = s.cend /\ t.send = s.send /\ t.broken = s.broken
    <2>1. s \in T!ConnState /\ v \in T!Status /\ T!Empty \in Seq(Nat) BY <1>f, <1>v, TEmpty
    <2> HIDE DEF t
    <2>2. /\ t.server = v /\ t.client = s.client
          /\ t.tls = l /\ t.plain = p /\ t.session = x /\ t.sendBuffer = s.sendBuffer
      BY <1>1, <2>1 DEF T!ConnState
    <2>3. /\ t.cin = s.cin /\ t.cout = s.cout /\ t.sin = T!Empty /\ t.sout = s.sout
          /\ t.cend = s.cend /\ t.send = s.send /\ t.broken = s.broken
      BY <1>1, <2>1 DEF T!ConnState
    <2>4. t \in T!ConnState
      BY <1>1, <1>l, <1>x, <2>1 DEF T!ConnState
    <2> QED BY <2>2, <2>3, <2>4
  <1> HIDE DEF t
  <1>3. Fit(t) BY <1>f, <1>2 DEF Fit
  <1>s. Stage(t) BY <1>2, <1>p DEF Stage
  <1>4. UpLine(t) = UpLine(s) BY <1>2, <1>g DEF UpLine
  <1>5. UpOK(t) BY <1>f, <1>2, <1>4, <1>v, UpKept
  <1>6. DownOK(t, h)
    <2> DEFINE y == (clientGot \o s.cout) \o s.sendBuffer
    <2>y. y \in Seq(Nat) BY <1>t, Joined
    <2>1. DownLine(s, T!Empty) = y \o T!Empty /\ DownLine(t, h) = y \o h BY <1>2 DEF DownLine
    <2> HIDE DEF y
    <2>2. PICK r \in Seq(Nat) : DownLine(s, T!Empty) \o r = T!DownStream /\ (r = s.sin \/ Excused(s))
      BY <1>f DEF DownOK
    <2>3. y \o r = T!DownStream BY <2>1, <2>2, <2>y, Joined
    <2>4. CASE s.send = "bad"
      <3>1. DownLine(t, h) \o r = T!DownStream BY <1>h, <2>1, <2>2, <2>4
      <3>2. Excused(t) BY <1>2, <2>4 DEF Excused
      <3> QED BY <3>1, <3>2 DEF DownOK
    <2>5. CASE s.send # "bad"
      <3>1. r = s.sin BY <1>c, <2>2, <2>5 DEF Excused
      <3>2. DownLine(t, h) = T!DownStream BY <1>h, <2>1, <2>3, <2>5, <3>1
      <3>3. y \o s.sin \in Seq(Nat) BY <1>t, <2>y, Joined
      <3>4. DownLine(t, h) \o T!Empty = T!DownStream BY <2>3, <3>1, <3>2, <3>3, Joined
      <3> QED BY <1>2, <3>4, TEmpty DEF DownOK
    <2> QED BY <2>4, <2>5
  <1>7. EndsOK(t) BY <1>f, <1>c, <1>v, <1>2, Zenon DEF EndsOK
  <1> QED BY <1>3, <1>s, <1>5, <1>6, <1>7 DEF Faithful, t, h

LEMMA TcpDoSendClient ==
    ASSUME NEW s, NEW h \in Seq(Nat), Faithful(s, h), TcpPeersOK, h = T!Empty \/ T!Alive(s.client)
    PROVE  Faithful(T!DoSendClient(s, h), T!Empty)
  <1> DEFINE t == T!DoSendClient(s, h)
             q == s.sendBuffer \o h
             n == T!Smaller(Len(q), SockCap - Len(s.cout))
             g == clientGot \o s.cout
  <1>f. Fit(s) /\ Stage(s) /\ UpOK(s) /\ DownOK(s, h) /\ EndsOK(s) /\ s \in T!ConnState
    BY DEF Faithful, Fit
  <1>t. /\ s.sendBuffer \in Seq(Nat) /\ s.sin \in Seq(Nat) /\ s.cout \in Seq(Nat) /\ clientGot \in Seq(Nat)
        /\ s.server \in T!Status /\ s.client \in T!Status
    BY <1>f, TFields DEF TcpPeersOK
  <1>q. q \in Seq(Nat) /\ Len(q) \in Nat /\ Len(q) = Len(s.sendBuffer) + Len(h)
        /\ Len(h) \in Nat /\ Len(s.sendBuffer) \in Nat
    BY <1>t, Joined, LenProperties
  <1>g. g \in Seq(Nat) BY <1>t, Joined
  <1>a. DownLine(s, h) = g \o q
    <2> HIDE DEF g
    <2>1. (g \o s.sendBuffer) \o h = g \o (s.sendBuffer \o h) BY <1>t, <1>g, Joins
    <2> QED BY <2>1 DEF DownLine, g
  <1>1. CASE s.client = "Connecting"
    <2>1. t = [s EXCEPT !.sendBuffer = q] BY <1>1 DEF T!DoSendClient
    <2> HIDE DEF q
    <2>2. /\ t \in T!ConnState /\ t.server = s.server /\ t.client = s.client
          /\ t.tls = s.tls /\ t.plain = s.plain /\ t.session = s.session /\ t.sendBuffer = q
          /\ t.cin = s.cin /\ t.cout = s.cout /\ t.sin = s.sin /\ t.sout = s.sout
          /\ t.cend = s.cend /\ t.send = s.send /\ t.broken = s.broken
      BY ZenonT(60), <1>f, <1>q, <2>1 DEF T!ConnState
    <2> HIDE DEF t
    <2>3. Fit(t) /\ Stage(t) BY <1>f, <2>2 DEF Fit, Stage
    <2>4. UpLine(t) = UpLine(s) BY <2>2 DEF UpLine
    <2>5. UpOK(t) BY <1>f, <2>2, <2>4, UpKept
    <2>6. DownLine(t, T!Empty) = DownLine(s, h)
      <3>1. g \o q \in Seq(Nat) BY <1>g, <1>q, Joined
      <3>2. (g \o q) \o T!Empty = g \o q BY <3>1, Joined
      <3> QED BY <1>a, <2>2, <3>2 DEF DownLine
    <2>7. DownOK(t, T!Empty) BY <1>f, <2>2, <2>6, DownKept DEF Excused
    <2>8. ~T!IsShutdown(s.client) BY <1>1 DEF T!IsShutdown
    <2>9. EndsOK(t) BY <1>f, <2>2, <2>8, Zenon DEF EndsOK
    <2> QED BY <2>3, <2>5, <2>7, <2>9 DEF Faithful, t
  <1>2. CASE s.client # "Connecting" /\ q = T!Empty
    <2>1. t = s BY <1>2 DEF T!DoSendClient
    <2>2. Len(h) = 0
      <3>1. Len(q) = 0 BY <1>2, TEmpty
      <3> DEFINE x == Len(q)
                 y == Len(h)
                 z == Len(s.sendBuffer)
      <3>2. x = 0 /\ x = z + y /\ y \in Nat /\ z \in Nat BY <1>q, <3>1
      <3> HIDE DEF x, y, z
      <3>3. y = 0 BY <3>2
      <3> QED BY <3>3 DEF y
    <2>3. h = T!Empty BY <2>2, EmptySeq, TEmpty
    <2> QED BY <2>1, <2>3
  <1>3. CASE s.client # "Connecting" /\ q # T!Empty /\ (s.cend = "rst" \/ T!IsShutdown(s.client))
    <2> DEFINE v == T!Shutdown(s.client)
    <2>v. v \in T!Status /\ T!IsShutdown(v) /\ v # "PeerClosed" BY <1>t, TStatus
    <2>1. t = [s EXCEPT !.sendBuffer = T!Empty, !.client = v] BY <1>3 DEF T!DoSendClient
    <2> HIDE DEF v
    <2>2. /\ t \in T!ConnState /\ t.server = s.server /\ t.client = v
          /\ t.tls = s.tls /\ t.plain = s.plain /\ t.session = s.session /\ t.sendBuffer = T!Empty
          /\ t.cin = s.cin /\ t.cout = s.cout /\ t.sin = s.sin /\ t.sout = s.sout
          /\ t.cend = s.cend /\ t.send = s.send /\ t.broken = s.broken
      BY ZenonT(60), <1>f, <2>1, <2>v, TEmpty DEF T!ConnState
    <2>k. s.cend # "rst" => T!IsShutdown(s.client) /\ (s.cend # "open" \/ s.broken \/ timedOut)
      <3> SUFFICES ASSUME s.cend # "rst"
                   PROVE  T!IsShutdown(s.client) /\ (s.cend # "open" \/ s.broken \/ timedOut)
        OBVIOUS
      <3>1. T!IsShutdown(s.client) BY <1>3
      <3>2. h = T!Empty BY <1>t, <3>1, TStatus
      <3>3. q = s.sendBuffer BY <1>t, <3>2, Joined
      <3>4. s.sendBuffer # T!Empty BY <1>3, <3>3
      <3> QED BY <1>f, <3>1, <3>4 DEF EndsOK
    <2> HIDE DEF t, q, g
    <2>3. Fit(t) /\ Stage(t) BY <1>f, <2>2 DEF Fit, Stage
    <2>4. UpLine(t) = UpLine(s) BY <2>2 DEF UpLine
    <2>5. UpOK(t) BY <1>f, <2>2, <2>4, UpKept
    <2>6. PICK r \in Seq(Nat) : DownLine(s, h) \o r = T!DownStream
      BY <1>f DEF DownOK
    <2>7. g \o (q \o r) = T!DownStream /\ q \o r \in Seq(Nat)
      <3>1. (g \o q) \o r = g \o (q \o r) BY <1>g, <1>q, Joins
      <3>2. q \o r \in Seq(Nat) BY <1>q, Joined
      <3> QED BY <1>a, <2>6, <3>1, <3>2
    <2>8. DownLine(t, T!Empty) = g
      <3>1. DownLine(t, T!Empty) = (g \o T!Empty) \o T!Empty BY <2>2 DEF DownLine, g
      <3> QED BY <1>g, <3>1, Joined
    <2>9. Excused(t) BY <2>2, <2>v, <2>k DEF Excused
    <2>10. DownOK(t, T!Empty) BY <2>7, <2>8, <2>9 DEF DownOK
    <2>11. EndsOK(t)
      <3>1. T!IsShutdown(t.client) /\ t.client # "PeerClosed" BY <2>2, <2>v
      <3>2. (s.cend = "open" \/ s.cend = "fin") => T!IsShutdown(s.client) BY <1>3
      <3> QED BY <1>f, <2>2, <3>1, <3>2, Zenon DEF EndsOK
    <2> QED BY <2>3, <2>5, <2>10, <2>11 DEF Faithful, t
  <1>4. CASE s.client # "Connecting" /\ q # T!Empty /\ ~(s.cend = "rst" \/ T!IsShutdown(s.client))
    <2> DEFINE a == T!Take(q, n)
               d == T!Drop(q, n)
               o == s.cout \o a
               k == s.cblk \/ n < Len(q)
    <2>1. t = [s EXCEPT !.cout = o, !.sendBuffer = d, !.cblk = k] BY <1>4 DEF T!DoSendClient
    <2>k. k \in BOOLEAN BY <1>f DEF T!ConnState
    <2>0. Len(s.cout) \in Nat /\ SockCap - Len(s.cout) \in Nat /\ SockCap \in Nat
      BY <1>f, TFields, LenProperties, ConstAssumption
    <2> HIDE DEF q, g
    <2>n. n \in 0 .. Len(q) /\ n <= SockCap - Len(s.cout) BY <1>q, <2>0, SmallerType
    <2> HIDE DEF n
    <2>a. a \in Seq(Nat) /\ d \in Seq(Nat) /\ Len(a) = n BY <1>q, <2>n, Split
    <2>u. (clientGot \o o) \o d = g \o q
      <3>1. s.cout \in Seq(Nat) /\ clientGot \in Seq(Nat) /\ q \in Seq(Nat) /\ n \in 0 .. Len(q) BY <1>t, <1>q, <2>n
      <3>2. (clientGot \o (s.cout \o T!Take(q, n))) \o T!Drop(q, n) = (clientGot \o s.cout) \o q
        BY <3>1, Written, ZenonT(60)
      <3> QED BY <3>2 DEF g
    <2> HIDE DEF a, d
    <2>o. o \in Seq(Nat) /\ Len(o) = Len(s.cout) + n BY <1>t, <2>a, Joined
    <2> HIDE DEF o, k
    <2>c. Len(o) <= SockCap BY <1>q, <2>0, <2>n, <2>o
    <2>2. /\ t \in T!ConnState /\ t.server = s.server /\ t.client = s.client
          /\ t.tls = s.tls /\ t.plain = s.plain /\ t.session = s.session /\ t.sendBuffer = d
          /\ t.cin = s.cin /\ t.cout = o /\ t.sin = s.sin /\ t.sout = s.sout
          /\ t.cend = s.cend /\ t.send = s.send /\ t.broken = s.broken
      BY ZenonT(60), <1>f, <2>1, <2>a, <2>o, <2>k DEF T!ConnState
    <2> HIDE DEF t
    <2>3. Fit(t) BY <1>f, <2>2, <2>c DEF Fit
    <2>s. Stage(t) BY <1>f, <2>2 DEF Stage
    <2>4. UpLine(t) = UpLine(s) BY <2>2 DEF UpLine
    <2>5. UpOK(t) BY <1>f, <2>2, <2>4, UpKept
    <2>6. DownLine(t, T!Empty) = DownLine(s, h)
      <3>1. g \o q \in Seq(Nat) BY <1>g, <1>q, Joined
      <3>2. (g \o q) \o T!Empty = g \o q BY <3>1, Joined
      <3> QED BY <1>a, <2>2, <2>u, <3>2 DEF DownLine
    <2>7. DownOK(t, T!Empty) BY <1>f, <2>2, <2>6, DownKept DEF Excused
    <2>9. EndsOK(t) BY <1>f, <1>4, <2>2, Zenon DEF EndsOK
    <2> QED BY <2>3, <2>s, <2>5, <2>7, <2>9 DEF Faithful, t
  <1> QED BY <1>1, <1>2, <1>3, <1>4

LEMMA TcpReadLine ==
    ASSUME NEW s, NEW h, Faithful(s, h), TcpPeersOK, NEW a \in Seq(Nat), NEW p, NEW x,
           s.tls = "done" => p = s.plain /\ x = s.session \o a,
           s.tls # "done" => p = s.plain \o a /\ x = s.session
    PROVE  /\ p \in Seq(Nat) /\ x \in Seq(Nat) /\ UpLine(s) \in Seq(Nat)
           /\ IF s.tls = "done" THEN p = T!Empty ELSE x = T!Empty
           /\ ((serverGot \o s.sout) \o x) \o p = UpLine(s) \o a
  <1> DEFINE g == serverGot \o s.sout
  <1>1. s.plain \in Seq(Nat) /\ s.session \in Seq(Nat) /\ s.sout \in Seq(Nat) /\ serverGot \in Seq(Nat)
    BY TFields DEF Faithful, TcpPeersOK
  <1>2. g \in Seq(Nat) BY <1>1, Joined
  <1>3. p \in Seq(Nat) /\ x \in Seq(Nat) BY ZenonT(40), <1>1, Joined
  <1>4. IF s.tls = "done" THEN p = T!Empty ELSE x = T!Empty BY DEF Faithful, Stage
  <1>5. UpLine(s) = (g \o s.session) \o s.plain BY DEF UpLine
  <1> HIDE DEF g
  <1>6. g \o s.session \in Seq(Nat) BY <1>1, <1>2, Joined
  <1>7. UpLine(s) \in Seq(Nat) BY <1>1, <1>5, <1>6, Joined
  <1>8. CASE s.tls = "done"
    <2>1. s.plain = T!Empty /\ p = T!Empty /\ x = s.session \o a BY <1>4, <1>8
    <2>2. UpLine(s) = g \o s.session BY <1>5, <1>6, <2>1, Joined
    <2>3. g \o x \in Seq(Nat) BY <1>2, <1>3, Joined
    <2>4. (g \o x) \o p = g \o x BY <2>1, <2>3, Joined
    <2>5. (g \o s.session) \o a = g \o (s.session \o a) BY <1>1, <1>2, Joins
    <2>6. (g \o x) \o p = UpLine(s) \o a BY <2>1, <2>2, <2>4, <2>5
    <2> QED BY <1>3, <1>4, <1>7, <2>6 DEF g
  <1>9. CASE s.tls # "done"
    <2>1. p = s.plain \o a /\ x = s.session BY <1>9
    <2> DEFINE f == g \o s.session
    <2>2. f \in Seq(Nat) BY <1>6
    <2> HIDE DEF f
    <2>3. (f \o s.plain) \o a = f \o (s.plain \o a) BY <1>1, <2>2, Joins
    <2>4. (g \o x) \o p = UpLine(s) \o a BY <1>5, <2>1, <2>3 DEF f
    <2> QED BY <1>3, <1>4, <1>7, <2>4 DEF g
  <1> QED BY <1>8, <1>9

LEMMA TcpReads ==
    ASSUME NEW s, NEW h, Faithful(s, h), TcpPeersOK, T!Alive(s.server)
    PROVE  Faithful(T!TcpRead(s), h)
  <1> DEFINE t == T!TcpRead(s)
             used == Len(s.plain) + Len(s.session)
             room == IF SessLimit > used THEN SessLimit - used ELSE 0
             m == T!Smaller(Len(s.cin), room)
             a == T!Take(s.cin, m)
             d == T!Drop(s.cin, m)
             p == IF s.tls = "done" THEN s.plain ELSE s.plain \o a
             x == IF s.tls = "done" THEN s.session \o a ELSE s.session
             y == T!Drop(s.cin, room + 1)
             v == T!Shutdown(s.server)
             k == IF s.cend # "open" THEN T!Shutdown(s.client) ELSE s.client
  <1>f. Fit(s) /\ Stage(s) /\ UpOK(s) /\ DownOK(s, h) /\ EndsOK(s) /\ s \in T!ConnState
    BY DEF Faithful, Fit
  <1>t. /\ s.plain \in Seq(Nat) /\ s.session \in Seq(Nat) /\ s.cin \in Seq(Nat)
        /\ s.server \in T!Status /\ s.client \in T!Status
    BY <1>f, TFields
  <1>n. used \in Nat /\ Len(s.cin) \in Nat
    <2> DEFINE i == Len(s.plain)
               j == Len(s.session)
    <2>1. i \in Nat /\ j \in Nat /\ Len(s.cin) \in Nat BY <1>t, LenProperties
    <2> HIDE DEF i, j
    <2>2. i + j \in Nat BY <2>1
    <2> QED BY <2>1, <2>2 DEF i, j
  <1>r. room \in Nat
    <2> HIDE DEF used
    <2> QED BY <1>n, ConstAssumption
  <1>c. ~T!IsShutdown(s.server) BY <1>t, TStatus
  <1>1. t = IF Len(s.cin) > room
            THEN [s EXCEPT !.plain = p, !.session = x, !.cin = y, !.server = v, !.broken = TRUE]
            ELSE [s EXCEPT !.plain = p, !.session = x, !.cin = T!Empty, !.client = k]
    BY <1>f DEF T!TcpRead, T!ConnState
  <1> HIDE DEF room
  <1>m. m \in 0 .. Len(s.cin) BY <1>n, <1>r, SmallerType
  <1>w. ~(Len(s.cin) > room) => m = Len(s.cin) BY <1>n, <1>r DEF T!Smaller
  <1> HIDE DEF m
  <1>a. a \in Seq(Nat) /\ d \in Seq(Nat) /\ a \o d = s.cin /\ Len(d) = Len(s.cin) - m BY <1>t, <1>m, Split
  <1>e. ~(Len(s.cin) > room) => d = T!Empty
    <2> SUFFICES ASSUME ~(Len(s.cin) > room) PROVE d = T!Empty OBVIOUS
    <2>1. m = Len(s.cin) BY <1>w
    <2> HIDE DEF d
    <2>2. Len(d) = 0 BY <1>a, <1>n, <2>1
    <2> QED BY <1>a, <2>2, EmptySeq, TEmpty
  <1>y. Len(s.cin) > room => y \in Seq(Nat)
    <2> SUFFICES ASSUME Len(s.cin) > room PROVE y \in Seq(Nat) OBVIOUS
    <2>1. room + 1 \in 0 .. Len(s.cin) BY <1>n, <1>r
    <2> QED BY <1>t, <2>1, Split
  <1> HIDE DEF a, d, y
  <1>i. s.tls = "done" => p = s.plain /\ x = s.session \o a OBVIOUS
  <1>j. s.tls # "done" => p = s.plain \o a /\ x = s.session OBVIOUS
  <1> HIDE DEF p, x
  <1>p. /\ p \in Seq(Nat) /\ x \in Seq(Nat) /\ UpLine(s) \in Seq(Nat)
        /\ IF s.tls = "done" THEN p = T!Empty ELSE x = T!Empty
        /\ ((serverGot \o s.sout) \o x) \o p = UpLine(s) \o a
    <2>1. a \in Seq(Nat) BY <1>a
    <2> QED BY <1>i, <1>j, <2>1, TcpReadLine, ZenonT(60)
  <1>u. (UpLine(s) \o a) \o d = T!UpStream
    <2>1. PICK r \in Seq(Nat) : UpLine(s) \o r = T!UpStream /\ (r = s.cin \/ (s.broken /\ T!IsShutdown(s.server)))
      BY <1>f DEF UpOK
    <2>2. r = a \o d BY <1>a, <1>c, <2>1
    <2>3. (UpLine(s) \o a) \o d = UpLine(s) \o (a \o d) BY ZenonT(60), <1>a, <1>p, Joins
    <2> QED BY <2>1, <2>2, <2>3
  <1>v. v \in T!Status /\ T!IsShutdown(v) /\ v # "PeerClosed" BY <1>t, TStatus
  <1>k. /\ k \in T!Status /\ (T!IsShutdown(s.client) => T!IsShutdown(k))
        /\ k = "PeerClosed" => s.client = "PeerClosed"
        /\ s.cend = "open" => k = s.client
    BY <1>t, TStatus
  <1> HIDE DEF v, k
  <1>2. CASE Len(s.cin) > room
    <2>1. t = [s EXCEPT !.plain = p, !.session = x, !.cin = y, !.server = v, !.broken = TRUE]
      BY <1>1, <1>2
    <2>2. /\ t \in T!ConnState /\ t.server = v /\ t.client = s.client
          /\ t.tls = s.tls /\ t.plain = p /\ t.session = x /\ t.sendBuffer = s.sendBuffer
          /\ t.cout = s.cout /\ t.sin = s.sin /\ t.sout = s.sout
          /\ t.cend = s.cend /\ t.send = s.send /\ t.broken = TRUE
      <3> HIDE DEF t
      <3>1. y \in Seq(Nat) BY <1>2, <1>y
      <3>2. t \in T!ConnState BY <1>f, <1>p, <1>v, <2>1, <3>1 DEF T!ConnState
      <3> QED BY <1>f, <2>1, <3>2 DEF T!ConnState
    <2> HIDE DEF t
    <2>3. Fit(t) BY <1>f, <2>2 DEF Fit
    <2>4. Stage(t) BY <1>p, <2>2 DEF Stage
    <2>5. UpLine(t) = UpLine(s) \o a BY <1>p, <2>2 DEF UpLine
    <2>6. UpOK(t) BY <1>a, <1>u, <1>v, <2>2, <2>5 DEF UpOK
    <2>7. DownLine(t, h) = DownLine(s, h) BY <2>2 DEF DownLine
    <2>8. DownOK(t, h) BY <1>f, <2>2, <2>7, DownKept DEF Excused
    <2>9. EndsOK(t) BY <1>f, <1>v, <2>2, Zenon DEF EndsOK
    <2> QED BY <2>3, <2>4, <2>6, <2>8, <2>9 DEF Faithful, t
  <1>3. CASE ~(Len(s.cin) > room)
    <2>1. t = [s EXCEPT !.plain = p, !.session = x, !.cin = T!Empty, !.client = k]
      BY <1>1, <1>3
    <2>2. /\ t \in T!ConnState /\ t.server = s.server /\ t.client = k
          /\ t.tls = s.tls /\ t.plain = p /\ t.session = x /\ t.sendBuffer = s.sendBuffer
          /\ t.cin = T!Empty /\ t.cout = s.cout /\ t.sin = s.sin /\ t.sout = s.sout
          /\ t.cend = s.cend /\ t.send = s.send /\ t.broken = s.broken
      <3> HIDE DEF t
      <3>2. t \in T!ConnState BY <1>f, <1>p, <1>k, <2>1, TEmpty DEF T!ConnState
      <3> QED BY <1>f, <2>1, <3>2 DEF T!ConnState
    <2> HIDE DEF t
    <2>3. Fit(t) BY <1>f, <2>2 DEF Fit
    <2>4. Stage(t) BY <1>p, <2>2 DEF Stage
    <2>5. UpLine(t) = UpLine(s) \o a BY <1>p, <2>2 DEF UpLine
    <2>e. d = T!Empty BY <1>e, <1>3
    <2>6. UpOK(t) BY <1>a, <1>u, <2>2, <2>5, <2>e DEF UpOK
    <2>7. DownLine(t, h) = DownLine(s, h) BY <2>2 DEF DownLine
    <2>8. DownOK(t, h) BY <1>f, <1>k, <2>2, <2>7, DownKept DEF Excused
    <2>9. EndsOK(t)
      <3>1. ~T!IsShutdown(t.server) BY <1>c, <2>2
      <3>2. t.server = "PeerClosed" => T!IsShutdown(t.client) BY <1>f, <1>k, <2>2 DEF EndsOK
      <3>3. t.client # "PeerClosed" BY <1>f, <1>k, <1>c, <2>2 DEF EndsOK
      <3>4. (~t.broken /\ ~timedOut) => ~(t.cend = "open" /\ T!IsShutdown(t.client))
        BY <1>f, <1>k, <1>c, <2>2 DEF EndsOK
      <3> QED BY <2>2, <3>1, <3>2, <3>3, <3>4, Zenon DEF EndsOK
    <2> QED BY <2>3, <2>4, <2>6, <2>8, <2>9 DEF Faithful, t
  <1> QED BY <1>2, <1>3

LEMMA TcpSettles ==
    ASSUME NEW s, Faithful(s, T!Empty), TcpPeersOK
    PROVE  Faithful(T!Settle(s), T!Empty)
  <1> DEFINE t == T!Settle(s)
             v == IF T!IsShutdown(s.client) THEN T!PeerClosed(s.server) ELSE s.server
             k == IF T!IsShutdown(v) THEN T!PeerClosed(s.client) ELSE s.client
             e == (s.sendBuffer = T!Empty)
             w == ~T!WantsWrite(s)
             l == T!CheckStatus(k, e)
             z == T!CheckStatus(v, w)
  <1>f. Fit(s) /\ Stage(s) /\ UpOK(s) /\ DownOK(s, T!Empty) /\ EndsOK(s) /\ s \in T!ConnState
    BY DEF Faithful, Fit
  <1>t. s.server \in T!Status /\ s.client \in T!Status BY <1>f, TFields
  <1>b. e \in BOOLEAN /\ w \in BOOLEAN BY DEF T!WantsWrite
  <1>e. e => s.sendBuffer = T!Empty OBVIOUS
  <1>w. w => s.session = T!Empty BY DEF T!WantsWrite
  <1>1. t = [s EXCEPT !.client = l, !.server = z] BY DEF T!Settle
  <1> HIDE DEF e, w
  <1>v. /\ v \in T!Status
        /\ T!IsShutdown(v) <=> T!IsShutdown(s.server)
        /\ v = "PeerClosed" => s.server = "PeerClosed" \/ T!IsShutdown(s.client)
    BY <1>t DEF T!Status, T!PeerClosed, T!IsShutdown
  <1> HIDE DEF v
  <1>k. /\ k \in T!Status
        /\ T!IsShutdown(k) <=> T!IsShutdown(s.client)
        /\ k = "PeerClosed" => s.client = "PeerClosed" \/ T!IsShutdown(s.server)
    BY <1>t, <1>v DEF T!Status, T!PeerClosed, T!IsShutdown
  <1> HIDE DEF k
  <1>l. /\ l \in T!Status
        /\ T!IsShutdown(l) <=> (T!IsShutdown(k) \/ (k = "PeerClosed" /\ e))
        /\ l = "PeerClosed" => k = "PeerClosed"
    BY <1>k, <1>b DEF T!Status, T!CheckStatus, T!IsShutdown
  <1>z. /\ z \in T!Status
        /\ T!IsShutdown(z) <=> (T!IsShutdown(v) \/ (v = "PeerClosed" /\ w))
        /\ z = "PeerClosed" => v = "PeerClosed"
    BY <1>v, <1>b DEF T!Status, T!CheckStatus, T!IsShutdown
  <1> HIDE DEF l, z
  <1>2. /\ t \in T!ConnState /\ t.server = z /\ t.client = l
        /\ t.tls = s.tls /\ t.plain = s.plain /\ t.session = s.session /\ t.sendBuffer = s.sendBuffer
        /\ t.cin = s.cin /\ t.cout = s.cout /\ t.sin = s.sin /\ t.sout = s.sout
        /\ t.cend = s.cend /\ t.send = s.send /\ t.broken = s.broken
    BY ZenonT(60), <1>f, <1>1, <1>l, <1>z DEF T!ConnState
  <1> HIDE DEF t
  <1>a. /\ T!IsShutdown(s.client) => T!IsShutdown(t.client)
        /\ T!IsShutdown(s.server) => T!IsShutdown(t.server)
        /\ T!IsShutdown(t.client) => T!IsShutdown(s.client) \/ (T!IsShutdown(s.server) /\ s.sendBuffer = T!Empty)
        /\ T!IsShutdown(t.server) => T!IsShutdown(s.server) \/ (T!IsShutdown(s.client) /\ s.session = T!Empty)
        /\ t.client = "PeerClosed" => T!IsShutdown(s.server)
        /\ t.server = "PeerClosed" => T!IsShutdown(s.client)
    <2>1. /\ s.client = "PeerClosed" => T!IsShutdown(s.server)
          /\ s.server = "PeerClosed" => T!IsShutdown(s.client)
      BY <1>f DEF EndsOK
    <2> QED BY <1>2, <1>e, <1>w, <1>v, <1>k, <1>l, <1>z, <2>1
  <1>3. Fit(t) /\ Stage(t) BY <1>f, <1>2 DEF Fit, Stage
  <1>4. UpLine(t) = UpLine(s) /\ DownLine(t, T!Empty) = DownLine(s, T!Empty) BY <1>2 DEF UpLine, DownLine
  <1>5. UpOK(t) BY <1>f, <1>2, <1>4, <1>a, UpKept
  <1>6. DownOK(t, T!Empty) BY <1>f, <1>2, <1>4, <1>a, DownKept DEF Excused
  <1>7. EndsOK(t)
    <2>1. (~t.broken /\ ~timedOut) =>
            /\ (t.cend = "open" /\ T!IsShutdown(t.client)) => T!IsShutdown(t.server) /\ t.sendBuffer = T!Empty
            /\ (t.send = "open" /\ T!IsShutdown(t.server))
                 => T!IsShutdown(t.client) /\ (t.tls = "done" => t.session = T!Empty)
      BY <1>f, <1>2, <1>a DEF EndsOK
    <2>2. (~t.broken /\ ~timedOut) =>
            /\ (t.send = "fin" /\ t.cend = "open" /\ T!IsShutdown(t.server)) => t.sin = T!Empty
            /\ (t.cend = "fin" /\ t.send = "open" /\ T!IsShutdown(t.client)) => t.cin = T!Empty
      BY <1>f, <1>2, <1>a DEF EndsOK
    <2> QED BY <1>a, <2>1, <2>2 DEF EndsOK
  <1> QED BY <1>3, <1>5, <1>6, <1>7 DEF Faithful, t

LEMMA TcpFlags ==
    ASSUME NEW s, Faithful(s, T!Empty), NEW b \in BOOLEAN
    PROVE  /\ Faithful([s EXCEPT !.readClient = b], T!Empty)
           /\ Faithful([s EXCEPT !.readServer = b], T!Empty)
           /\ Faithful([s EXCEPT !.client = T!Established(@)], T!Empty)
           /\ Faithful([s EXCEPT !.server = T!Established(@)], T!Empty)
           /\ \A d \in BOOLEAN : Faithful([s EXCEPT !.readServer = b, !.unflushed = d], T!Empty)
  <1>f. s \in T!ConnState /\ s.client \in T!Status /\ s.server \in T!Status BY TFields DEF Faithful, Fit
  <1>1. Faithful([s EXCEPT !.readClient = b], T!Empty)
    <2> DEFINE t == [s EXCEPT !.readClient = b]
    <2>1. /\ t \in T!ConnState /\ t.server = s.server /\ t.client = s.client
          /\ t.tls = s.tls /\ t.plain = s.plain /\ t.session = s.session /\ t.sendBuffer = s.sendBuffer
          /\ t.cin = s.cin /\ t.cout = s.cout /\ t.sin = s.sin /\ t.sout = s.sout
          /\ t.cend = s.cend /\ t.send = s.send /\ t.broken = s.broken
      BY <1>f DEF T!ConnState
    <2> HIDE DEF t
    <2>2. Faithful(t, T!Empty) BY <2>1, FlagsKept
    <2> QED BY <2>2 DEF t
  <1>2. Faithful([s EXCEPT !.readServer = b], T!Empty)
    <2> DEFINE t == [s EXCEPT !.readServer = b]
    <2>1. /\ t \in T!ConnState /\ t.server = s.server /\ t.client = s.client
          /\ t.tls = s.tls /\ t.plain = s.plain /\ t.session = s.session /\ t.sendBuffer = s.sendBuffer
          /\ t.cin = s.cin /\ t.cout = s.cout /\ t.sin = s.sin /\ t.sout = s.sout
          /\ t.cend = s.cend /\ t.send = s.send /\ t.broken = s.broken
      BY <1>f DEF T!ConnState
    <2> HIDE DEF t
    <2>2. Faithful(t, T!Empty) BY <2>1, FlagsKept
    <2> QED BY <2>2 DEF t
  <1>3. Faithful([s EXCEPT !.client = T!Established(@)], T!Empty)
    <2> DEFINE v == T!Established(s.client)
               t == [s EXCEPT !.client = v]
    <2>v. v \in T!Status /\ (T!IsShutdown(v) <=> T!IsShutdown(s.client)) /\ (v = "PeerClosed" <=> s.client = "PeerClosed")
      BY <1>f, TStatus
    <2> HIDE DEF v
    <2>1. /\ t \in T!ConnState /\ t.server = s.server /\ t.client = v
          /\ t.tls = s.tls /\ t.plain = s.plain /\ t.session = s.session /\ t.sendBuffer = s.sendBuffer
          /\ t.cin = s.cin /\ t.cout = s.cout /\ t.sin = s.sin /\ t.sout = s.sout
          /\ t.cend = s.cend /\ t.send = s.send /\ t.broken = s.broken
      BY <1>f, <2>v DEF T!ConnState
    <2> HIDE DEF t
    <2>2. Faithful(t, T!Empty) BY <2>1, <2>v, FlagsKept
    <2> QED BY <2>2 DEF t, v
  <1>4. Faithful([s EXCEPT !.server = T!Established(@)], T!Empty)
    <2> DEFINE v == T!Established(s.server)
               t == [s EXCEPT !.server = v]
    <2>v. v \in T!Status /\ (T!IsShutdown(v) <=> T!IsShutdown(s.server)) /\ (v = "PeerClosed" <=> s.server = "PeerClosed")
      BY <1>f, TStatus
    <2> HIDE DEF v
    <2>1. /\ t \in T!ConnState /\ t.server = v /\ t.client = s.client
          /\ t.tls = s.tls /\ t.plain = s.plain /\ t.session = s.session /\ t.sendBuffer = s.sendBuffer
          /\ t.cin = s.cin /\ t.cout = s.cout /\ t.sin = s.sin /\ t.sout = s.sout
          /\ t.cend = s.cend /\ t.send = s.send /\ t.broken = s.broken
      BY <1>f, <2>v DEF T!ConnState
    <2> HIDE DEF t
    <2>2. Faithful(t, T!Empty) BY <2>1, <2>v, FlagsKept
    <2> QED BY <2>2 DEF t, v
  <1>5. ASSUME NEW d \in BOOLEAN PROVE Faithful([s EXCEPT !.readServer = b, !.unflushed = d], T!Empty)
    <2> DEFINE t == [s EXCEPT !.readServer = b, !.unflushed = d]
    <2>1. /\ t \in T!ConnState /\ t.server = s.server /\ t.client = s.client
          /\ t.tls = s.tls /\ t.plain = s.plain /\ t.session = s.session /\ t.sendBuffer = s.sendBuffer
          /\ t.cin = s.cin /\ t.cout = s.cout /\ t.sin = s.sin /\ t.sout = s.sout
          /\ t.cend = s.cend /\ t.send = s.send /\ t.broken = s.broken
      BY <1>f DEF T!ConnState
    <2> HIDE DEF t
    <2>2. Faithful(t, T!Empty) BY <2>1, FlagsKept
    <2> QED BY <2>2 DEF t
  <1> QED BY <1>1, <1>2, <1>3, <1>4, <1>5

LEMMA TcpTryReadClient ==
    ASSUME NEW s, Faithful(s, T!Empty), TcpPeersOK, T!Alive(s.server)
    PROVE  Faithful(T!TryReadClient(s), T!Empty)
  <1> DEFINE t == T!TcpRead(s)
             u == [t EXCEPT !.readClient = FALSE]
  <1>1. Faithful(t, T!Empty) BY TcpReads
  <1> HIDE DEF t
  <1>2. Faithful(u, T!Empty) BY <1>1, TcpFlags
  <1> HIDE DEF u
  <1>3. Faithful(T!DoSend(u), T!Empty) BY <1>2, TcpDoSend
  <1> QED BY <1>3 DEF T!TryReadClient, u, t

LEMMA TcpTrySendServer ==
    ASSUME NEW s, Faithful(s, T!Empty), TcpPeersOK
    PROVE  Faithful(T!TrySendServer(s), T!Empty)
  <1> DEFINE t == T!DoSend(s)
  <1>1. Faithful(t, T!Empty) BY TcpDoSend
  <1>2. T!TrySendServer(s) = IF T!ServerWritable(t) /\ t.readClient THEN T!TryReadClient(t) ELSE t
    BY DEF T!TrySendServer
  <1> HIDE DEF t
  <1>3. T!ServerWritable(t) => T!Alive(t.server) BY DEF T!ServerWritable
  <1> QED BY <1>1, <1>2, <1>3, TcpTryReadClient

LEMMA TcpTryReadServer ==
    ASSUME NEW s, Faithful(s, T!Empty), TcpPeersOK, T!Alive(s.client)
    PROVE  Faithful(T!TryReadServer(s), T!Empty)
  <1> DEFINE t == T!DoRead(s)
             h == T!ReadBuffer(s)
  <1>1. Faithful(t, h) BY TcpDoRead
  <1>2. h \in Seq(Nat) BY TFields, TEmpty DEF T!ReadBuffer, Faithful
  <1>3. t.client = s.client BY DEF T!DoRead, Faithful, Fit, T!ConnState
  <1>4. T!TryReadServer(s) = T!DoSendClient(t, h) BY DEF T!TryReadServer
  <1> HIDE DEF t, h
  <1>5. T!Alive(t.client) BY <1>3
  <1>6. Faithful(T!DoSendClient(t, h), T!Empty) BY <1>1, <1>2, <1>5, TcpDoSendClient
  <1> QED BY <1>4, <1>6

LEMMA TcpTrySendClient ==
    ASSUME NEW s, Faithful(s, T!Empty), TcpPeersOK
    PROVE  Faithful(T!TrySendClient(s), T!Empty)
  <1> DEFINE t == T!DoSendClient(s, T!Empty)
             u == T!TryReadServer(t)
             d == u.unflushed \/ (t.hin /\ t.plain # T!Empty)
  <1>1. Faithful(t, T!Empty) BY TcpDoSendClient, TEmpty
  <1>2. T!TrySendClient(s) = IF T!Writable(t) /\ t.readServer
                             THEN [u EXCEPT !.readServer = FALSE, !.unflushed = d] ELSE t
    BY DEF T!TrySendClient
  <1> HIDE DEF t
  <1>3. T!Writable(t) => T!Alive(t.client) BY DEF T!Writable
  <1>4. CASE T!Writable(t) /\ t.readServer
    <2>1. Faithful(u, T!Empty) BY <1>1, <1>3, <1>4, TcpTryReadServer
    <2> HIDE DEF u
    <2>2. d \in BOOLEAN
      <3>1. u.unflushed \in BOOLEAN BY <2>1 DEF Faithful, Fit, T!ConnState
      <3> QED BY <3>1
    <2> HIDE DEF d
    <2>3. Faithful([u EXCEPT !.readServer = FALSE, !.unflushed = d], T!Empty) BY <2>1, <2>2, TcpFlags
    <2> QED BY <1>2, <1>4, <2>3
  <1>5. CASE ~(T!Writable(t) /\ t.readServer)
    BY <1>1, <1>2, <1>5
  <1> QED BY <1>4, <1>5

LEMMA TcpReadyClient ==
    ASSUME NEW s, Faithful(s, T!Empty), TcpPeersOK, NEW F
    PROVE  Faithful(T!ReadyClient(s, F), T!Empty)
  <1> DEFINE t == IF "r" \in F THEN T!ClientReadable(s) ELSE s
             e == [t EXCEPT !.client = T!Established(@)]
             u == IF "w" \in F THEN T!ClientWriteReady(t) ELSE t
  <1>1. Faithful(t, T!Empty)
    <2>1. T!ServerWritable(s) => T!Alive(s.server) BY DEF T!ServerWritable
    <2>2. T!ServerWritable(s) => Faithful(T!TryReadClient(s), T!Empty) BY <2>1, TcpTryReadClient
    <2>3. Faithful([s EXCEPT !.readClient = TRUE], T!Empty) BY TcpFlags
    <2>4. Faithful(T!ClientReadable(s), T!Empty) BY <2>2, <2>3 DEF T!ClientReadable
    <2> QED BY <2>4
  <1>2. T!ReadyClient(s, F) = T!Settle(u) BY DEF T!ReadyClient
  <1> HIDE DEF t
  <1>3. Faithful(u, T!Empty)
    <2>1. Faithful(e, T!Empty) BY <1>1, TcpFlags
    <2>2. T!ClientWriteReady(t) = T!TrySendClient(e) BY DEF T!ClientWriteReady
    <2> HIDE DEF e
    <2>3. Faithful(T!TrySendClient(e), T!Empty) BY <2>1, TcpTrySendClient
    <2> QED BY <1>1, <2>2, <2>3
  <1> HIDE DEF u
  <1> QED BY <1>2, <1>3, TcpSettles

LEMMA TcpReadyServer ==
    ASSUME NEW s, Faithful(s, T!Empty), TcpPeersOK, NEW F
    PROVE  Faithful(T!ReadyServer(s, F), T!Empty)
  <1> DEFINE r == IF T!Writable(s) THEN T!TryReadServer(s) ELSE [s EXCEPT !.readServer = TRUE]
             t == IF "r" \in F THEN T!ServerReadable(s) ELSE s
             e == [t EXCEPT !.server = T!Established(@)]
             u == IF "w" \in F THEN T!ServerWriteReady(t) ELSE t
  <1>1. Faithful(t, T!Empty)
    <2>1. T!Writable(s) => T!Alive(s.client) BY DEF T!Writable
    <2>2. T!Writable(s) => Faithful(T!TryReadServer(s), T!Empty) BY <2>1, TcpTryReadServer
    <2>3. Faithful([s EXCEPT !.readServer = TRUE], T!Empty) BY TcpFlags
    <2>4. Faithful(r, T!Empty) BY <2>2, <2>3
    <2>5. T!ServerReadable(s) = T!DoSend(r) BY DEF T!ServerReadable
    <2> HIDE DEF r
    <2>6. Faithful(T!DoSend(r), T!Empty) BY <2>4, TcpDoSend
    <2> QED BY <2>5, <2>6
  <1>2. T!ReadyServer(s, F) = T!Settle(u) BY DEF T!ReadyServer
  <1> HIDE DEF t
  <1>3. Faithful(u, T!Empty)
    <2>1. Faithful(e, T!Empty) BY <1>1, TcpFlags
    <2>2. T!ServerWriteReady(t) = T!TrySendServer(e) BY DEF T!ServerWriteReady
    <2> HIDE DEF e
    <2>3. Faithful(T!TrySendServer(e), T!Empty) BY <2>1, TcpTrySendServer
    <2> QED BY <1>1, <2>2, <2>3
  <1> HIDE DEF u
  <1> QED BY <1>2, <1>3, TcpSettles

-----------------------------------------------------------------------------
(* The peers *)

\* What a peer takes from the socket is what it gets.
LEMMA TakenByPeer ==
    ASSUME NEW g \in Seq(Nat), NEW q \in Seq(Nat), q # T!Empty
    PROVE  /\ Append(g, Head(q)) \in Seq(Nat) /\ Tail(q) \in Seq(Nat) /\ Len(Tail(q)) <= Len(q)
           /\ Append(g, Head(q)) \o Tail(q) = g \o q
  <1> SUFFICES ASSUME NEW e, NEW f, NEW u, e = Head(q), f = Tail(q), u = <<e>>
               PROVE  /\ Append(g, e) \in Seq(Nat) /\ f \in Seq(Nat) /\ Len(f) <= Len(q)
                      /\ Append(g, e) \o f = g \o q
    OBVIOUS
  <1>1. /\ e \in Nat /\ f \in Seq(Nat) /\ Len(f) = Len(q) - 1 /\ Len(q) \in Nat
        /\ \A i \in 1 .. Len(f) : f[i] = q[i + 1]
    BY HeadTailProperties, LenProperties DEF T!Empty
  <1>2. e = q[1] BY HeadTailProperties DEF T!Empty
  <1>3. u \in Seq(Nat) /\ Len(u) = 1 /\ u[1] = e BY <1>1
  <1>4. Append(g, e) = g \o u /\ Append(g, e) \in Seq(Nat)
    BY <1>1, AppendIsConcat, AppendProperties
  <1>l. Len(f) \in Nat /\ Len(f) <= Len(q)
    BY <1>1, LenProperties
  <1>5. u \o f = q
    <2> DEFINE w == u \o f
               m == Len(f)
    <2>0. m \in Nat /\ Len(q) = m + 1 BY <1>1, <1>l
    <2>1. w \in Seq(Nat) /\ Len(w) = 1 + m /\ \A i \in 1 .. 1 + m : w[i] = IF i <= 1 THEN u[i] ELSE f[i - 1]
      BY <1>1, <1>3, ConcatProperties
    <2> HIDE DEF w
    <2>2. \A i \in 1 .. Len(w) : w[i] = q[i]
      <3> SUFFICES ASSUME NEW i \in 1 .. 1 + m PROVE w[i] = q[i] BY <2>1
      <3>1. CASE i = 1 BY <1>2, <1>3, <2>0, <2>1, <3>1
      <3>2. CASE i # 1
        <4>1. i - 1 \in 1 .. m /\ ~(i <= 1) /\ (i - 1) + 1 = i BY <2>0, <3>2
        <4>2. w[i] = f[i - 1] BY <2>1, <4>1
        <4>3. f[i - 1] = q[(i - 1) + 1] BY <1>1, <4>1
        <4> QED BY <4>1, <4>2, <4>3
      <3> QED BY <3>1, <3>2
    <2>3. w = q BY <2>0, <2>1, <2>2, SeqEqual
    <2> QED BY <2>3 DEF w
  <1>6. (g \o u) \o f = g \o (u \o f) BY SMTT(60), <1>1, <1>3, Joins
  <1> QED BY <1>1, <1>4, <1>5, <1>6, <1>l

\* What a peer sends follows what it has sent.
LEMMA Grown ==
    ASSUME NEW p \in Seq(Nat), NEW r \in Seq(Nat), NEW e \in Nat
    PROVE  Append(r, e) \in Seq(Nat) /\ p \o Append(r, e) = Append(p \o r, e)
  <1> DEFINE x == <<e>>
  <1>1. x \in Seq(Nat) OBVIOUS
  <1>2. p \o r \in Seq(Nat) BY Joined
  <1>3. Append(r, e) = r \o x /\ Append(r, e) \in Seq(Nat) BY AppendIsConcat, AppendProperties
  <1>4. Append(p \o r, e) = (p \o r) \o x BY <1>2, AppendIsConcat
  <1> HIDE DEF x
  <1>5. (p \o r) \o x = p \o (r \o x) BY <1>1, Joins
  <1> QED BY <1>3, <1>4, <1>5

LEMMA CountsGrow ==
    ASSUME NEW n \in Nat
    PROVE  /\ [i \in 1 .. n + 1 |-> i] = Append([i \in 1 .. n |-> i], n + 1)
           /\ [i \in 1 .. n + 1 + 1 |-> i - 1] = Append([i \in 1 .. n + 1 |-> i - 1], n + 1)
  <1>0. \A k \in Nat : \A f \in [1 .. k -> Nat] : f \in Seq(Nat) /\ Len(f) = k BY IsASeq
  <1>1. [i \in 1 .. n + 1 |-> i] = Append([i \in 1 .. n |-> i], n + 1)
    <2> SUFFICES ASSUME NEW d, NEW v, NEW w, d = [i \in 1 .. n |-> i], v = [i \in 1 .. n + 1 |-> i],
                        w = Append(d, n + 1)
                 PROVE  v = w
      OBVIOUS
    <2>1. d \in [1 .. n -> Nat] /\ v \in [1 .. n + 1 -> Nat] /\ n + 1 \in Nat OBVIOUS
    <2>2. d \in Seq(Nat) /\ Len(d) = n /\ v \in Seq(Nat) /\ Len(v) = n + 1 BY <1>0, <2>1
    <2>3. w \in Seq(Nat) /\ Len(w) = n + 1 /\ w[n + 1] = n + 1 /\ \A i \in 1 .. n : w[i] = d[i]
      BY <2>1, <2>2, AppendProperties
    <2>4. \A i \in 1 .. n + 1 : v[i] = w[i]
      <3> SUFFICES ASSUME NEW i \in 1 .. n + 1 PROVE v[i] = w[i] OBVIOUS
      <3>1. CASE i = n + 1 BY <2>3, <3>1
      <3>2. CASE i # n + 1
        <4>1. i \in 1 .. n BY <3>2
        <4> QED BY <2>3, <4>1
      <3> QED BY <3>1, <3>2
    <2> QED BY <2>2, <2>3, <2>4, SeqEqual
  <1>2. [i \in 1 .. n + 1 + 1 |-> i - 1] = Append([i \in 1 .. n + 1 |-> i - 1], n + 1)
    <2> SUFFICES ASSUME NEW d, NEW v, NEW w, NEW m, m = n + 1,
                        d = [i \in 1 .. m |-> i - 1], v = [i \in 1 .. m + 1 |-> i - 1],
                        w = Append(d, m)
                 PROVE  v = w
      OBVIOUS
    <2>1. d \in [1 .. m -> Nat] /\ v \in [1 .. m + 1 -> Nat] /\ m \in Nat /\ m + 1 \in Nat OBVIOUS
    <2>2. d \in Seq(Nat) /\ Len(d) = m /\ v \in Seq(Nat) /\ Len(v) = m + 1 BY <1>0, <2>1
    <2>3. w \in Seq(Nat) /\ Len(w) = m + 1 /\ w[m + 1] = m /\ \A i \in 1 .. m : w[i] = d[i]
      BY <2>1, <2>2, AppendProperties
    <2>4. \A i \in 1 .. m + 1 : v[i] = w[i]
      <3> SUFFICES ASSUME NEW i \in 1 .. m + 1 PROVE v[i] = w[i] OBVIOUS
      <3>1. CASE i = m + 1 BY <2>1, <2>3, <3>1
      <3>2. CASE i # m + 1
        <4>1. i \in 1 .. m BY <2>1, <3>2
        <4> QED BY <2>3, <4>1
      <3> QED BY <3>1, <3>2
    <2> QED BY <2>2, <2>3, <2>4, SeqEqual
  <1> QED BY <1>1, <1>2

LEMMA StreamsGrow ==
    ASSUME TcpPeersOK
    PROVE  /\ upSent' = upSent + 1 => T!UpStream' = Append(T!UpStream, upSent + 1)
           /\ downSent' = downSent + 1 => T!DownStream' = Append(T!DownStream, downSent + 1)
  <1>1. upSent \in Nat /\ downSent \in Nat BY StreamsType
  <1>2. /\ [i \in 1 .. upSent + 1 + 1 |-> i - 1] = Append([i \in 1 .. upSent + 1 |-> i - 1], upSent + 1)
        /\ [i \in 1 .. downSent + 1 |-> i] = Append([i \in 1 .. downSent |-> i], downSent + 1)
    BY <1>1, CountsGrow
  <1> QED BY <1>2 DEF T!UpStream, T!DownStream

\* A peer closes, while the endpoint on its side is open.
LEMMA TcpPeerCloses ==
    ASSUME NEW s, NEW t, Faithful(s, T!Empty), t \in T!ConnState,
           t.tls = s.tls, t.plain = s.plain, t.session = s.session, t.sendBuffer = s.sendBuffer,
           t.cin = s.cin, t.cout = s.cout, t.sin = s.sin, t.sout = s.sout,
           t.broken = s.broken, t.client = s.client, t.server = s.server,
           t.cend = s.cend \/ (s.cend = "open" /\ t.cend # "open" /\ ~T!IsShutdown(s.client)),
           t.send = s.send \/ (s.send = "open" /\ t.send # "open" /\ (~T!IsShutdown(s.server) \/ t.send = "rst"))
    PROVE  Faithful(t, T!Empty)
  <1>1. Fit(t) /\ Stage(t) BY DEF Faithful, Fit, Stage
  <1>2. UpLine(t) = UpLine(s) /\ DownLine(t, T!Empty) = DownLine(s, T!Empty) BY DEF UpLine, DownLine
  <1>3. UpOK(t) BY <1>2, UpKept DEF Faithful
  <1>4. Excused(s) => Excused(t) BY DEF Excused
  <1>5. DownOK(t, T!Empty) BY <1>2, <1>4, DownKept DEF Faithful
  <1>6. EndsOK(t)
    <2>1. EndsOK(s) BY DEF Faithful
    <2> QED BY <2>1 DEF EndsOK
  <1> QED BY <1>1, <1>3, <1>5, <1>6 DEF Faithful

\* While the peers do nothing and nothing times out, what is true of the next state's
\* connection now is true of it then.
LEMMA TcpStill ==
    ASSUME NEW t, UNCHANGED <<upSent, downSent, clientGot, serverGot, timedOut>>, conn' = t,
           Faithful(t, T!Empty)
    PROVE  Faithful(conn, T!Empty)'
  <1>1. UpLine(conn)' = UpLine(t) /\ DownLine(conn, T!Empty)' = DownLine(t, T!Empty)
    BY DEF UpLine, DownLine
  <1>2. T!UpStream' = T!UpStream /\ T!DownStream' = T!DownStream
    BY DEF T!UpStream, T!DownStream
  <1>3. Fit(conn)' /\ Stage(conn)' BY DEF Faithful, Fit, Stage
  <1>4. UpOK(conn)' BY <1>1, <1>2 DEF Faithful, UpOK
  <1>5. Excused(conn)' <=> Excused(t) BY DEF Excused
  <1>6. DownOK(conn, T!Empty)' BY <1>1, <1>2, <1>5 DEF Faithful, DownOK
  <1>7. EndsOK(conn)' BY DEF Faithful, EndsOK
  <1> QED BY <1>3, <1>4, <1>6, <1>7 DEF Faithful

-----------------------------------------------------------------------------
(* The loop *)

TcpLoopOK ==
    /\ tcpEv \subseteq T!Source /\ tcpBatch \in [T!Source -> SUBSET {"r", "w"}]
    /\ tcpPolling \in BOOLEAN /\ tcpRemoved \in BOOLEAN /\ gone \in BOOLEAN /\ timedOut \in BOOLEAN

\* The inductive invariant of a TCP connection.
TcpInv == TcpLoopOK /\ TcpPeersOK /\ Faithful(conn, T!Empty)

LEMMA TcpFlagsType == ASSUME NEW x PROVE T!Flags(x) \in SUBSET {"r", "w"}
  BY DEF T!Flags

LEMMA TcpRaise ==
    ASSUME TcpLoopOK, NEW x \in T!Source, T!Raise(x) \/ UNCHANGED tcpEv,
           UNCHANGED <<tcpBatch, tcpPolling, tcpRemoved, gone, timedOut>>
    PROVE  TcpLoopOK'
  BY DEF TcpLoopOK, T!Raise

LEMMA TcpHandled ==
    ASSUME TcpInv, NEW s, NEW x \in T!Source, Faithful(s, T!Empty), T!AfterReady(s, x)
    PROVE  TcpInv'
  <1>1. /\ conn' = s /\ tcpRemoved' = (tcpRemoved \/ T!Destroyed(s)) /\ tcpEv' \subseteq tcpEv
        /\ tcpBatch' = [tcpBatch EXCEPT ![x] = {}]
        /\ UNCHANGED <<tcpPolling, gone, timedOut, upSent, downSent, clientGot, serverGot>>
    BY DEF T!AfterReady, T!env
  <1>2. TcpPeersOK' BY <1>1 DEF TcpInv, TcpPeersOK
  <1>3. Faithful(conn, T!Empty)' BY <1>1, TcpStill
  <1>4. tcpRemoved' \in BOOLEAN BY <1>1 DEF TcpInv, TcpLoopOK, T!Destroyed
  <1>5. tcpBatch' \in [T!Source -> SUBSET {"r", "w"}] BY <1>1 DEF TcpInv, TcpLoopOK
  <1>6. TcpLoopOK' BY <1>1, <1>4, <1>5 DEF TcpInv, TcpLoopOK
  <1> QED BY <1>2, <1>3, <1>6 DEF TcpInv

\* A step of a peer that sends and receives nothing.
LEMMA TcpQuiet ==
    ASSUME TcpInv, NEW t, conn' = t, Faithful(t, T!Empty), NEW x \in T!Source,
           T!Raise(x), UNCHANGED <<T!sys, T!env>>
    PROVE  TcpInv'
  <1>1. UNCHANGED <<tcpBatch, tcpPolling, tcpRemoved, gone, timedOut, upSent, downSent, clientGot, serverGot>>
    BY DEF T!sys, T!env
  <1>2. TcpPeersOK' BY <1>1 DEF TcpInv, TcpPeersOK
  <1>3. Faithful(conn, T!Empty)' BY <1>1, TcpStill
  <1>4. TcpLoopOK' BY <1>1, TcpRaise DEF TcpInv
  <1> QED BY <1>2, <1>3, <1>4 DEF TcpInv

LEMMA TcpInductive == TcpInv /\ [T!Next]_(T!vars) => TcpInv'
  <1> SUFFICES ASSUME TcpInv, [T!Next]_(T!vars) PROVE TcpInv'
    OBVIOUS
  <1>0. TcpLoopOK /\ TcpPeersOK /\ Faithful(conn, T!Empty) BY DEF TcpInv
  <1>f. Fit(conn) /\ conn \in T!ConnState BY <1>0 DEF Faithful, Fit
  <1>x. "client" \in T!Source /\ "server" \in T!Source BY DEF T!Source
  <1>e. UpOK(conn) /\ DownOK(conn, T!Empty) /\ EndsOK(conn) /\ Stage(conn) BY <1>0 DEF Faithful
  <1>1. CASE T!Fetch
    <2> DEFINE p == conn.cblk \/ ("client" \in tcpEv /\ Len(conn.cout) = SockCap)
               q == conn.sblk \/ ("server" \in tcpEv /\ Len(conn.sout) = SockCap)
               t == [conn EXCEPT !.cblk = p, !.sblk = q]
    <2>1. /\ conn' = t /\ tcpBatch' = [x \in T!Source |-> IF x \in tcpEv THEN T!Flags(x) ELSE {}]
          /\ tcpEv' = {} /\ tcpPolling' = FALSE
          /\ UNCHANGED <<tcpRemoved, gone, timedOut, upSent, downSent, clientGot, serverGot>>
      BY <1>1 DEF T!Fetch, T!env
    <2>2. p \in BOOLEAN /\ q \in BOOLEAN BY <1>f DEF T!ConnState
    <2> HIDE DEF p, q
    <2>3. /\ t \in T!ConnState /\ t.server = conn.server /\ t.client = conn.client
          /\ t.tls = conn.tls /\ t.plain = conn.plain /\ t.session = conn.session
          /\ t.sendBuffer = conn.sendBuffer
          /\ t.cin = conn.cin /\ t.cout = conn.cout /\ t.sin = conn.sin /\ t.sout = conn.sout
          /\ t.cend = conn.cend /\ t.send = conn.send /\ t.broken = conn.broken
      BY <1>f, <2>2 DEF T!ConnState
    <2> HIDE DEF t
    <2>4. Faithful(t, T!Empty) BY <1>0, <2>3, FlagsKept
    <2>5. Faithful(conn, T!Empty)' BY <2>1, <2>4, TcpStill
    <2>6. TcpPeersOK' BY <1>0, <2>1 DEF TcpPeersOK
    <2>7. tcpBatch' \in [T!Source -> SUBSET {"r", "w"}] BY <2>1, TcpFlagsType
    <2>8. TcpLoopOK' BY <1>0, <2>1, <2>7 DEF TcpLoopOK
    <2> QED BY <2>5, <2>6, <2>8 DEF TcpInv
  <1>2. CASE T!HandleClient
    <2> DEFINE s == T!ReadyClient(conn, tcpBatch["client"])
    <2>1. T!AfterReady(s, "client") BY <1>2 DEF T!HandleClient
    <2>2. Faithful(s, T!Empty) BY <1>0, TcpReadyClient
    <2> HIDE DEF s
    <2> QED BY <1>x, <2>1, <2>2, TcpHandled
  <1>3. CASE T!HandleServer
    <2> DEFINE s == T!ReadyServer(conn, tcpBatch["server"])
    <2>1. T!AfterReady(s, "server") BY <1>3 DEF T!HandleServer
    <2>2. Faithful(s, T!Empty) BY <1>0, TcpReadyServer
    <2> HIDE DEF s
    <2> QED BY <1>x, <2>1, <2>2, TcpHandled
  <1>4. CASE T!RemoveClosed
    <2>1. /\ tcpPolling' = TRUE /\ tcpRemoved' = FALSE /\ gone' = (gone \/ tcpRemoved)
          /\ tcpEv' \subseteq tcpEv
          /\ UNCHANGED <<conn, tcpBatch, timedOut, upSent, downSent, clientGot, serverGot>>
      BY <1>4 DEF T!RemoveClosed, T!env
    <2>2. Faithful(conn, T!Empty)' BY <1>0, <2>1, TcpStill
    <2>3. TcpPeersOK' BY <1>0, <2>1 DEF TcpPeersOK
    <2>4. gone' \in BOOLEAN BY <1>0, <2>1 DEF TcpLoopOK
    <2>5. TcpLoopOK' BY <1>0, <2>1, <2>4 DEF TcpLoopOK
    <2> QED BY <2>2, <2>3, <2>5 DEF TcpInv
  <1>5. CASE T!CheckTimeout
    <2> DEFINE v == T!CheckStatus(T!Shutdown(conn.client), FALSE)
               w == T!CheckStatus(T!Shutdown(conn.server), FALSE)
               t == [conn EXCEPT !.client = v, !.server = w]
    <2>1. /\ conn' = t /\ gone' = TRUE /\ timedOut' = TRUE /\ tcpEv' = {}
          /\ UNCHANGED <<tcpBatch, tcpPolling, tcpRemoved, upSent, downSent, clientGot, serverGot>>
      BY <1>5 DEF T!CheckTimeout, T!Destroy, T!env
    <2>2. v = "Deregistered" /\ w = "Deregistered" BY DEF T!CheckStatus, T!Shutdown, T!IsShutdown
    <2> HIDE DEF v, w
    <2>3. /\ t \in T!ConnState /\ t.server = "Deregistered" /\ t.client = "Deregistered"
          /\ t.tls = conn.tls /\ t.plain = conn.plain /\ t.session = conn.session
          /\ t.sendBuffer = conn.sendBuffer
          /\ t.cin = conn.cin /\ t.cout = conn.cout /\ t.sin = conn.sin /\ t.sout = conn.sout
          /\ t.cend = conn.cend /\ t.send = conn.send /\ t.broken = conn.broken
      BY <1>f, <2>2 DEF T!ConnState, T!Status
    <2> HIDE DEF t
    <2>4. T!IsShutdown(t.client) /\ T!IsShutdown(t.server) BY <2>3 DEF T!IsShutdown
    <2>5. Fit(conn)' /\ Stage(conn)' BY <1>f, <1>e, <2>1, <2>3 DEF Fit, Stage
    <2>6. UpLine(conn)' = UpLine(conn) /\ DownLine(conn, T!Empty)' = DownLine(conn, T!Empty)
      BY <2>1, <2>3 DEF UpLine, DownLine
    <2>7. T!UpStream' = T!UpStream /\ T!DownStream' = T!DownStream
      BY <2>1 DEF T!UpStream, T!DownStream
    <2>8. UpOK(conn)' BY <1>e, <2>1, <2>3, <2>4, <2>6, <2>7 DEF UpOK
    <2>9. Excused(conn)' BY <2>1, <2>4 DEF Excused
    <2>10. DownOK(conn, T!Empty)' BY <1>e, <2>6, <2>7, <2>9 DEF DownOK
    <2>11. EndsOK(conn)' BY <2>1, <2>4 DEF EndsOK
    <2>12. TcpPeersOK' BY <1>0, <2>1 DEF TcpPeersOK
    <2>13. TcpLoopOK' BY <1>0, <2>1 DEF TcpLoopOK
    <2> QED BY <2>5, <2>8, <2>10, <2>11, <2>12, <2>13 DEF TcpInv, Faithful
  <1>6. CASE T!ClientSend
    <2> DEFINE e == upSent + 1
               q == Append(conn.cin, e)
               t == [conn EXCEPT !.cin = q]
    <2>1. /\ conn' = t /\ upSent' = upSent + 1 /\ upSent < MaxUp /\ T!Raise("client")
          /\ conn.cend = "open" /\ ~T!IsShutdown(conn.client)
          /\ UNCHANGED <<tcpBatch, tcpPolling, tcpRemoved, gone, timedOut, downSent, clientGot, serverGot>>
      BY <1>6 DEF T!ClientSend, T!sys
    <2>n. upSent \in Nat /\ MaxUp \in Nat /\ upSent \in 0 .. MaxUp
      BY <1>0, StreamsType, BoundsAssumption DEF TcpPeersOK
    <2>e. e \in Nat /\ e \in 0 .. MaxUp BY <2>n, <2>1
    <2>p. TcpPeersOK'
      BY <1>0, <2>1, <2>e DEF TcpPeersOK
    <2>g. T!UpStream' = Append(T!UpStream, e) BY <1>0, <2>1, StreamsGrow
    <2>d. T!DownStream' = T!DownStream BY <2>1 DEF T!DownStream
    <2> HIDE DEF e
    <2>q. q \in Seq(Nat) BY <1>f, <2>e, TFields, AppendProperties
    <2> HIDE DEF q
    <2>3. /\ t \in T!ConnState /\ t.server = conn.server /\ t.client = conn.client
          /\ t.tls = conn.tls /\ t.plain = conn.plain /\ t.session = conn.session
          /\ t.sendBuffer = conn.sendBuffer
          /\ t.cin = q /\ t.cout = conn.cout /\ t.sin = conn.sin /\ t.sout = conn.sout
          /\ t.cend = conn.cend /\ t.send = conn.send /\ t.broken = conn.broken
      BY <1>f, <2>q DEF T!ConnState
    <2> HIDE DEF t
    <2>5. Fit(conn)' /\ Stage(conn)' BY <1>f, <1>e, <2>1, <2>3 DEF Fit, Stage
    <2>6. UpLine(conn)' = UpLine(conn) /\ DownLine(conn, T!Empty)' = DownLine(conn, T!Empty)
      BY <2>1, <2>3 DEF UpLine, DownLine
    <2>7. UpOK(conn)'
      <3>1. PICK r \in Seq(Nat) : /\ UpLine(conn) \o r = T!UpStream
                                  /\ r = conn.cin \/ (conn.broken /\ T!IsShutdown(conn.server))
        BY <1>e DEF UpOK
      <3> DEFINE z == Append(r, e)
      <3>2. UpLine(conn) \in Seq(Nat)
        BY <1>0, <1>f, TFields, Joined DEF UpLine, TcpPeersOK
      <3>3. z \in Seq(Nat) /\ UpLine(conn) \o z = T!UpStream'
        <4>1. z \in Seq(Nat) /\ UpLine(conn) \o z = Append(UpLine(conn) \o r, e)
          BY <2>e, <3>2, Grown
        <4> QED BY <2>g, <3>1, <4>1
      <3>4. r = conn.cin => z = q BY DEF q
      <3> HIDE DEF z
      <3>5. UpLine(conn)' \o z = T!UpStream' BY <2>6, <3>3
      <3>6. z = conn'.cin \/ (conn'.broken /\ T!IsShutdown(conn'.server)) BY <2>1, <2>3, <3>1, <3>4
      <3> QED BY <3>3, <3>5, <3>6 DEF UpOK
    <2>8. Excused(conn)' <=> Excused(conn) BY <2>1, <2>3 DEF Excused
    <2>9. DownOK(conn, T!Empty)' BY <1>e, <2>1, <2>3, <2>6, <2>d, <2>8 DEF DownOK
    <2>10. EndsOK(conn)' BY <1>e, <2>1, <2>3 DEF EndsOK
    <2>11. TcpLoopOK' BY <1>0, <1>x, <2>1, TcpRaise
    <2> QED BY <2>5, <2>7, <2>9, <2>10, <2>11, <2>p DEF TcpInv, Faithful
  <1>7. CASE T!ClientClose
    <2>1. PICK how \in {"fin", "rst"} : conn' = [conn EXCEPT !.cend = how] BY <1>7 DEF T!ClientClose
    <2>2. /\ conn.cend = "open" /\ ~T!IsShutdown(conn.client) /\ T!Raise("client")
          /\ UNCHANGED <<T!sys, T!env>>
      BY <1>7 DEF T!ClientClose
    <2> DEFINE t == [conn EXCEPT !.cend = how]
    <2>3. /\ t \in T!ConnState /\ t.server = conn.server /\ t.client = conn.client
          /\ t.tls = conn.tls /\ t.plain = conn.plain /\ t.session = conn.session
          /\ t.sendBuffer = conn.sendBuffer
          /\ t.cin = conn.cin /\ t.cout = conn.cout /\ t.sin = conn.sin /\ t.sout = conn.sout
          /\ t.cend # "open" /\ t.send = conn.send /\ t.broken = conn.broken
      BY <1>f DEF T!ConnState
    <2>4. conn' = t BY <2>1
    <2> HIDE DEF t
    <2>5. Faithful(t, T!Empty) BY <1>0, <2>2, <2>3, TcpPeerCloses
    <2> QED BY <1>x, <2>2, <2>4, <2>5, TcpQuiet
  <1>8. CASE T!ClientRecv
    <2> DEFINE q == Tail(conn.cout)
               a == Append(clientGot, Head(conn.cout))
               t == [conn EXCEPT !.cout = q, !.cblk = FALSE]
    <2>1. /\ conn' = t /\ clientGot' = a /\ conn.cout # T!Empty /\ (T!Raise("client") \/ UNCHANGED tcpEv)
          /\ UNCHANGED <<tcpBatch, tcpPolling, tcpRemoved, gone, timedOut, upSent, downSent, serverGot>>
      BY <1>8 DEF T!ClientRecv, T!sys
    <2>2. conn.cout \in Seq(Nat) /\ clientGot \in Seq(Nat) /\ Len(conn.cout) <= SockCap /\ Len(conn.cout) \in Nat
      BY <1>0, <1>f, TFields, LenProperties DEF TcpPeersOK
    <2>3. /\ q \in Seq(Nat) /\ Len(q) <= Len(conn.cout) /\ a \in Seq(Nat) /\ a \o q = clientGot \o conn.cout
      BY <2>1, <2>2, TakenByPeer
    <2> HIDE DEF q, a
    <2>4. Len(q) <= SockCap
      <3>1. Len(q) \in Nat /\ SockCap \in Nat BY <2>3, LenProperties, ConstAssumption
      <3> QED BY <2>2, <2>3, <3>1
    <2>5. /\ t \in T!ConnState /\ t.server = conn.server /\ t.client = conn.client
          /\ t.tls = conn.tls /\ t.plain = conn.plain /\ t.session = conn.session
          /\ t.sendBuffer = conn.sendBuffer
          /\ t.cin = conn.cin /\ t.cout = q /\ t.sin = conn.sin /\ t.sout = conn.sout
          /\ t.cend = conn.cend /\ t.send = conn.send /\ t.broken = conn.broken
      BY <1>f, <2>3 DEF T!ConnState
    <2> HIDE DEF t
    <2>6. Fit(conn)' /\ Stage(conn)' BY <1>f, <1>e, <2>1, <2>4, <2>5 DEF Fit, Stage
    <2>7. UpLine(conn)' = UpLine(conn) /\ DownLine(conn, T!Empty)' = DownLine(conn, T!Empty)
      BY <2>1, <2>3, <2>5 DEF UpLine, DownLine
    <2>8. T!UpStream' = T!UpStream /\ T!DownStream' = T!DownStream
      BY <2>1 DEF T!UpStream, T!DownStream
    <2>9. UpOK(conn)' BY <1>e, <2>1, <2>5, <2>7, <2>8 DEF UpOK
    <2>10. Excused(conn)' <=> Excused(conn) BY <2>1, <2>5 DEF Excused
    <2>11. DownOK(conn, T!Empty)' BY <1>e, <2>1, <2>5, <2>7, <2>8, <2>10 DEF DownOK
    <2>12. EndsOK(conn)' BY <1>e, <2>1, <2>5 DEF EndsOK
    <2>13. TcpLoopOK' BY <1>0, <1>x, <2>1, TcpRaise
    <2>14. TcpPeersOK' BY <1>0, <2>1, <2>3 DEF TcpPeersOK
    <2> QED BY <2>6, <2>9, <2>11, <2>12, <2>13, <2>14 DEF TcpInv, Faithful
  <1>9. CASE T!ServerConnect
    <2>1. /\ conn.send = "open" /\ T!Raise("server") /\ UNCHANGED <<T!sys, T!env>>
          /\ conn' = [conn EXCEPT !.scon = "up"] \/ conn' = [conn EXCEPT !.send = "rst"]
      BY <1>9 DEF T!ServerConnect
    <2> DEFINE t == conn'
    <2>2. /\ t \in T!ConnState /\ t.server = conn.server /\ t.client = conn.client
          /\ t.tls = conn.tls /\ t.plain = conn.plain /\ t.session = conn.session
          /\ t.sendBuffer = conn.sendBuffer
          /\ t.cin = conn.cin /\ t.cout = conn.cout /\ t.sin = conn.sin /\ t.sout = conn.sout
          /\ t.cend = conn.cend /\ (t.send = conn.send \/ t.send = "rst") /\ t.broken = conn.broken
      BY ZenonT(60), <1>f, <2>1 DEF T!ConnState
    <2>3. conn' = t OBVIOUS
    <2> HIDE DEF t
    <2>4. Faithful(t, T!Empty) BY <1>0, <2>1, <2>2, TcpPeerCloses
    <2> QED BY <1>x, <2>1, <2>3, <2>4, TcpQuiet
  <1>10. CASE T!ServerHello
    <2>1. /\ T!Raise("server") /\ UNCHANGED <<T!sys, T!env>> /\ conn' = [conn EXCEPT !.hin = TRUE]
      BY <1>10 DEF T!ServerHello
    <2> DEFINE t == [conn EXCEPT !.hin = TRUE]
    <2>2. /\ t \in T!ConnState /\ t.server = conn.server /\ t.client = conn.client
          /\ t.tls = conn.tls /\ t.plain = conn.plain /\ t.session = conn.session
          /\ t.sendBuffer = conn.sendBuffer
          /\ t.cin = conn.cin /\ t.cout = conn.cout /\ t.sin = conn.sin /\ t.sout = conn.sout
          /\ t.cend = conn.cend /\ t.send = conn.send /\ t.broken = conn.broken
      BY <1>f DEF T!ConnState
    <2>3. conn' = t BY <2>1
    <2> HIDE DEF t
    <2>4. Faithful(t, T!Empty) BY <1>0, <2>2, FlagsKept
    <2> QED BY <1>x, <2>1, <2>3, <2>4, TcpQuiet
  <1>11. CASE T!ServerSend
    <2> DEFINE e == downSent + 1
               q == Append(conn.sin, e)
               t == [conn EXCEPT !.sin = q]
    <2>1. /\ conn' = t /\ downSent' = downSent + 1 /\ downSent < MaxDown /\ T!Raise("server")
          /\ conn.send = "open" /\ T!Alive(conn.server)
          /\ UNCHANGED <<tcpBatch, tcpPolling, tcpRemoved, gone, timedOut, upSent, clientGot, serverGot>>
      BY <1>11 DEF T!ServerSend, T!sys
    <2>n. downSent \in Nat /\ MaxDown \in Nat /\ downSent \in 0 .. MaxDown
      BY <1>0, StreamsType, BoundsAssumption DEF TcpPeersOK
    <2>e. e \in Nat /\ e \in 0 .. MaxDown BY <2>n, <2>1
    <2>p. TcpPeersOK'
      BY <1>0, <2>1, <2>e DEF TcpPeersOK
    <2>g. T!DownStream' = Append(T!DownStream, e) BY <1>0, <2>1, StreamsGrow
    <2>d. T!UpStream' = T!UpStream BY <2>1 DEF T!UpStream
    <2> HIDE DEF e
    <2>q. q \in Seq(Nat) BY <1>f, <2>e, TFields, AppendProperties
    <2> HIDE DEF q
    <2>3. /\ t \in T!ConnState /\ t.server = conn.server /\ t.client = conn.client
          /\ t.tls = conn.tls /\ t.plain = conn.plain /\ t.session = conn.session
          /\ t.sendBuffer = conn.sendBuffer
          /\ t.cin = conn.cin /\ t.cout = conn.cout /\ t.sin = q /\ t.sout = conn.sout
          /\ t.cend = conn.cend /\ t.send = conn.send /\ t.broken = conn.broken
      BY <1>f, <2>q DEF T!ConnState
    <2> HIDE DEF t
    <2>5. Fit(conn)' /\ Stage(conn)' BY <1>f, <1>e, <2>1, <2>3 DEF Fit, Stage
    <2>6. UpLine(conn)' = UpLine(conn) /\ DownLine(conn, T!Empty)' = DownLine(conn, T!Empty)
      BY <2>1, <2>3 DEF UpLine, DownLine
    <2>8. Excused(conn)' <=> Excused(conn) BY <2>1, <2>3 DEF Excused
    <2>7. DownOK(conn, T!Empty)'
      <3>1. PICK r \in Seq(Nat) : /\ DownLine(conn, T!Empty) \o r = T!DownStream
                                  /\ r = conn.sin \/ Excused(conn)
        BY <1>e DEF DownOK
      <3> DEFINE z == Append(r, e)
      <3>2. DownLine(conn, T!Empty) \in Seq(Nat)
        BY <1>0, <1>f, TFields, Joined, TEmpty DEF DownLine, TcpPeersOK
      <3>3. z \in Seq(Nat) /\ DownLine(conn, T!Empty) \o z = T!DownStream'
        <4>1. z \in Seq(Nat) /\ DownLine(conn, T!Empty) \o z = Append(DownLine(conn, T!Empty) \o r, e)
          BY <2>e, <3>2, Grown
        <4> QED BY <2>g, <3>1, <4>1
      <3>4. r = conn.sin => z = q BY DEF q
      <3> HIDE DEF z
      <3>5. DownLine(conn, T!Empty)' \o z = T!DownStream' BY <2>6, <3>3
      <3>6. z = conn'.sin \/ Excused(conn)' BY <2>1, <2>3, <2>8, <3>1, <3>4
      <3> QED BY <3>3, <3>5, <3>6 DEF DownOK
    <2>9. UpOK(conn)' BY <1>e, <2>1, <2>3, <2>6, <2>d DEF UpOK
    <2>10. EndsOK(conn)' BY <1>e, <2>1, <2>3 DEF EndsOK
    <2>11. TcpLoopOK' BY <1>0, <1>x, <2>1, TcpRaise
    <2> QED BY <2>5, <2>7, <2>9, <2>10, <2>11, <2>p DEF TcpInv, Faithful
  <1>12. CASE T!ServerClose
    <2>1. PICK how \in {"fin", "rst", "bad"} : conn' = [conn EXCEPT !.send = how] BY <1>12 DEF T!ServerClose
    <2>2. /\ conn.send = "open" /\ ~T!IsShutdown(conn.server) /\ T!Raise("server")
          /\ UNCHANGED <<T!sys, T!env>>
      BY <1>12 DEF T!ServerClose
    <2> DEFINE t == [conn EXCEPT !.send = how]
    <2>3. /\ t \in T!ConnState /\ t.server = conn.server /\ t.client = conn.client
          /\ t.tls = conn.tls /\ t.plain = conn.plain /\ t.session = conn.session
          /\ t.sendBuffer = conn.sendBuffer
          /\ t.cin = conn.cin /\ t.cout = conn.cout /\ t.sin = conn.sin /\ t.sout = conn.sout
          /\ t.send # "open" /\ t.cend = conn.cend /\ t.broken = conn.broken
      BY <1>f DEF T!ConnState
    <2>4. conn' = t BY <2>1
    <2> HIDE DEF t
    <2>5. Faithful(t, T!Empty) BY <1>0, <2>2, <2>3, TcpPeerCloses
    <2> QED BY <1>x, <2>2, <2>4, <2>5, TcpQuiet
  <1>13. CASE T!ServerRecv
    <2> DEFINE q == Tail(conn.sout)
               a == Append(serverGot, Head(conn.sout))
               t == [conn EXCEPT !.sout = q, !.sblk = FALSE]
    <2>1. /\ conn' = t /\ serverGot' = a /\ conn.sout # T!Empty /\ (T!Raise("server") \/ UNCHANGED tcpEv)
          /\ UNCHANGED <<tcpBatch, tcpPolling, tcpRemoved, gone, timedOut, upSent, downSent, clientGot>>
      BY <1>13 DEF T!ServerRecv, T!sys
    <2>2. conn.sout \in Seq(Nat) /\ serverGot \in Seq(Nat) /\ Len(conn.sout) <= SockCap /\ Len(conn.sout) \in Nat
      BY <1>0, <1>f, TFields, LenProperties DEF TcpPeersOK
    <2>3. /\ q \in Seq(Nat) /\ Len(q) <= Len(conn.sout) /\ a \in Seq(Nat) /\ a \o q = serverGot \o conn.sout
      BY <2>1, <2>2, TakenByPeer
    <2> HIDE DEF q, a
    <2>4. Len(q) <= SockCap
      <3>1. Len(q) \in Nat /\ SockCap \in Nat BY <2>3, LenProperties, ConstAssumption
      <3> QED BY <2>2, <2>3, <3>1
    <2>5. /\ t \in T!ConnState /\ t.server = conn.server /\ t.client = conn.client
          /\ t.tls = conn.tls /\ t.plain = conn.plain /\ t.session = conn.session
          /\ t.sendBuffer = conn.sendBuffer
          /\ t.cin = conn.cin /\ t.cout = conn.cout /\ t.sin = conn.sin /\ t.sout = q
          /\ t.cend = conn.cend /\ t.send = conn.send /\ t.broken = conn.broken
      BY <1>f, <2>3 DEF T!ConnState
    <2> HIDE DEF t
    <2>6. Fit(conn)' /\ Stage(conn)' BY <1>f, <1>e, <2>1, <2>4, <2>5 DEF Fit, Stage
    <2>7. UpLine(conn)' = UpLine(conn) /\ DownLine(conn, T!Empty)' = DownLine(conn, T!Empty)
      BY <2>1, <2>3, <2>5 DEF UpLine, DownLine
    <2>8. T!UpStream' = T!UpStream /\ T!DownStream' = T!DownStream
      BY <2>1 DEF T!UpStream, T!DownStream
    <2>9. UpOK(conn)' BY <1>e, <2>1, <2>5, <2>7, <2>8 DEF UpOK
    <2>10. Excused(conn)' <=> Excused(conn) BY <2>1, <2>5 DEF Excused
    <2>11. DownOK(conn, T!Empty)' BY <1>e, <2>1, <2>5, <2>7, <2>8, <2>10 DEF DownOK
    <2>12. EndsOK(conn)' BY <1>e, <2>1, <2>5 DEF EndsOK
    <2>13. TcpLoopOK' BY <1>0, <1>x, <2>1, TcpRaise
    <2>14. TcpPeersOK' BY <1>0, <2>1, <2>3 DEF TcpPeersOK
    <2> QED BY <2>6, <2>9, <2>11, <2>12, <2>13, <2>14 DEF TcpInv, Faithful
  <1>14. CASE UNCHANGED T!vars
    <2>1. UNCHANGED <<conn, tcpEv, tcpBatch, tcpPolling, tcpRemoved, gone, timedOut,
                      upSent, downSent, clientGot, serverGot>>
      BY <1>14 DEF T!vars
    <2>2. Faithful(conn, T!Empty)' BY <1>0, <2>1, TcpStill
    <2> QED BY <1>0, <2>1, <2>2 DEF TcpInv, TcpLoopOK, TcpPeersOK
  <1> QED
    BY <1>1, <1>2, <1>3, <1>4, <1>5, <1>6, <1>7, <1>8, <1>9, <1>10, <1>11, <1>12, <1>13, <1>14
    DEF T!Next, T!Loop

\* A connection is accepted with the request head queued, plain or in its session.
LEMMA TcpInitially == MCInit => TcpInv
<1> SUFFICES ASSUME T!Init PROVE TcpInv
  BY DEF MCInit
<1>1. PICK h \in Handover : conn = T!NewConn(h) /\ tcpEv = IF h = "cold" THEN {"client"} ELSE T!Source
  BY DEF T!Init
<1>2. /\ tcpBatch = [x \in T!Source |-> {}] /\ tcpPolling = TRUE /\ tcpRemoved = FALSE
      /\ gone = FALSE /\ timedOut = FALSE
      /\ upSent = 0 /\ downSent = 0 /\ clientGot = T!Empty /\ serverGot = T!Empty
  BY DEF T!Init
<1>h. h \in {"cold", "hello", "warm"}
  BY ConstAssumption
<1>3. TcpLoopOK
  <2>1. tcpEv \subseteq T!Source
    BY <1>1 DEF T!Source
  <2>2. tcpBatch \in [T!Source -> SUBSET {"r", "w"}]
    BY <1>2
  <2> QED BY <1>2, <2>1, <2>2 DEF TcpLoopOK
<1>4. TcpPeersOK
  BY <1>2, BoundsAssumption, TEmpty DEF TcpPeersOK
<1> DEFINE a == <<0>>
<1>a. a \in Seq(Nat)
  OBVIOUS
<1>5. /\ conn.tls \in {"start", "sent", "done"}
      /\ (conn.tls = "done") <=> (h = "warm")
      /\ conn.client = "Connecting" /\ conn.server \in {"Connecting", "Established"}
      /\ conn.plain = (IF h = "warm" THEN T!Empty ELSE a)
      /\ conn.session = (IF h = "warm" THEN a ELSE T!Empty)
      /\ conn.sendBuffer = T!Empty
      /\ conn.cin = T!Empty /\ conn.cout = T!Empty /\ conn.sin = T!Empty /\ conn.sout = T!Empty
      /\ conn.cend = "open" /\ conn.send = "open" /\ conn.broken = FALSE
  BY <1>1, <1>h DEF T!NewConn
<1>6. Fit(conn)
  <2>1. conn \in T!ConnState
    BY <1>1, <1>h, <1>a, TEmpty DEF T!NewConn, T!ConnState, T!Status
  <2> QED BY <1>5, <2>1, TEmpty, ConstAssumption DEF Fit
<1>7. Stage(conn)
  BY <1>5 DEF Stage
<1>s. T!UpStream = a /\ T!DownStream = T!Empty
  <2>1. T!UpStream \in Seq(Nat) /\ Len(T!UpStream) = 1 /\ T!UpStream[1] = 0
        /\ T!DownStream \in Seq(Nat) /\ Len(T!DownStream) = 0
    BY <1>2, <1>4, StreamsType
  <2>2. T!DownStream = T!Empty
    BY <2>1, EmptySeq, TEmpty
  <2>3. Len(a) = 1 /\ a[1] = 0
    OBVIOUS
  <2> HIDE DEF a
  <2>4. \A i \in 1 .. Len(a) : a[i] = T!UpStream[i]
    BY <2>1, <2>3
  <2> QED BY <1>a, <2>1, <2>2, <2>3, <2>4, SeqEqual
<1> HIDE DEF a
<1>8. UpOK(conn)
  <2>1. UpLine(conn) = ((T!Empty \o T!Empty) \o conn.session) \o conn.plain
    BY <1>2, <1>5 DEF UpLine
  <2>2. UpLine(conn) = a
    BY <1>5, <1>a, <2>1, Joined, TEmpty
  <2>3. UpLine(conn) \o T!Empty = T!UpStream
    BY <1>a, <1>s, <2>2, Joined
  <2> QED BY <1>5, <2>3, TEmpty DEF UpOK
<1>9. DownOK(conn, T!Empty)
  <2>1. DownLine(conn, T!Empty) = ((T!Empty \o T!Empty) \o T!Empty) \o T!Empty
    BY <1>2, <1>5 DEF DownLine
  <2>2. DownLine(conn, T!Empty) \o T!Empty = T!DownStream
    BY <1>s, <2>1, Joined, TEmpty
  <2> QED BY <1>5, <2>2, TEmpty DEF DownOK
<1>10. EndsOK(conn)
  <2>1. ~T!IsShutdown(conn.client) /\ ~T!IsShutdown(conn.server)
    BY <1>5 DEF T!IsShutdown
  <2> QED BY <1>5, <2>1 DEF EndsOK
<1> QED BY <1>3, <1>4, <1>6, <1>7, <1>8, <1>9, <1>10 DEF TcpInv, Faithful

\* In every reachable state of the proxy, for any limits, what a connection has given
\* the server's socket is the request head and then what the client sent, in order
\* and without a gap, whether it was queued before or after the handshake; the client
\* gets the server's units in the same way; and a peer that closes after its last
\* unit has it delivered before the connection shuts the other side down.
THEOREM TcpRelayFaithful == MCSpec => []TcpInOrder
<1>1. MCInit => TcpInv
  BY TcpInitially
<1>2. TcpInv /\ [MCNext]_all => TcpInv'
  <2>1. [MCNext]_all => [T!Next]_(T!vars)
    BY DEF MCNext, TcpTurn, PoolTurn, UdpTurn, all, tcp, T!vars
  <2> QED BY <2>1, TcpInductive
<1>3. TcpInv => TcpInOrder
  <2> SUFFICES ASSUME TcpInv PROVE TcpInOrder
    OBVIOUS
  <2>1. Fit(conn) /\ Stage(conn) /\ UpOK(conn) /\ DownOK(conn, T!Empty) /\ EndsOK(conn) /\ TcpPeersOK
    BY DEF TcpInv, Faithful
  <2>2. T!TypeOK
    BY <2>1 DEF TcpInv, TcpLoopOK, TcpPeersOK, Fit, T!TypeOK
  <2>t. /\ conn.plain \in Seq(Nat) /\ conn.session \in Seq(Nat) /\ conn.sendBuffer \in Seq(Nat)
        /\ conn.cout \in Seq(Nat) /\ conn.sout \in Seq(Nat) /\ clientGot \in Seq(Nat) /\ serverGot \in Seq(Nat)
    BY <2>1, TFields DEF TcpPeersOK
  <2> DEFINE g == serverGot \o conn.sout
             b == clientGot \o conn.cout
  <2>g. g \in Seq(Nat) /\ b \in Seq(Nat)
    BY <2>t, Joined
  <2>3. PICK r \in Seq(Nat) : /\ UpLine(conn) \o r = T!UpStream
                              /\ r = conn.cin \/ (conn.broken /\ T!IsShutdown(conn.server))
    BY <2>1 DEF UpOK
  <2>4. PICK d \in Seq(Nat) : DownLine(conn, T!Empty) \o d = T!DownStream /\ (d = conn.sin \/ Excused(conn))
    BY <2>1 DEF DownOK
  <2>u. UpLine(conn) = (g \o conn.session) \o conn.plain
    BY DEF UpLine
  <2>d. DownLine(conn, T!Empty) = (b \o conn.sendBuffer) \o T!Empty
    BY DEF DownLine
  <2> HIDE DEF g, b
  <2>5. T!IsPrefixOf(g, T!UpStream)
    <3> DEFINE x == conn.session \o conn.plain
               y == x \o r
    <3>1. x \in Seq(Nat)
      BY <2>t, Joined
    <3>2. UpLine(conn) = g \o x
      <4>1. g \in Seq(Nat) /\ conn.session \in Seq(Nat) /\ conn.plain \in Seq(Nat)
        BY <2>g, <2>t
      <4>2. (g \o conn.session) \o conn.plain = g \o (conn.session \o conn.plain)
        BY <4>1, Joins, ZenonT(30)
      <4> QED BY <2>u, <4>2
    <3> HIDE DEF x
    <3>3. y \in Seq(Nat)
      BY <3>1, Joined
    <3>4. (g \o x) \o r = g \o (x \o r)
      BY ZenonT(60), <2>g, <3>1, Joins
    <3>5. g \o y = T!UpStream
      BY <2>3, <3>2, <3>4
    <3> HIDE DEF y
    <3> QED BY <2>g, <3>3, <3>5, FrontIsPrefix
  <2>6. T!IsPrefixOf(b, T!DownStream)
    <3> DEFINE y == conn.sendBuffer \o d
    <3>1. b \o conn.sendBuffer \in Seq(Nat)
      BY <2>g, <2>t, Joined
    <3>2. DownLine(conn, T!Empty) = b \o conn.sendBuffer
      BY <2>d, <3>1, Joined
    <3>3. y \in Seq(Nat)
      BY <2>t, Joined
    <3>4. (b \o conn.sendBuffer) \o d = b \o (conn.sendBuffer \o d)
      <4>1. b \in Seq(Nat) /\ conn.sendBuffer \in Seq(Nat) /\ d \in Seq(Nat)
        BY <2>g, <2>t
      <4> QED BY <4>1, Joins, ZenonT(30)
    <3>5. b \o y = T!DownStream
      BY <2>4, <3>2, <3>4
    <3> HIDE DEF y
    <3> QED BY <2>g, <3>3, <3>5, FrontIsPrefix
  <2>7. T!StreamsInOrder
    BY <2>2, <2>5, <2>6 DEF T!StreamsInOrder, g, b
  <2>8. T!FlushedToClient
    <3> SUFFICES ASSUME conn.send = "fin", conn.cend = "open", T!IsShutdown(conn.client), ~conn.broken, ~timedOut
                 PROVE  b = T!DownStream
      BY DEF T!FlushedToClient, b
    <3>1. T!IsShutdown(conn.server) /\ conn.sendBuffer = T!Empty /\ conn.sin = T!Empty
      BY <2>1 DEF EndsOK
    <3>2. d = T!Empty
      BY <2>4, <3>1 DEF Excused
    <3>3. ((b \o T!Empty) \o T!Empty) \o T!Empty = T!DownStream
      BY <2>4, <2>d, <3>1, <3>2
    <3> QED BY <2>g, <3>3, Joined
  <2>9. T!FlushedToServer
    <3> SUFFICES ASSUME conn.cend = "fin", conn.send = "open", conn.tls = "done",
                        T!IsShutdown(conn.server), ~conn.broken, ~timedOut
                 PROVE  g = T!UpStream
      BY DEF T!FlushedToServer, g
    <3>1. T!IsShutdown(conn.client) /\ conn.session = T!Empty /\ conn.cin = T!Empty
      BY <2>1 DEF EndsOK
    <3>2. conn.plain = T!Empty
      BY <2>1 DEF Stage
    <3>3. ((g \o T!Empty) \o T!Empty) \o T!Empty = T!UpStream
      BY <2>3, <2>u, <3>1, <3>2
    <3> QED BY <2>g, <3>3, Joined
  <2> QED BY <2>7, <2>8, <2>9 DEF TcpInOrder, T!Flushed
<1> QED BY <1>1, <1>2, <1>3, PTL DEF MCSpec

-----------------------------------------------------------------------------
(* The idle pool *)

\* A bounded set of numbers has a greatest one.
LEMMA GreatestOf ==
    ASSUME NEW n \in Nat, NEW A \in SUBSET (1 .. n), A # {}
    PROVE  \E m \in A : \A k \in A : k <= m
<1> DEFINE B == {n - k : k \in A}
<1>0. \A k \in A : k \in Nat /\ k <= n
  OBVIOUS
<1>1. B \in SUBSET Nat /\ B # {}
  <2>1. \A k \in A : n - k \in Nat
    BY <1>0
  <2> QED BY <2>1
<1> HIDE DEF B
<1>2. PICK b \in B : \A e \in B : b <= e
  BY <1>1, LeastOf
<1>3. PICK m \in A : b = n - m
  BY DEF B
<1>4. \A k \in A : n - k \in B
  BY DEF B
<1>5. \A k \in A : k <= m
  <2> TAKE k \in A
  <2>1. n - m <= n - k /\ k \in 1 .. n /\ m \in 1 .. n
    BY <1>2, <1>3, <1>4
  <2> QED BY <2>1
<1> QED BY <1>5

LEMMA PCard == ASSUME NEW S PROVE P!Cardinality(S) = Cardinality(S)
BY ZenonT(60) DEF P!Cardinality, Cardinality

\* The numbers of F up to i.
UpTo(F, i) == {j \in F : j <= i}

\* F has a k-th element if it has k elements.
LEMMA KthExists ==
    ASSUME NEW n \in Nat, NEW F \in SUBSET (1 .. n), NEW k \in 1 .. Cardinality(F)
    PROVE  \E i \in F : Cardinality(UpTo(F, i)) = k
<1>0. \A j \in F : j \in Nat /\ 1 <= j /\ j <= n
  OBVIOUS
<1>1. IsFiniteSet(F) /\ Cardinality(F) \in Nat
  <2>1. IsFiniteSet(1 .. n)
    BY FS_Interval
  <2>2. IsFiniteSet(F)
    BY <2>1, FS_Subset
  <2> QED BY <2>2, FS_CardinalityType
<1>2. \A i : UpTo(F, i) \in SUBSET F
  BY DEF UpTo
<1>3. \A i : IsFiniteSet(UpTo(F, i)) /\ Cardinality(UpTo(F, i)) \in Nat
  BY <1>1, <1>2, FS_Subset, FS_CardinalityType
<1> DEFINE S == {i \in 0 .. n : k <= Cardinality(UpTo(F, i))}
<1>4. n \in S
  <2>1. UpTo(F, n) = F
    BY <1>0 DEF UpTo
  <2> QED BY <1>1, <2>1
<1>5. S \in SUBSET Nat /\ S # {}
  BY <1>4
<1> HIDE DEF S
<1>6. PICK m \in S : \A i \in S : m <= i
  BY <1>5, LeastOf
<1>7. m \in 0 .. n /\ k <= Cardinality(UpTo(F, m))
  BY DEF S
<1>8. m # 0
  <2>0. \A j \in F : ~(j <= 0)
    BY <1>0
  <2>1. UpTo(F, 0) = {}
    BY <2>0 DEF UpTo
  <2>2. Cardinality(UpTo(F, 0)) = 0
    BY <2>1, FS_EmptySet
  <2> QED BY <1>7, <2>2
<1> DEFINE p == m - 1
<1>9. p \in 0 .. n /\ p < m /\ m = p + 1
  BY <1>7, <1>8
<1>10. Cardinality(UpTo(F, p)) < k
  <2>1. p \notin S
    BY <1>6, <1>9
  <2>2. ~(k <= Cardinality(UpTo(F, p)))
    BY <1>9, <2>1 DEF S
  <2> QED BY <1>3, <2>2
<1> HIDE DEF p
<1>a. \A j \in F : (j <= m) <=> (j <= p \/ j = m)
  BY <1>0, <1>9
<1>b. ~(m <= p)
  BY <1>9
<1>11. m \in F
  <2> SUFFICES ASSUME m \notin F PROVE FALSE
    OBVIOUS
  <2>1. UpTo(F, m) = UpTo(F, p)
    BY <1>a DEF UpTo
  <2> QED BY <1>3, <1>7, <1>10, <2>1
<1>12. UpTo(F, m) = UpTo(F, p) \cup {m} /\ m \notin UpTo(F, p)
  BY <1>a, <1>b, <1>11 DEF UpTo
<1>13. Cardinality(UpTo(F, m)) = Cardinality(UpTo(F, p)) + 1
  BY <1>3, <1>12, FS_AddElement
<1>14. Cardinality(UpTo(F, m)) = k
  BY <1>3, <1>7, <1>10, <1>13
<1> QED BY <1>11, <1>14

-----------------------------------------------------------------------------
(* New connections *)

Idx(q) == {q[k].index : k \in 1 .. Len(q)}
Distinct(q) == \A j, k \in 1 .. Len(q) : j # k => q[j].index # q[k].index
Open(q) == \A k \in 1 .. Len(q) : ~P!IsShutdown(q[k].status)

\* The connections with an event in the batch.
Eventful == {x \in 1 .. MaxIndex : poolBatch[x] # {}}

LEMMA Bounds ==
    /\ Size \in Nat /\ Size > 0 /\ MaxIndex \in Nat /\ MaxIndex > 2 * Size
    /\ MaxLookups \in Nat /\ MaxLookups > 0 /\ MaxMoves \in Nat /\ IsFiniteSet(Addrs)
BY BoundsAssumption

LEMMA ConnFields ==
    ASSUME NEW r \in P!Conn
    PROVE  r.index \in 1 .. MaxIndex /\ r.index \in Nat /\ r.index # 0 /\ r.status \in P!Status
BY Bounds DEF P!Conn

LEMMA IdxSize ==
    ASSUME NEW q \in Seq(P!Conn)
    PROVE  /\ IsFiniteSet(Idx(q)) /\ Cardinality(Idx(q)) \in Nat /\ Cardinality(Idx(q)) <= Len(q)
           /\ Idx(q) \subseteq 1 .. MaxIndex
<1> DEFINE n == Len(q)
<1> DEFINE f == [k \in 1 .. n |-> q[k].index]
<1>1. n \in Nat /\ \A k \in 1 .. n : q[k] \in P!Conn
  OBVIOUS
<1>2. f \in Surjection(1 .. n, Idx(q))
  BY <1>1 DEF Surjection, Idx
<1>3. IsFiniteSet(1 .. n) /\ Cardinality(1 .. n) = n
  <2>1. 1 \in Int /\ n \in Int
    BY <1>1
  <2>2. IsFiniteSet(1 .. n) /\ Cardinality(1 .. n) = IF 1 > n THEN 0 ELSE n - 1 + 1
    BY <2>1, FS_Interval
  <2> QED BY <1>1, <2>2
<1> HIDE DEF f, n
<1>4. IsFiniteSet(Idx(q)) /\ Cardinality(Idx(q)) <= n
  BY <1>2, <1>3, FS_Surjection
<1>5. Cardinality(Idx(q)) \in Nat
  BY <1>4, FS_CardinalityType
<1>6. Idx(q) \subseteq 1 .. MaxIndex
  BY <1>1, ConnFields DEF Idx, n
<1> QED BY <1>4, <1>5, <1>6 DEF n

LEMMA EventfulFinite == IsFiniteSet(Eventful) /\ Cardinality(Eventful) \in Nat
<1>1. IsFiniteSet(1 .. MaxIndex)
  BY Bounds, FS_Interval
<1>2. Eventful \in SUBSET (1 .. MaxIndex)
  BY DEF Eventful
<1> HIDE DEF Eventful
<1>3. IsFiniteSet(Eventful)
  BY <1>1, <1>2, FS_Subset
<1> QED BY <1>3, FS_CardinalityType

\* The indexes that are free suffice to fill the pool up.
LEMMA EnoughFree ==
    ASSUME NEW q \in Seq(P!Conn), Len(q) <= Size, poolEv \subseteq Idx(q) \cup {0}, Cardinality(Eventful) <= Size,
           NEW F, F = (1 .. MaxIndex) \ P!Taken(q)
    PROVE  F \in SUBSET (1 .. MaxIndex) /\ F \cap Idx(q) = {} /\ Cardinality(F) \in Nat /\ Size - Len(q) <= Cardinality(F)
<1> DEFINE A == Idx(q)
<1> DEFINE N == 1 .. MaxIndex
<1> DEFINE U == A \cup Eventful
<1>1. IsFiniteSet(A) /\ Cardinality(A) \in Nat /\ Cardinality(A) <= Len(q) /\ A \subseteq N
  BY IdxSize
<1>2. F = N \ U
  <2>1. P!Taken(q) = A \cup poolEv \cup {x \in 0 .. MaxIndex : poolBatch[x] # {}}
    BY DEF P!Taken, P!Source, Idx
  <2>2. 0 \notin N /\ N \subseteq 0 .. MaxIndex
    BY Bounds
  <2> QED BY <2>1, <2>2 DEF Eventful
<1>3. IsFiniteSet(Eventful) /\ Cardinality(Eventful) \in Nat
  BY EventfulFinite
<1>4. IsFiniteSet(N) /\ Cardinality(N) = MaxIndex
  <2>1. 1 \in Int /\ MaxIndex \in Int
    BY Bounds
  <2>2. IsFiniteSet(1 .. MaxIndex) /\ Cardinality(1 .. MaxIndex) = IF 1 > MaxIndex THEN 0 ELSE MaxIndex - 1 + 1
    BY <2>1, FS_Interval
  <2> QED BY Bounds, <2>2
<1> HIDE DEF A, N
<1>5. IsFiniteSet(U) /\ Cardinality(U) <= Cardinality(A) + Cardinality(Eventful) /\ Cardinality(U) \in Nat
  <2>1. IsFiniteSet(U) /\ Cardinality(U) = Cardinality(A) + Cardinality(Eventful) - Cardinality(A \cap Eventful)
    BY <1>1, <1>3, FS_Union
  <2>2. IsFiniteSet(A \cap Eventful)
    BY <1>1, FS_Intersection
  <2>3. Cardinality(A \cap Eventful) \in Nat
    BY <2>2, FS_CardinalityType
  <2>4. Cardinality(U) \in Nat
    BY <2>1, FS_CardinalityType
  <2> QED BY <1>1, <1>3, <2>1, <2>3, <2>4
<1> HIDE DEF U
<1>6. IsFiniteSet(N \ U) /\ Cardinality(N \ U) = Cardinality(N) - Cardinality(N \cap U)
  BY <1>4, FS_Difference
<1>7. Cardinality(N \cap U) <= Cardinality(U) /\ IsFiniteSet(N \cap U)
  BY <1>5, FS_Intersection
<1>8. Cardinality(N \cap U) \in Nat /\ Cardinality(N \ U) \in Nat
  BY <1>6, <1>7, FS_CardinalityType
<1>9. Len(q) \in Nat
  OBVIOUS
<1>10. Size - Len(q) <= Cardinality(F)
  <2> DEFINE cu == Cardinality(U)
  <2> DEFINE ca == Cardinality(A)
  <2> DEFINE ce == Cardinality(Eventful)
  <2> DEFINE cn == Cardinality(N \cap U)
  <2> DEFINE m == Len(q)
  <2>1. /\ ca \in Nat /\ ca <= m /\ ce \in Nat /\ ce <= Size /\ cu \in Nat /\ cu <= ca + ce
        /\ cn \in Nat /\ cn <= cu /\ m \in Nat
    BY <1>1, <1>3, <1>5, <1>7, <1>8, <1>9
  <2>2. Cardinality(F) = MaxIndex - cn
    BY <1>2, <1>4, <1>6
  <2> HIDE DEF ca, ce, cu, cn, m
  <2>3. MaxIndex - cn >= Size - m
    BY <2>1, Bounds
  <2> QED BY <2>2, <2>3, <1>8, <1>2, Bounds, <2>1 DEF m
<1> QED BY <1>2, <1>8, <1>10 DEF N, U, A

\* Every call of next_index finds a free index.
LEMMA NextFree ==
    ASSUME NEW q \in Seq(P!Conn), Len(q) <= Size, poolEv \subseteq Idx(q) \cup {0}, Cardinality(Eventful) <= Size,
           NEW n \in 0 .. Size - Len(q), NEW F, F = (1 .. MaxIndex) \ P!Taken(q)
    PROVE  \A k \in 1 .. n : P!NextIndex(q, k) \in F /\ Cardinality(UpTo(F, P!NextIndex(q, k))) = k
<1>0. Len(q) \in Nat /\ n \in Nat /\ n <= Size - Len(q)
  BY Bounds
<1>1. F \in SUBSET (1 .. MaxIndex) /\ Cardinality(F) \in Nat /\ Size - Len(q) <= Cardinality(F)
  BY EnoughFree
<1> QED
  <2> TAKE k \in 1 .. n
  <2>1. k \in 1 .. Cardinality(F)
    BY <1>0, <1>1, Bounds
  <2>2. \E i \in F : Cardinality(UpTo(F, i)) = k
    <3>1. MaxIndex \in Nat /\ F \in SUBSET (1 .. MaxIndex)
      BY <1>1, Bounds
    <3> QED BY ZenonT(60), <2>1, <3>1, KthExists
  <2>3. P!NextIndex(q, k) = CHOOSE i \in F : Cardinality(UpTo(F, i)) = k
    <3>1. P!NextIndex(q, k) = CHOOSE i \in F : P!Cardinality(UpTo(F, i)) = k
      BY ZenonT(60) DEF P!NextIndex, UpTo
    <3>2. \A S : P!Cardinality(S) = Cardinality(S)
      BY PCard
    <3> QED BY <3>1, <3>2
  <2> QED BY <2>2, <2>3

\* alloc adds connections with new indexes.
LEMMA Alloced ==
    ASSUME NEW q \in Seq(P!Conn), Len(q) <= Size, poolEv \subseteq Idx(q) \cup {0}, Cardinality(Eventful) <= Size,
           Distinct(q), Open(q), addr \in Addrs, NEW n \in 0 .. Size - Len(q), NEW a, a = P!Alloc(q, n)
    PROVE  /\ a \in Seq(P!Conn) /\ Len(a) = Len(q) + n /\ Distinct(a) /\ Open(a)
           /\ \A k \in 1 .. Len(q) : a[k] = q[k]
<1> DEFINE F == (1 .. MaxIndex) \ P!Taken(q)
<1> DEFINE x == [k \in 1 .. n |-> P!NewConn(P!NextIndex(q, k))]
<1>0. Len(q) \in Nat /\ n \in Nat /\ n <= Size - Len(q)
  BY Bounds
<1>1. F \in SUBSET (1 .. MaxIndex) /\ F \cap Idx(q) = {} /\ Cardinality(F) \in Nat /\ Size - Len(q) <= Cardinality(F)
  BY EnoughFree
<1> HIDE DEF F
<1>2. \A k \in 1 .. n : P!NextIndex(q, k) \in F /\ Cardinality(UpTo(F, P!NextIndex(q, k))) = k
  BY NextFree DEF F
<1>3. \A j, k \in 1 .. n : j # k => P!NextIndex(q, j) # P!NextIndex(q, k)
  BY <1>2
<1>4. \A k \in 1 .. n : x[k] = P!NewConn(P!NextIndex(q, k)) 
  OBVIOUS
<1>5. x \in [1 .. n -> P!Conn] /\ \A k \in 1 .. n : x[k].index = P!NextIndex(q, k) /\ ~P!IsShutdown(x[k].status)
  <2>1. \A i \in F : /\ P!NewConn(i) \in P!Conn /\ P!NewConn(i).index = i
                     /\ ~P!IsShutdown(P!NewConn(i).status)
    BY <1>1 DEF P!NewConn, P!Conn, P!Status, P!IsShutdown
  <2> QED BY <1>2, <2>1
<1> HIDE DEF x
<1>6. x \in Seq(P!Conn) /\ Len(x) = n
  <2>1. x \in Seq(P!Conn)
    BY <1>0, <1>5, SeqDef
  <2>2. Len(x) \in Nat /\ 1 .. n = 1 .. Len(x)
    BY <1>5, <2>1, LenProperties
  <2>3. (n \in 1 .. n <=> n \in 1 .. Len(x)) /\ (Len(x) \in 1 .. n <=> Len(x) \in 1 .. Len(x))
    BY <2>2
  <2> QED BY <1>0, <2>1, <2>2, <2>3
<1>7. a = q \o x
  BY DEF P!Alloc, x
<1>8. /\ a \in Seq(P!Conn) /\ Len(a) = Len(q) + n
      /\ \A k \in 1 .. Len(a) : a[k] = IF k <= Len(q) THEN q[k] ELSE x[k - Len(q)]
  <2>1. a \in Seq(P!Conn) /\ Len(a) = Len(q) + Len(x)
    BY <1>6, <1>7, ConcatProperties
  <2>2. \A k \in 1 .. Len(q) + Len(x) : (q \o x)[k] = IF k <= Len(q) THEN q[k] ELSE x[k - Len(q)]
    BY <1>6, ConcatProperties
  <2> QED BY <1>6, <1>7, <2>1, <2>2
<1>9. \A k \in 1 .. Len(a) : k <= Len(q) \/ k - Len(q) \in 1 .. n
  BY <1>0, <1>8
<1>10. \A k \in 1 .. Len(q) : q[k].index \notin F
  BY <1>1 DEF Idx
<1>11. \A k \in 1 .. n : x[k].index \in F
  BY <1>2, <1>5
<1>12. \A k \in 1 .. Len(a) : /\ k <= Len(q) => k \in 1 .. Len(q) /\ a[k] = q[k]
                              /\ ~(k <= Len(q)) => k - Len(q) \in 1 .. n /\ a[k] = x[k - Len(q)]
  BY <1>0, <1>8
<1>13. Distinct(a)
  <2> SUFFICES ASSUME NEW j \in 1 .. Len(a), NEW k \in 1 .. Len(a), j # k, a[j].index = a[k].index PROVE FALSE
    BY DEF Distinct
  <2>a. /\ j <= Len(q) => j \in 1 .. Len(q) /\ a[j] = q[j]
        /\ ~(j <= Len(q)) => j - Len(q) \in 1 .. n /\ a[j] = x[j - Len(q)]
    BY ZenonT(60), <1>12
  <2>b. /\ k <= Len(q) => k \in 1 .. Len(q) /\ a[k] = q[k]
        /\ ~(k <= Len(q)) => k - Len(q) \in 1 .. n /\ a[k] = x[k - Len(q)]
    BY ZenonT(60), <1>12
  <2>1. CASE j <= Len(q) /\ k <= Len(q)
    BY <2>1, <2>a, <2>b DEF Distinct
  <2>2. CASE ~(j <= Len(q)) /\ ~(k <= Len(q))
    <3>1. j - Len(q) \in 1 .. n /\ k - Len(q) \in 1 .. n /\ a[j] = x[j - Len(q)] /\ a[k] = x[k - Len(q)]
      BY <1>12, <2>2
    <3>2. j - Len(q) # k - Len(q)
      BY <1>0, <1>8
    <3> QED BY <1>3, <1>5, <3>1, <3>2
  <2>3. CASE j <= Len(q) /\ ~(k <= Len(q))
    BY <1>10, <1>11, <2>3, <2>a, <2>b
  <2>4. CASE ~(j <= Len(q)) /\ k <= Len(q)
    BY <1>10, <1>11, <2>4, <2>a, <2>b
  <2> QED BY <2>1, <2>2, <2>3, <2>4
<1>14. Open(a)
  <2> SUFFICES ASSUME NEW k \in 1 .. Len(a) PROVE ~P!IsShutdown(a[k].status)
    BY DEF Open
  <2>b. /\ k <= Len(q) => k \in 1 .. Len(q) /\ a[k] = q[k]
        /\ ~(k <= Len(q)) => k - Len(q) \in 1 .. n /\ a[k] = x[k - Len(q)]
    BY ZenonT(60), <1>12
  <2> QED BY <1>5, <2>b DEF Open
<1>15. \A k \in 1 .. Len(q) : k \in 1 .. Len(a) /\ k <= Len(q)
  BY <1>0, <1>8
<1> QED BY <1>8, <1>12, <1>13, <1>14, <1>15
-----------------------------------------------------------------------------
(* swap_remove *)

LEMMA SwapRemoved ==
    ASSUME NEW q \in Seq(P!Conn), Distinct(q), NEW k \in 1 .. Len(q), NEW a, a = P!SwapRemove(q, k)
    PROVE  /\ a \in Seq(P!Conn) /\ Len(a) = Len(q) - 1 /\ Distinct(a) /\ Idx(a) = Idx(q) \ {q[k].index}
           /\ \A j \in 1 .. Len(q) - 1 : a[j] = IF j = k THEN q[Len(q)] ELSE q[j]
<1> DEFINE n == Len(q)
<1> DEFINE m == n - 1
<1>1. n \in Nat /\ m \in Nat /\ k \in 1 .. n /\ n \in 1 .. n /\ \A j \in 1 .. n : q[j] \in P!Conn
  OBVIOUS
<1>2. a = [j \in 1 .. m |-> IF j = k THEN q[n] ELSE q[j]]
  BY DEF P!SwapRemove
<1>3. \A j \in 1 .. m : j \in 1 .. n /\ j # n
  BY <1>1
<1>i. \A j \in 1 .. n : j \in 1 .. m \/ j = n
  BY <1>1
<1>k. k # n => k \in 1 .. m
  BY <1>1
<1>4. \A j \in 1 .. n : q[j] \in P!Conn
  BY <1>1
<1> HIDE DEF m, n
<1>5. \A j \in 1 .. m : a[j] = IF j = k THEN q[n] ELSE q[j]
  BY <1>2
<1>6. a \in [1 .. m -> P!Conn]
  BY <1>1, <1>2, <1>3, <1>4
<1>7. a \in Seq(P!Conn) /\ Len(a) = m
  <2>1. a \in Seq(P!Conn)
    BY <1>1, <1>6, SeqDef
  <2>2. Len(a) \in Nat /\ 1 .. m = 1 .. Len(a)
    BY <1>6, <2>1, LenProperties
  <2>3. (m \in 1 .. m <=> m \in 1 .. Len(a)) /\ (Len(a) \in 1 .. m <=> Len(a) \in 1 .. Len(a))
    BY <2>2
  <2> QED BY <1>1, <2>1, <2>2, <2>3
<1>8. \A i, j \in 1 .. n : i # j => q[i].index # q[j].index
  BY DEF Distinct, n
<1>9. Distinct(a)
  <2> SUFFICES ASSUME NEW i \in 1 .. m, NEW j \in 1 .. m, i # j PROVE a[i].index # a[j].index
    BY <1>7 DEF Distinct
  <2> QED BY SMTT(30), <1>1, <1>3, <1>5, <1>8
<1>10. Idx(a) = Idx(q) \ {q[k].index}
  <2>1. Idx(a) = {a[j].index : j \in 1 .. m} /\ Idx(q) = {q[j].index : j \in 1 .. n}
    BY <1>7 DEF Idx, n
  <2>2. \A j \in 1 .. m : a[j].index \in {q[i].index : i \in 1 .. n} /\ a[j].index # q[k].index
    BY <1>1, <1>3, <1>5, <1>8
  <2>3. \A i \in 1 .. n : i # k => q[i].index \in {a[j].index : j \in 1 .. m}
    <3> TAKE i \in 1 .. n
    <3> HAVE i # k
    <3>1. CASE i = n
      <4>1. k \in 1 .. m /\ a[k] = q[i]
        BY <1>5, <1>k, <3>1
      <4> QED BY <4>1
    <3>2. CASE i # n
      <4>1. i \in 1 .. m /\ a[i] = q[i]
        BY <1>5, <1>i, <3>2
      <4> QED BY <4>1
    <3> QED BY <3>1, <3>2
  <2> QED BY <2>1, <2>2, <2>3
<1> QED BY <1>5, <1>7, <1>9, <1>10 DEF m, n

\* One turn of the last loop of check_timeout.
Turn(q, dead, f, k) ==
    IF k = Len(q) + 1 THEN q ELSE IF k \in dead THEN P!SwapRemove(f[k + 1], k) ELSE f[k + 1]

\* The loop, from its last turn to its first.
LEMMA SweepExists ==
    ASSUME NEW q, Len(q) \in Nat, NEW dead
    PROVE  \E f : f = [k \in 1 .. Len(q) + 1 |-> Turn(q, dead, f, k)]
<1> DEFINE n == Len(q)
<1> DEFINE Good(m) == \E f : f = [k \in m .. n + 1 |-> Turn(q, dead, f, k)]
<1> DEFINE S == {m \in 1 .. n + 1 : Good(m)}
<1>1. n + 1 \in S
  <2> DEFINE f == [k \in n + 1 .. n + 1 |-> q]
  <2>1. f = [k \in n + 1 .. n + 1 |-> Turn(q, dead, f, k)]
    <3>1. \A k \in n + 1 .. n + 1 : k = n + 1
      OBVIOUS
    <3>2. \A k \in n + 1 .. n + 1 : Turn(q, dead, f, k) = q
      BY <3>1 DEF Turn
    <3> HIDE DEF n
    <3> QED BY <3>2
  <2> HIDE DEF f
  <2>2. Good(n + 1)
    BY <2>1
  <2> QED BY <2>2
<1>2. S \in SUBSET Nat /\ S # {}
  <2>1. 1 .. n + 1 \subseteq Nat
    OBVIOUS
  <2> HIDE DEF Good
  <2> QED BY <1>1, <2>1
<1>3. PICK m \in S : \A i \in S : m <= i
  <2> HIDE DEF S
  <2> QED BY <1>2, LeastOf
<1>4. m \in 1 .. n + 1 /\ Good(m)
  OBVIOUS
<1>5. CASE m = 1
  BY <1>4, <1>5
<1>6. CASE m # 1
  <2> DEFINE p == m - 1
  <2>1. p \in 1 .. n + 1 /\ p # n + 1 /\ p + 1 = m /\ ~(m <= p) /\ m \in m .. n + 1
    BY <1>4, <1>6
  <2>2. \A k \in p .. n + 1 : k = p \/ (k \in m .. n + 1 /\ k # p)
    BY <1>4, <1>6
  <2>3. \A k \in m .. n + 1 : k \in p .. n + 1 /\ (k # n + 1 => k + 1 \in m .. n + 1 /\ k + 1 # p) /\ k # p
    BY <1>4, <1>6
  <2>a. p \in p .. n + 1
    BY <2>1
  <2> HIDE DEF p
  <2>4. PICK g : g = [k \in m .. n + 1 |-> Turn(q, dead, g, k)]
    BY <1>4
  <2> DEFINE f == [k \in p .. n + 1 |-> IF k = p THEN Turn(q, dead, g, p) ELSE g[k]]
  <2>5. \A k \in m .. n + 1 : f[k] = g[k]
    BY <2>3
  <2>6. Turn(q, dead, f, p) = Turn(q, dead, g, p)
    <3>1. f[p + 1] = g[p + 1]
      BY <2>1, <2>5
    <3> HIDE DEF f
    <3> QED BY <3>1 DEF Turn
  <2>7. \A k \in m .. n + 1 : Turn(q, dead, f, k) = Turn(q, dead, g, k)
    <3> TAKE k \in m .. n + 1
    <3>1. k # n + 1 => f[k + 1] = g[k + 1]
      BY <2>3, <2>5
    <3> QED BY <3>1 DEF Turn
  <2>8. \A k \in m .. n + 1 : g[k] = Turn(q, dead, g, k)
    <3> DEFINE h == [k \in m .. n + 1 |-> Turn(q, dead, g, k)]
    <3>1. \A k \in m .. n + 1 : h[k] = Turn(q, dead, g, k)
      OBVIOUS
    <3>2. g = h
      BY <2>4
    <3> HIDE DEF h
    <3> QED BY <3>1, <3>2
  <2>9. \A k \in p .. n + 1 : f[k] = Turn(q, dead, f, k)
    <3> TAKE k \in p .. n + 1
    <3>1. CASE k = p
      BY <2>6, <2>a, <3>1
    <3>2. CASE k # p
      <4>1. k \in m .. n + 1
        BY <2>2, <3>2
      <4> QED BY <2>5, <2>7, <2>8, <4>1
    <3> QED BY <3>1, <3>2
  <2>10. f = [k \in p .. n + 1 |-> Turn(q, dead, f, k)]
    <3>1. f = [k \in p .. n + 1 |-> f[k]]
      OBVIOUS
    <3> HIDE DEF f
    <3> QED BY <2>9, <3>1
  <2> HIDE DEF f
  <2>11. Good(p)
    BY <2>10
  <2>12. p \in S
    BY <2>1, <2>11
  <2> QED BY <1>3, <2>1, <2>12
<1> QED BY <1>5, <1>6
\* What is left when the turns from the last down to the k-th are over: the places
\* before the k-th are as they were, and none after it is dead.
Live(q, dead, k) == {i \in 1 .. Len(q) : i < k \/ i \notin dead}
SweptTo(q, dead, k, s) ==
    /\ s \in Seq(P!Conn) /\ Distinct(s) /\ k <= Len(s) + 1 /\ Len(s) <= Len(q)
    /\ \A j \in 1 .. Len(s) : IF j < k THEN s[j] = q[j] ELSE \E i \in 1 .. Len(q) : i \notin dead /\ s[j] = q[i]
    /\ Idx(s) = {q[i].index : i \in Live(q, dead, k)}

LEMMA SweepTurn ==
    ASSUME NEW q \in Seq(P!Conn), Distinct(q), NEW dead, NEW p \in 1 .. Len(q), NEW s, SweptTo(q, dead, p + 1, s)
    PROVE  SweptTo(q, dead, p, IF p \in dead THEN P!SwapRemove(s, p) ELSE s)
<1> DEFINE n == Len(q)
<1> DEFINE l == Len(s)
<1>1. /\ n \in Nat /\ l \in Nat /\ p \in Nat /\ 1 <= p /\ p <= n /\ p <= l /\ l <= n
      /\ s \in Seq(P!Conn) /\ Distinct(s)
  BY DEF SweptTo
<1>2. \A j \in 1 .. l : IF j < p + 1 THEN s[j] = q[j] ELSE \E i \in 1 .. n : i \notin dead /\ s[j] = q[i]
  BY DEF SweptTo
<1>3. Idx(s) = {q[i].index : i \in Live(q, dead, p + 1)}
  BY DEF SweptTo
<1>4. \A j \in 1 .. l : j \in Nat /\ (j < p + 1 <=> (j < p \/ j = p)) /\ ~(p < p)
  BY <1>1
<1>5. p \in 1 .. l /\ s[p] = q[p]
  BY <1>1, <1>2, <1>4
<1>6. Live(q, dead, p + 1) = Live(q, dead, p) \cup {p}
  BY <1>1 DEF Live
<1>7. CASE p \notin dead
  <2>1. Live(q, dead, p + 1) = Live(q, dead, p)
    BY <1>1, <1>7 DEF Live
  <2>2. \A j \in 1 .. l : IF j < p THEN s[j] = q[j] ELSE \E i \in 1 .. n : i \notin dead /\ s[j] = q[i]
    <3> TAKE j \in 1 .. l
    <3>1. CASE j < p
      BY <1>2, <1>4, <3>1
    <3>2. CASE j = p
      BY <1>4, <1>5, <1>7, <3>2
    <3>3. CASE ~(j < p + 1)
      BY <1>2, <1>4, <3>3
    <3> QED BY <1>4, <3>1, <3>2, <3>3
  <2>3. p <= l + 1
    BY <1>1
  <2> QED BY <1>1, <1>3, <1>7, <2>1, <2>2, <2>3 DEF SweptTo
<1>8. CASE p \in dead
  <2> DEFINE a == P!SwapRemove(s, p)
  <2>1. /\ a \in Seq(P!Conn) /\ Len(a) = l - 1 /\ Distinct(a) /\ Idx(a) = Idx(s) \ {s[p].index}
        /\ \A j \in 1 .. l - 1 : a[j] = IF j = p THEN s[l] ELSE s[j]
    <3>0. a = P!SwapRemove(s, p) /\ p \in 1 .. Len(s)
      BY <1>5
    <3> HIDE DEF a
    <3>1. s \in Seq(P!Conn) /\ Distinct(s)
      BY <1>1
    <3>2. a \in Seq(P!Conn) /\ Len(a) = Len(s) - 1 /\ Distinct(a) 
      BY <3>0, <3>1, SwapRemoved
    <3>3. Idx(a) = Idx(s) \ {s[p].index}
      BY <3>0, <3>1, SwapRemoved
    <3>4. \A j \in 1 .. Len(s) - 1 : a[j] = IF j = p THEN s[Len(s)] ELSE s[j]
      BY <3>0 DEF P!SwapRemove
    <3> QED BY <3>2, <3>3, <3>4
  <2> HIDE DEF a
  <2>2. Idx(a) = {q[i].index : i \in Live(q, dead, p)}
    <3>1. p \notin Live(q, dead, p) /\ Live(q, dead, p) \subseteq 1 .. n
      BY <1>1, <1>8 DEF Live
    <3>2. \A i \in Live(q, dead, p) : q[i].index # q[p].index
      BY <1>1, <3>1 DEF Distinct
    <3> QED BY <1>3, <1>5, <1>6, <2>1, <3>2
  <2>3. \A j \in 1 .. l - 1 : IF j < p THEN a[j] = q[j] ELSE \E i \in 1 .. n : i \notin dead /\ a[j] = q[i]
    <3> TAKE j \in 1 .. l - 1
    <3>1. j \in 1 .. l /\ l \in 1 .. l /\ j < l /\ a[j] = IF j = p THEN s[l] ELSE s[j]
      BY <1>1, <2>1
    <3>2. CASE j < p
      BY <1>2, <1>4, <3>1, <3>2
    <3>3. CASE j = p
      <4>1. ~(l < p + 1)
        BY <1>1, <3>1, <3>3
      <4>2. \E i \in 1 .. n : i \notin dead /\ s[l] = q[i]
        BY <1>2, <3>1, <4>1
      <4> QED BY <1>4, <3>1, <3>3, <4>2
    <3>4. CASE ~(j < p + 1)
      BY <1>2, <1>4, <3>1, <3>4
    <3> QED BY <1>4, <3>1, <3>2, <3>3, <3>4
  <2>4. p <= Len(a) + 1 /\ Len(a) <= n
    BY <1>1, <2>1
  <2>5. SweptTo(q, dead, p, a)
    BY <2>1, <2>2, <2>3, <2>4 DEF SweptTo
  <2> QED BY <1>8, <2>5 DEF a
<1> QED BY <1>7, <1>8

\* check_timeout takes out the places of dead and no others, because it goes from
\* the highest to the lowest.
LEMMA Swept ==
    ASSUME NEW q \in Seq(P!Conn), Distinct(q), NEW dead, NEW a, a = P!Sweep(q, dead)
    PROVE  SweptTo(q, dead, 1, a)
<1> DEFINE n == Len(q)
<1>1. n \in Nat
  OBVIOUS
<1> DEFINE f == CHOOSE f : f = [k \in 1 .. n + 1 |-> Turn(q, dead, f, k)]
<1>2. a = f[1]
  BY ZenonT(60) DEF P!Sweep, Turn
<1>3. f = [k \in 1 .. n + 1 |-> Turn(q, dead, f, k)]
  <2>1. \E g : g = [k \in 1 .. n + 1 |-> Turn(q, dead, g, k)]
    BY <1>1, SweepExists
  <2> QED BY ZenonT(60), <2>1
<1> HIDE DEF f
<1>4. \A k \in 1 .. n + 1 : f[k] = Turn(q, dead, f, k)
  <2> DEFINE h == [k \in 1 .. n + 1 |-> Turn(q, dead, f, k)]
  <2>1. \A k \in 1 .. n + 1 : h[k] = Turn(q, dead, f, k)
    OBVIOUS
  <2>2. f = h
    BY <1>3
  <2> HIDE DEF h
  <2> QED BY <2>1, <2>2
<1> DEFINE Good(k) == SweptTo(q, dead, k, f[k])
<1> DEFINE S == {k \in 1 .. n + 1 : Good(k)}
<1>5. n + 1 \in S
  <2>1. n + 1 \in 1 .. n + 1
    BY <1>1
  <2>2. f[n + 1] = q
    BY <1>4, <2>1 DEF Turn
  <2>3. Live(q, dead, n + 1) = 1 .. n
    BY <1>1 DEF Live
  <2>4. Idx(q) = {q[i].index : i \in 1 .. n} /\ \A j \in 1 .. n : j < n + 1
    BY <1>1 DEF Idx
  <2>5. SweptTo(q, dead, n + 1, q)
    BY <1>1, <2>3, <2>4 DEF SweptTo
  <2> QED BY <2>1, <2>2, <2>5
<1>6. S \in SUBSET Nat /\ S # {}
  <2>1. 1 .. n + 1 \subseteq Nat
    BY <1>1
  <2> HIDE DEF Good
  <2> QED BY <1>5, <2>1
<1>7. PICK m \in S : \A i \in S : m <= i
  <2> HIDE DEF S
  <2> QED BY <1>6, LeastOf
<1>8. m \in 1 .. n + 1 /\ Good(m)
  OBVIOUS
<1>9. m = 1
  <2> SUFFICES ASSUME m # 1 PROVE FALSE
    OBVIOUS
  <2> DEFINE p == m - 1
  <2>1. p \in 1 .. n /\ p \in 1 .. n + 1 /\ p # n + 1 /\ p + 1 = m /\ ~(m <= p)
    BY <1>1, <1>8
  <2> HIDE DEF p
  <2> DEFINE s == f[m]
  <2>2. SweptTo(q, dead, p + 1, s)
    BY <1>8, <2>1
  <2>3. f[p] = IF p \in dead THEN P!SwapRemove(s, p) ELSE s
    BY <1>4, <2>1 DEF Turn
  <2> HIDE DEF s
  <2>4. SweptTo(q, dead, p, IF p \in dead THEN P!SwapRemove(s, p) ELSE s)
    BY <2>1, <2>2, SweepTurn
  <2>5. p \in S
    BY <2>1, <2>3, <2>4
  <2> QED BY <1>7, <2>1, <2>5
<1> QED BY <1>2, <1>8, <1>9
-----------------------------------------------------------------------------
(* Lookups *)

Counted(lk) == {x \in P!Answer \X (1 .. MaxLookups) : x[2] <= lk[x[1]]}
LookupsOf(n, ans, lk) == n + Len(ans) + Cardinality(Counted(lk))

LEMMA CountedFinite ==
    ASSUME NEW lk
    PROVE  IsFiniteSet(Counted(lk)) /\ Cardinality(Counted(lk)) \in Nat
<1>1. IsFiniteSet(P!Answer)
  <2>1. P!Answer = Addrs \cup {P!Failed}
    BY DEF P!Answer
  <2> QED BY <2>1, Bounds, FS_AddElement
<1>2. IsFiniteSet(1 .. MaxLookups)
  BY Bounds, FS_Interval
<1>3. IsFiniteSet(P!Answer \X (1 .. MaxLookups))
  BY <1>1, <1>2, FS_Product
<1>4. Counted(lk) \in SUBSET (P!Answer \X (1 .. MaxLookups))
  BY DEF Counted
<1>5. IsFiniteSet(Counted(lk))
  BY <1>3, <1>4, FS_Subset
<1> QED BY <1>5, FS_CardinalityType

LEMMA CountedOne ==
    ASSUME NEW lk \in [P!Answer -> 0 .. MaxLookups], NEW a \in P!Answer, NEW n, n = lk[a] + 1, n <= MaxLookups,
           NEW up, up = [lk EXCEPT ![a] = n]
    PROVE  Cardinality(Counted(up)) = Cardinality(Counted(lk)) + 1
<1>1. lk[a] \in 0 .. MaxLookups /\ n \in 1 .. MaxLookups /\ n \in Nat /\ lk[a] \in Nat
  BY Bounds
<1>2. \A b \in P!Answer : up[b] = IF b = a THEN n ELSE lk[b]
  OBVIOUS
<1> DEFINE x == <<a, n>>
<1>3. \A m \in 1 .. MaxLookups : (m <= n <=> (m <= lk[a] \/ m = n)) /\ ~(n <= lk[a])
  BY <1>1
<1>4. \A b \in P!Answer, m \in 1 .. MaxLookups : m <= up[b] <=> (m <= lk[b] \/ <<b, m>> = x)
  BY <1>2, <1>3
<1>5. \A y \in P!Answer \X (1 .. MaxLookups) : y[2] <= up[y[1]] <=> (y[2] <= lk[y[1]] \/ y = x)
  BY <1>4
<1>6. x \in P!Answer \X (1 .. MaxLookups) /\ ~(x[2] <= lk[x[1]])
  BY <1>1, <1>3
<1> HIDE DEF x
<1>7. Counted(up) = Counted(lk) \cup {x} /\ x \notin Counted(lk)
  BY <1>5, <1>6 DEF Counted
<1>8. IsFiniteSet(Counted(lk))
  BY CountedFinite
<1> QED BY <1>7, <1>8, FS_AddElement

LEMMA CountedAtLeast ==
    ASSUME NEW lk \in [P!Answer -> 0 .. MaxLookups], NEW a \in P!Answer
    PROVE  lk[a] <= Cardinality(Counted(lk))
<1> DEFINE n == lk[a]
<1> DEFINE N == 1 .. n
<1> DEFINE A == {a}
<1>1. n \in Nat /\ n <= MaxLookups
  BY Bounds
<1>2. IsFiniteSet(N) /\ Cardinality(N) = n
  <2>1. 1 \in Int /\ n \in Int
    BY <1>1
  <2>2. IsFiniteSet(1 .. n) /\ Cardinality(1 .. n) = IF 1 > n THEN 0 ELSE n - 1 + 1
    BY <2>1, FS_Interval
  <2> QED BY <1>1, <2>2
<1>3. IsFiniteSet(A) /\ Cardinality(A) = 1
  BY FS_Singleton
<1>4. A \X N \in SUBSET Counted(lk)
  <2>1. \A m \in N : m \in 1 .. MaxLookups /\ m <= n
    BY <1>1, Bounds
  <2> QED BY <2>1 DEF Counted
<1> HIDE DEF A, N
<1>5. Cardinality(A \X N) = Cardinality(A) * Cardinality(N)
  BY <1>2, <1>3, FS_Product
<1>6. Cardinality(A \X N) <= Cardinality(Counted(lk))
  BY <1>4, CountedFinite, FS_Subset
<1> HIDE DEF n
<1>7. Cardinality(A \X N) = n
  BY <1>1, <1>2, <1>3, <1>5
<1> QED BY <1>6, <1>7 DEF n

LEMMA OutstandingIs == P!Outstanding = LookupsOf(asked, answers, looked)
<1>1. P!Outstanding = asked + Len(answers) + P!Cardinality(Counted(looked))
  BY DEF P!Outstanding, Counted
<1>2. P!Cardinality(Counted(looked)) = Cardinality(Counted(looked))
  BY PCard
<1> QED BY <1>1, <1>2 DEF LookupsOf

-----------------------------------------------------------------------------
(* A connection of the pool *)

LEMMA ServedConn ==
    ASSUME NEW r \in P!Conn, NEW flags
    PROVE  /\ P!DoRead(r) \in P!Conn /\ P!DoRead(r).index = r.index
           /\ P!Serve(r, flags) \in P!Conn /\ P!Serve(r, flags).index = r.index
           /\ P!IsShutdown(P!Serve(r, flags).status) => P!Serve(r, flags).status = "Deregistered"
           /\ P!Checked(P!DoRead(r)) \in P!Conn /\ P!Checked(P!DoRead(r)).index = r.index
           /\ P!IsShutdown(P!Checked(P!DoRead(r)).status) => P!Checked(P!DoRead(r)).status = "Deregistered"
<1>1. ASSUME NEW t \in P!Conn, NEW u \in P!Status
      PROVE  [t EXCEPT !.status = u] \in P!Conn /\ [t EXCEPT !.status = u].index = t.index
  BY <1>1 DEF P!Conn
<1>2. ASSUME NEW u \in P!Status
      PROVE  P!Shutdown(u) \in P!Status /\ P!Established(u) \in P!Status
  BY <1>2 DEF P!Status, P!Shutdown, P!Established
<1>3. ASSUME NEW t \in P!Conn
      PROVE  /\ P!Checked(t) \in P!Conn /\ P!Checked(t).index = t.index
             /\ P!IsShutdown(P!Checked(t).status) => P!Checked(t).status = "Deregistered"
  <2> DEFINE x == P!CheckStatus(t.status, ~P!WantsWrite(t))
  <2>1. x \in P!Status /\ (P!IsShutdown(x) => x = "Deregistered")
    <3>1. t.status \in P!Status
      BY <1>3 DEF P!Conn
    <3> QED BY <3>1 DEF P!Status, P!CheckStatus, P!IsShutdown
  <2>2. P!Checked(t) = [t EXCEPT !.status = x]
    BY DEF P!Checked
  <2> HIDE DEF x
  <2>3. P!Checked(t).status = x
    BY <1>3, <2>2 DEF P!Conn
  <2> QED BY <1>1, <1>3, <2>1, <2>2, <2>3
<1>4. ASSUME NEW t \in P!Conn
      PROVE  P!DoRead(t) \in P!Conn /\ P!DoRead(t).index = t.index
  <2> DEFINE x == IF t.end THEN P!Shutdown(t.status) ELSE t.status
  <2> DEFINE y == IF t.hin THEN "fin" ELSE t.tls
  <2>1. x \in P!Status /\ y \in {"start", "sent", "fin", "done"}
    BY <1>2, <1>4 DEF P!Conn
  <2>2. P!DoRead(t) = [t EXCEPT !.hin = FALSE, !.sin = FALSE, !.tls = y, !.status = x]
    BY DEF P!DoRead
  <2> HIDE DEF x, y
  <2> QED BY <1>4, <2>1, <2>2 DEF P!Conn
<1>5. ASSUME NEW t \in P!Conn
      PROVE  P!DoSend(t) \in P!Conn /\ P!DoSend(t).index = t.index
  <2> DEFINE x == P!Shutdown(t.status)
  <2> DEFINE y == IF t.tls = "start" THEN "sent" ELSE "done"
  <2>1. x \in P!Status /\ y \in {"start", "sent", "fin", "done"}
    BY <1>2, <1>5 DEF P!Conn
  <2>2. P!DoSend(t) \in {t, [t EXCEPT !.status = x], [t EXCEPT !.tls = y]}
    BY DEF P!DoSend
  <2> HIDE DEF x, y
  <2> QED BY <1>5, <2>1, <2>2 DEF P!Conn
<1> DEFINE t == IF "r" \in flags THEN P!DoRead(r) ELSE r
<1> DEFINE e == P!Established(t.status)
<1> DEFINE v == [t EXCEPT !.status = e]
<1> DEFINE u == IF "w" \in flags THEN P!DoSend(v) ELSE t
<1>6. P!Serve(r, flags) = P!Checked(u)
  BY DEF P!Serve
<1>7. t \in P!Conn /\ t.index = r.index
  BY <1>4
<1> HIDE DEF t
<1>8. e \in P!Status
  <2>1. t.status \in P!Status
    BY <1>7 DEF P!Conn
  <2> QED BY <1>2, <2>1
<1> HIDE DEF e
<1>9. v \in P!Conn /\ v.index = r.index
  BY <1>1, <1>7, <1>8
<1> HIDE DEF v
<1>10. u \in P!Conn /\ u.index = r.index
  BY <1>5, <1>7, <1>9
<1> HIDE DEF u
<1>11. P!DoRead(r) \in P!Conn /\ P!DoRead(r).index = r.index
  BY <1>4
<1> QED BY <1>3, <1>6, <1>10, <1>11
-----------------------------------------------------------------------------
(* The invariant of the pool *)

\* An edge is the resolver's or one of a connection in the pool.  Those in the batch
\* were in the pool when it was fetched, so that they are no more than the pool held.
PoolConns == pool \in Seq(P!Conn) /\ Len(pool) <= Size /\ Distinct(pool) /\ Open(pool)
PoolEvents ==
    /\ poolEv \subseteq Idx(pool) \cup {0} /\ poolBatch \in [P!Source -> SUBSET {"r", "w"}]
    /\ poolPolling \in BOOLEAN /\ Cardinality(Eventful) <= Size
PoolLookups ==
    /\ addr \in Addrs /\ real \in Addrs /\ moves \in 0 .. MaxMoves /\ asked \in 0 .. MaxLookups
    /\ looked \in [P!Answer -> 0 .. MaxLookups] /\ answers \in Seq(P!Answer)
    /\ LookupsOf(asked, answers, looked) <= MaxLookups
PoolInv == PoolConns /\ PoolEvents /\ PoolLookups

LEMMA SameLookups ==
    ASSUME PoolLookups, UNCHANGED P!dns
    PROVE  PoolLookups'
<1>1. /\ addr' = addr /\ real' = real /\ moves' = moves /\ asked' = asked
      /\ looked' = looked /\ answers' = answers
  BY DEF P!dns
<1> QED BY <1>1 DEF PoolLookups, LookupsOf, Counted

\* A batch that loses events.
LEMMA FewerEvents ==
    ASSUME PoolEvents, Eventful' \subseteq Eventful
    PROVE  Cardinality(Eventful') <= Size
<1> DEFINE B == Eventful'
<1> HIDE DEF B
<1>1. IsFiniteSet(Eventful) /\ Cardinality(Eventful) \in Nat
  BY EventfulFinite
<1>2. B \in SUBSET Eventful
  BY DEF B
<1> HIDE DEF Eventful
<1>3. IsFiniteSet(B) /\ Cardinality(B) <= Cardinality(Eventful)
  BY <1>1, <1>2, FS_Subset
<1>4. Cardinality(B) \in Nat
  BY <1>3, FS_CardinalityType
<1>5. Cardinality(Eventful) <= Size
  BY DEF PoolEvents
<1>6. Cardinality(B) <= Size
  BY <1>1, <1>3, <1>4, <1>5, Bounds
<1> QED BY <1>6 DEF B

LEMMA SameBatch ==
    ASSUME PoolEvents, poolBatch' = poolBatch, poolPolling' \in BOOLEAN, poolEv' \subseteq Idx(pool') \cup {0}
    PROVE  PoolEvents'
<1>1. Eventful' \subseteq Eventful
  BY DEF Eventful
<1>2. Cardinality(Eventful') <= Size
  BY <1>1, FewerEvents
<1> QED BY <1>2 DEF PoolEvents, Idx

\* One connection changes, but not its index.
LEMMA OneServed ==
    ASSUME PoolConns, NEW k \in 1 .. Len(pool), NEW r \in P!Conn, r.index = pool[k].index,
           NEW q, q = [pool EXCEPT ![k] = r]
    PROVE  q \in Seq(P!Conn) /\ Len(q) = Len(pool) /\ Distinct(q) /\ Idx(q) = Idx(pool)
<1> DEFINE n == Len(pool)
<1>1. pool \in Seq(P!Conn) /\ n \in Nat /\ DOMAIN pool = 1 .. n
  BY DEF PoolConns
<1>2. q \in Seq(P!Conn) /\ Len(q) = n
  BY <1>1
<1>3. \A j \in 1 .. n : q[j] = IF j = k THEN r ELSE pool[j]
  BY <1>1
<1>4. \A j \in 1 .. n : q[j].index = pool[j].index
  BY <1>3
<1>5. Distinct(q)
  BY <1>2, <1>4 DEF PoolConns, Distinct
<1>6. Idx(q) = Idx(pool)
  BY <1>2, <1>4 DEF Idx
<1> QED BY <1>2, <1>3, <1>5, <1>6

LEMMA ReadyStep ==
    ASSUME PoolInv, P!Ready
    PROVE  PoolInv'
<1>1. PICK x \in P!Source \ {P!Resolver} :
        /\ poolBatch' = [poolBatch EXCEPT ![x] = {}] /\ UNCHANGED <<P!dns, poolPolling>>
        /\ IF \E k \in 1 .. Len(pool) : pool[k].index = x
           THEN LET k == CHOOSE j \in 1 .. Len(pool) : pool[j].index = x
                    r == P!Serve(pool[k], poolBatch[x])
                IN /\ pool' = P!Drop([pool EXCEPT ![k] = r], k)
                   /\ poolEv' = IF r.status = "Deregistered" THEN poolEv \ {x} ELSE poolEv
           ELSE UNCHANGED <<pool, poolEv>>
  BY DEF P!Ready
<1>2. PoolLookups'
  <2>1. UNCHANGED P!dns
    BY <1>1
  <2> QED BY <2>1, SameLookups DEF PoolInv
<1>3. PoolConns' /\ poolEv' \subseteq Idx(pool') \cup {0}
  <2>1. CASE ~\E k \in 1 .. Len(pool) : pool[k].index = x
    <3>1. pool' = pool /\ poolEv' = poolEv
      BY <1>1, <2>1
    <3> QED BY <3>1 DEF PoolInv, PoolConns, PoolEvents, Distinct, Open, Idx
  <2>2. CASE \E k \in 1 .. Len(pool) : pool[k].index = x
    <3> DEFINE k == CHOOSE j \in 1 .. Len(pool) : pool[j].index = x
    <3> DEFINE r == P!Serve(pool[k], poolBatch[x])
    <3> DEFINE q == [pool EXCEPT ![k] = r]
    <3>1. k \in 1 .. Len(pool) /\ pool[k].index = x
      BY <2>2
    <3>2. pool' = P!Drop(q, k) /\ poolEv' = IF r.status = "Deregistered" THEN poolEv \ {x} ELSE poolEv
      BY <1>1, <2>2
    <3> HIDE DEF k
    <3>3. pool[k] \in P!Conn
      BY <3>1 DEF PoolInv, PoolConns
    <3>4. r \in P!Conn /\ r.index = x /\ (P!IsShutdown(r.status) => r.status = "Deregistered")
      BY <3>1, <3>3, ServedConn
    <3>q. q = [pool EXCEPT ![k] = r]
      OBVIOUS
    <3> HIDE DEF r, q
    <3>5. /\ q \in Seq(P!Conn) /\ Len(q) = Len(pool) /\ Distinct(q) /\ Idx(q) = Idx(pool) /\ q[k] = r
          /\ \A j \in 1 .. Len(pool) : j # k => q[j] = pool[j]
      <4>1. PoolConns /\ r.index = pool[k].index
        BY <3>1, <3>4 DEF PoolInv
      <4>2. q \in Seq(P!Conn) /\ Len(q) = Len(pool) /\ Distinct(q) /\ Idx(q) = Idx(pool)
        BY <3>1, <3>4, <3>q, <4>1, OneServed
      <4>3. pool \in Seq(P!Conn)
        BY <4>1 DEF PoolConns
      <4>4. q[k] = r /\ \A j \in 1 .. Len(pool) : j # k => q[j] = pool[j]
        BY <3>1, <3>q, <4>3
      <4> QED BY <4>2, <4>4
    <3>6. Len(pool) \in Nat /\ Len(pool) <= Size /\ \A j \in 1 .. Len(pool) : ~P!IsShutdown(pool[j].status)
      BY DEF PoolInv, PoolConns, Open
    <3>e. poolEv \subseteq Idx(pool) \cup {0}
      BY DEF PoolInv, PoolEvents
    <3>7. CASE r.status = "Deregistered"
      <4> DEFINE n == Len(q)
      <4>1. pool' = P!SwapRemove(q, k) /\ k \in 1 .. Len(q)
        BY <3>1, <3>2, <3>5, <3>7 DEF P!Drop
      <4>2. pool' \in Seq(P!Conn) /\ Len(pool') = Len(q) - 1 /\ Distinct(pool')
        BY <3>5, <4>1, SwapRemoved
      <4>3. Idx(pool') = Idx(q) \ {q[k].index}
        BY <3>5, <4>1, SwapRemoved
      <4>4. \A j \in 1 .. n - 1 : pool'[j] = IF j = k THEN q[n] ELSE q[j]
        BY <4>1 DEF P!SwapRemove
      <4>5. \A j \in 1 .. n - 1 : j \in 1 .. n /\ n \in 1 .. n /\ j # n
        BY <3>5, <3>6
      <4>6. \A j \in 1 .. n - 1 : ~P!IsShutdown(pool'[j].status)
        <5> TAKE j \in 1 .. n - 1
        <5>1. CASE j = k
          <6>1. pool'[j] = q[n] /\ n # k /\ n \in 1 .. n /\ q[n] = pool[n]
            BY <3>5, <4>4, <4>5, <5>1
          <6> QED BY <3>5, <3>6, <6>1
        <5>2. CASE j # k
          <6>1. pool'[j] = q[j] /\ j \in 1 .. n /\ q[j] = pool[j]
            BY <3>5, <4>4, <4>5, <5>2
          <6> QED BY <3>5, <3>6, <6>1
        <5> QED BY <5>1, <5>2
      <4>7. Open(pool')
        BY <4>2, <4>6 DEF Open
      <4>8. Len(pool') <= Size
        BY <3>5, <3>6, <4>2, Bounds
      <4>9. poolEv' \subseteq Idx(pool') \cup {0}
        BY <3>2, <3>4, <3>5, <3>7, <3>e, <4>3
      <4> QED BY <4>2, <4>7, <4>8, <4>9 DEF PoolConns, Distinct, Open
    <3>8. CASE r.status # "Deregistered"
      <4>1. pool' = q /\ poolEv' = poolEv
        BY <3>2, <3>5, <3>8 DEF P!Drop
      <4>2. \A j \in 1 .. Len(q) : ~P!IsShutdown(q[j].status)
        BY <3>4, <3>5, <3>6, <3>8
      <4>3. Open(q)
        BY <4>2 DEF Open
      <4> QED BY <3>5, <3>6, <3>e, <4>1, <4>3 DEF PoolConns, Distinct, Open
    <3> QED BY <3>7, <3>8
  <2> QED BY <2>1, <2>2
<1>4. PoolEvents'
  <2>1. poolBatch \in [P!Source -> SUBSET {"r", "w"}] /\ poolPolling' = poolPolling /\ poolPolling \in BOOLEAN
    BY <1>1 DEF PoolInv, PoolEvents
  <2>2. poolBatch' \in [P!Source -> SUBSET {"r", "w"}]
    BY <1>1, <2>1
  <2>3. Eventful' \subseteq Eventful
    <3>1. \A y \in 1 .. MaxIndex : y \in P!Source
      BY Bounds DEF P!Source
    <3>2. \A y \in 1 .. MaxIndex : poolBatch'[y] # {} => poolBatch[y] # {}
      BY <1>1, <2>1, <3>1
    <3> QED BY <3>2 DEF Eventful
  <2>4. Cardinality(Eventful') <= Size
    BY <2>3, FewerEvents DEF PoolInv
  <2> QED BY <1>3, <2>1, <2>2, <2>4 DEF PoolEvents, Idx
<1> QED BY <1>2, <1>3, <1>4 DEF PoolInv

LEMMA TimeoutStep ==
    ASSUME PoolInv, P!CheckTimeout
    PROVE  PoolInv'
<1> DEFINE n == Len(pool)
<1> DEFINE q == [k \in 1 .. Len(pool) |-> P!Checked(P!DoRead(pool[k]))]
<1> DEFINE dead == {k \in 1 .. Len(q) : q[k].status = "Deregistered"}
<1>1. /\ pool' = P!Sweep(q, dead) /\ poolEv' = poolEv \ {q[k].index : k \in dead}
      /\ UNCHANGED P!dns /\ poolBatch' = poolBatch /\ poolPolling' = poolPolling
  BY DEF P!CheckTimeout
<1>2. n \in Nat /\ n <= Size /\ \A k \in 1 .. n : pool[k] \in P!Conn
  BY DEF PoolInv, PoolConns
<1>3. \A k \in 1 .. n : q[k] = P!Checked(P!DoRead(pool[k]))
  OBVIOUS
<1>4. /\ q \in [1 .. n -> P!Conn] /\ \A k \in 1 .. n : q[k].index = pool[k].index
      /\ \A k \in 1 .. n : P!IsShutdown(q[k].status) => q[k].status = "Deregistered"
  BY <1>2, ServedConn
<1> HIDE DEF q
<1>5. q \in Seq(P!Conn) /\ Len(q) = n
  <2>1. q \in Seq(P!Conn)
    BY <1>2, <1>4, SeqDef
  <2>2. Len(q) \in Nat /\ 1 .. n = 1 .. Len(q)
    BY <1>4, <2>1, LenProperties
  <2>3. (n \in 1 .. n <=> n \in 1 .. Len(q)) /\ (Len(q) \in 1 .. n <=> Len(q) \in 1 .. Len(q))
    BY <2>2
  <2> QED BY <1>2, <2>1, <2>2, <2>3
<1>6. Distinct(q) /\ Idx(q) = Idx(pool)
  <2>1. \A j, k \in 1 .. n : j # k => pool[j].index # pool[k].index
    BY DEF PoolInv, PoolConns, Distinct
  <2>2. \A j, k \in 1 .. n : j # k => q[j].index # q[k].index
    BY <1>4, <2>1
  <2>3. Idx(q) = {q[k].index : k \in 1 .. n} /\ Idx(pool) = {pool[k].index : k \in 1 .. n}
    BY <1>5 DEF Idx
  <2>4. {q[k].index : k \in 1 .. n} = {pool[k].index : k \in 1 .. n}
    BY <1>4
  <2> QED BY <1>5, <2>2, <2>3, <2>4 DEF Distinct
<1>d. \A k \in 1 .. n : k \in dead <=> q[k].status = "Deregistered"
  BY <1>5
<1> HIDE DEF dead
<1>7. SweptTo(q, dead, 1, pool')
  BY <1>1, <1>5, <1>6, Swept
<1>8. /\ pool' \in Seq(P!Conn) /\ Distinct(pool') /\ Len(pool') <= n
      /\ \A j \in 1 .. Len(pool') : IF j < 1 THEN pool'[j] = q[j] ELSE \E i \in 1 .. n : i \notin dead /\ pool'[j] = q[i]
      /\ Idx(pool') = {q[i].index : i \in Live(q, dead, 1)}
  BY <1>5, <1>7 DEF SweptTo
<1>9. Open(pool')
  <2> SUFFICES ASSUME NEW j \in 1 .. Len(pool') PROVE ~P!IsShutdown(pool'[j].status)
    BY DEF Open
  <2>1. ~(j < 1)
    BY <1>8
  <2>2. PICK i \in 1 .. n : i \notin dead /\ pool'[j] = q[i]
    BY <1>8, <2>1
  <2>3. q[i].status # "Deregistered"
    BY <1>d, <2>2
  <2>4. ~P!IsShutdown(q[i].status)
    BY <1>4, <2>3
  <2> QED BY <2>2, <2>4
<1>10. PoolConns'
  <2>1. Len(pool') <= Size
    <3>1. Len(pool') \in Nat
      BY <1>8
    <3> QED BY <1>2, <1>8, <3>1, Bounds
  <2> QED BY <1>8, <1>9, <2>1 DEF PoolConns, Distinct, Open
<1>11. poolEv' \subseteq Idx(pool') \cup {0}
  <2>1. Idx(q) = {q[i].index : i \in 1 .. n}
    BY <1>5 DEF Idx
  <2>2. \A i \in 1 .. n : i \in dead \/ i \in Live(q, dead, 1)
    BY <1>5 DEF Live
  <2>3. poolEv \subseteq Idx(q) \cup {0}
    BY <1>6 DEF PoolInv, PoolEvents
  <2> QED BY <1>1, <1>8, <2>1, <2>2, <2>3
<1>12. PoolEvents'
  <2>1. poolPolling' \in BOOLEAN
    BY <1>1 DEF PoolInv, PoolEvents
  <2> QED BY <1>1, <1>11, <2>1, SameBatch DEF PoolInv
<1>13. PoolLookups'
  BY <1>1, SameLookups DEF PoolInv
<1> QED BY <1>10, <1>12, <1>13 DEF PoolInv
\* get hands out the last connection.
LEMMA GetStep ==
    ASSUME PoolInv, P!Get
    PROVE  PoolInv'
<1>1. PICK n \in P!Connects(pool) :
        LET q == P!Alloc(pool, n) IN
        /\ pool' = IF q = <<>> THEN q ELSE SubSeq(q, 1, Len(q) - 1)
        /\ asked' = P!UpdateDns(Size - Len(q))
        /\ poolEv' = IF q = <<>> THEN poolEv ELSE poolEv \ {q[Len(q)].index}
  BY DEF P!Get, P!GetWith
<1>2. /\ addr' = addr /\ real' = real /\ moves' = moves /\ looked' = looked /\ answers' = answers
      /\ poolBatch' = poolBatch /\ poolPolling' = poolPolling
  BY DEF P!Get, P!GetWith
<1> DEFINE q == P!Alloc(pool, n)
<1>3. /\ pool' = IF q = <<>> THEN q ELSE SubSeq(q, 1, Len(q) - 1)
      /\ asked' = P!UpdateDns(Size - Len(q))
      /\ poolEv' = IF q = <<>> THEN poolEv ELSE poolEv \ {q[Len(q)].index}
  BY <1>1
<1>4. /\ pool \in Seq(P!Conn) /\ Len(pool) <= Size /\ Distinct(pool) /\ Open(pool) /\ Len(pool) \in Nat
      /\ poolEv \subseteq Idx(pool) \cup {0} /\ Cardinality(Eventful) <= Size /\ addr \in Addrs
  BY DEF PoolInv, PoolConns, PoolEvents, PoolLookups
<1>5. n \in 0 .. Size - Len(pool)
  <2>1. 0 \in 0 .. Size - Len(pool)
    BY <1>4, Bounds
  <2> QED BY <2>1 DEF P!Connects
<1>q. q = P!Alloc(pool, n)
  OBVIOUS
<1> HIDE DEF q
<1>6. q \in Seq(P!Conn) /\ Len(q) = Len(pool) + n /\ Distinct(q) /\ Open(q)
  BY <1>4, <1>5, <1>q, Alloced
<1>7. \A k \in 1 .. Len(pool) : q[k] = pool[k]
  BY <1>4, <1>5, <1>q, Alloced
<1>8. Len(q) \in Nat /\ Len(q) <= Size
  BY <1>4, <1>5, <1>6, Bounds
<1>9. Idx(pool) \subseteq Idx(q)
  <2>1. \A k \in 1 .. Len(pool) : k \in 1 .. Len(q)
    BY <1>4, <1>5, <1>6, Bounds
  <2> QED BY <1>7, <2>1 DEF Idx
<1>10. PoolConns' /\ poolEv' \subseteq Idx(pool') \cup {0}
  <2>1. CASE q = <<>>
    <3>1. pool' = q /\ poolEv' = poolEv
      BY <1>3, <2>1
    <3> QED BY <1>4, <1>6, <1>8, <1>9, <3>1 DEF PoolConns, Distinct, Open
  <2>2. CASE q # <<>>
    <3> DEFINE m == Len(q)
    <3> DEFINE l == m - 1
    <3> DEFINE p == SubSeq(q, 1, l)
    <3>1. m \in Nat /\ l \in Nat /\ m # 0
      BY <1>6, <1>8, <2>2
    <3>2. p \in Seq(P!Conn) /\ Len(p) = l /\ \A j \in 1 .. l : p[j] = q[j]
      BY <1>6, <3>1
    <3>3. pool' = p /\ poolEv' = poolEv \ {q[m].index}
      BY <1>3, <2>2
    <3>4. \A j \in 1 .. l : j \in 1 .. m
      BY <3>1
    <3>5. \A j \in 1 .. m : j \in 1 .. l \/ j = m
      BY <3>1
    <3>6. l <= Size
      BY <1>8, <3>1, Bounds
    <3> HIDE DEF p, l, m
    <3>7. Distinct(p) /\ Open(p)
      BY <1>6, <3>2, <3>4 DEF Distinct, Open, m
    <3>8. Idx(q) \ {q[m].index} \subseteq Idx(p)
      <4>1. Idx(q) = {q[j].index : j \in 1 .. m} /\ Idx(p) = {p[j].index : j \in 1 .. l}
        BY <3>2 DEF Idx, m
      <4> QED BY <3>2, <3>5, <4>1
    <3>9. poolEv' \subseteq Idx(p) \cup {0}
      BY <1>4, <1>9, <3>3, <3>8
    <3> QED BY <3>2, <3>3, <3>6, <3>7, <3>9 DEF PoolConns, Distinct, Open
  <2> QED BY <2>1, <2>2
<1>11. PoolEvents'
  <2>1. poolPolling' \in BOOLEAN
    BY <1>2 DEF PoolInv, PoolEvents
  <2> QED BY <1>2, <1>10, <2>1, SameBatch DEF PoolInv
<1>12. PoolLookups'
  <2> DEFINE d == Size - Len(q)
  <2> DEFINE o == LookupsOf(asked, answers, looked)
  <2> DEFINE z == Cardinality(Counted(looked))
  <2> DEFINE a == Len(answers)
  <2>1. asked \in Nat /\ asked <= MaxLookups /\ o <= MaxLookups /\ answers \in Seq(P!Answer) /\ a \in Nat
    BY Bounds DEF PoolInv, PoolLookups
  <2>2. z \in Nat
    BY CountedFinite
  <2>3. o = asked + a + z
    BY DEF LookupsOf
  <2>4. asked' = IF o + d <= MaxLookups THEN asked + d ELSE asked + (MaxLookups - o)
    BY <1>3, OutstandingIs DEF P!UpdateDns
  <2>5. d \in Nat
    BY <1>8, Bounds
  <2>6. LookupsOf(asked', answers', looked') = asked' + a + z
    BY <1>2 DEF LookupsOf
  <2> HIDE DEF d, z, a, o
  <2>7. o \in Nat
    BY <2>1, <2>2, <2>3
  <2>8. asked' \in 0 .. MaxLookups /\ asked' + a + z <= MaxLookups
    <3>1. CASE o + d <= MaxLookups
      <4>1. asked' = asked + d
        BY <2>4, <3>1
      <4> QED BY <2>1, <2>2, <2>3, <2>5, <3>1, <4>1, Bounds
    <3>2. CASE ~(o + d <= MaxLookups)
      <4>1. asked' = asked + (MaxLookups - o)
        BY <2>4, <3>2
      <4> QED BY <2>1, <2>2, <2>3, <2>7, <4>1, Bounds
    <3> QED BY <3>1, <3>2
  <2> QED BY <1>2, <2>6, <2>8 DEF PoolInv, PoolLookups
<1> QED BY <1>10, <1>11, <1>12 DEF PoolInv

LEMMA ResolveStep ==
    ASSUME PoolInv, P!Resolve
    PROVE  PoolInv'
<1> DEFINE good == {k \in 1 .. Len(answers) : answers[k] # P!Failed}
<1>1. /\ addr' = IF good = {} THEN addr ELSE answers[P!Max(good)]
      /\ answers' = <<>> /\ poolBatch' = [poolBatch EXCEPT ![P!Resolver] = {}]
      /\ pool' = pool /\ real' = real /\ moves' = moves /\ asked' = asked /\ looked' = looked
      /\ poolEv' = poolEv /\ poolPolling' = poolPolling
  BY DEF P!Resolve
<1>2. answers \in Seq(P!Answer) /\ addr \in Addrs
  BY DEF PoolInv, PoolLookups
<1>3. addr' \in Addrs
  <2>1. CASE good = {}
    BY <1>1, <1>2, <2>1
  <2>2. CASE good # {}
    <3> DEFINE n == Len(answers)
    <3>1. n \in Nat /\ good \in SUBSET (1 .. n)
      BY <1>2
    <3>2. \A k \in good : answers[k] \in Addrs
      BY <1>2 DEF P!Answer
    <3> HIDE DEF good, n
    <3>3. \E m \in good : \A k \in good : k <= m
      BY <2>2, <3>1, GreatestOf
    <3>4. \E m \in good : \A k \in good : m >= k
      <4>1. PICK m \in good : \A k \in good : k <= m
        BY <3>3
      <4>2. \A k \in good : k \in Nat
        BY <3>1
      <4>3. \A k \in good : m >= k
        BY <4>1, <4>2
      <4> QED BY <4>3
    <3>5. P!Max(good) \in good
      BY <3>4 DEF P!Max
    <3> QED BY <1>1, <2>2, <3>2, <3>5
  <2> QED BY <2>1, <2>2
<1>4. PoolLookups'
  <2> DEFINE z == Cardinality(Counted(looked))
  <2>1. asked \in Nat /\ Len(answers) \in Nat /\ asked + Len(answers) + z <= MaxLookups /\ z \in Nat
    BY <1>2, Bounds, CountedFinite DEF PoolInv, PoolLookups, LookupsOf
  <2>2. LookupsOf(asked', answers', looked') = asked + 0 + z
    BY <1>1 DEF LookupsOf
  <2> HIDE DEF z
  <2>3. asked + 0 + z <= MaxLookups
    BY <2>1, Bounds
  <2>4. answers' \in Seq(P!Answer)
    BY <1>1
  <2> QED BY <1>1, <1>3, <2>2, <2>3, <2>4 DEF PoolInv, PoolLookups
<1>5. PoolConns'
  BY <1>1 DEF PoolInv, PoolConns, Distinct, Open
<1>6. PoolEvents'
  <2>1. poolBatch \in [P!Source -> SUBSET {"r", "w"}] /\ poolPolling \in BOOLEAN /\ poolEv \subseteq Idx(pool) \cup {0}
    BY DEF PoolInv, PoolEvents
  <2>2. poolBatch' \in [P!Source -> SUBSET {"r", "w"}]
    BY <1>1, <2>1
  <2>3. Eventful' \subseteq Eventful
    <3>1. \A y \in 1 .. MaxIndex : y \in P!Source /\ y # P!Resolver
      BY Bounds DEF P!Source, P!Resolver
    <3>2. \A y \in 1 .. MaxIndex : poolBatch'[y] = poolBatch[y]
      BY <1>1, <2>1, <3>1
    <3> QED BY <3>2 DEF Eventful
  <2>4. Cardinality(Eventful') <= Size
    BY <2>3, FewerEvents DEF PoolInv
  <2> QED BY <1>1, <2>1, <2>2, <2>4 DEF PoolEvents, Idx
<1> QED BY <1>4, <1>5, <1>6 DEF PoolInv

LEMMA FetchStep ==
    ASSUME PoolInv, P!Fetch
    PROVE  PoolInv'
<1> DEFINE Of(x) == UNION {P!Flags(pool[k]) : k \in {j \in 1 .. Len(pool) : pool[j].index = x}}
<1>1. /\ poolPolling' = FALSE /\ poolEv' = {} /\ pool' = pool /\ UNCHANGED P!dns
      /\ poolBatch' = [x \in P!Source |-> IF x \notin poolEv THEN {} ELSE IF x = P!Resolver THEN {"r"} ELSE Of(x)]
  BY DEF P!Fetch
<1>2. \A x : Of(x) \in SUBSET {"r", "w"}
  BY DEF P!Flags
<1>3. \A x : Of(x) # {} => x \in Idx(pool)
  BY DEF Idx
<1> HIDE DEF Of
<1>4. poolBatch' \in [P!Source -> SUBSET {"r", "w"}]
  BY <1>1, <1>2
<1>5. Eventful' \subseteq Idx(pool)
  <2>1. \A y \in 1 .. MaxIndex : y \in P!Source /\ y # P!Resolver
    BY Bounds DEF P!Source, P!Resolver
  <2>2. \A y \in 1 .. MaxIndex : poolBatch'[y] # {} => y \in Idx(pool)
    BY <1>1, <1>3, <2>1
  <2> QED BY <2>2 DEF Eventful
<1>6. Cardinality(Eventful') <= Size
  <2> DEFINE B == Eventful'
  <2>1. IsFiniteSet(Idx(pool)) /\ Cardinality(Idx(pool)) \in Nat /\ Cardinality(Idx(pool)) <= Len(pool)
    BY IdxSize DEF PoolInv, PoolConns
  <2>2. B \in SUBSET Idx(pool)
    BY <1>5
  <2> HIDE DEF B
  <2>3. IsFiniteSet(B) /\ Cardinality(B) <= Cardinality(Idx(pool))
    BY <2>1, <2>2, FS_Subset
  <2>4. Cardinality(B) \in Nat
    BY <2>3, FS_CardinalityType
  <2>5. Len(pool) \in Nat /\ Len(pool) <= Size
    BY DEF PoolInv, PoolConns
  <2>6. Cardinality(B) <= Size
    BY <2>1, <2>3, <2>4, <2>5, Bounds
  <2> QED BY <2>6 DEF B
<1>7. PoolEvents'
  BY <1>1, <1>4, <1>6 DEF PoolEvents
<1>8. PoolConns'
  BY <1>1 DEF PoolInv, PoolConns, Distinct, Open
<1>9. PoolLookups'
  BY <1>1, SameLookups DEF PoolInv
<1> QED BY <1>7, <1>8, <1>9 DEF PoolInv
\* A step that keeps pool and batch.
LEMMA SamePool ==
    ASSUME PoolInv, pool' = pool, poolBatch' = poolBatch, poolPolling' \in BOOLEAN, poolEv' \subseteq poolEv \cup {0}
    PROVE  PoolConns' /\ PoolEvents'
<1>1. PoolConns'
  BY DEF PoolInv, PoolConns, Distinct, Open
<1>2. poolEv' \subseteq Idx(pool') \cup {0}
  BY DEF PoolInv, PoolEvents
<1> QED BY <1>1, <1>2, SameBatch DEF PoolInv

LEMMA LookUpStep ==
    ASSUME PoolInv, P!LookUp
    PROVE  PoolInv'
<1>1. PICK a \in {real, P!Failed} : looked' = [looked EXCEPT ![a] = looked[a] + 1]
  BY DEF P!LookUp
<1>2. /\ asked > 0 /\ asked' = asked - 1 /\ pool' = pool /\ addr' = addr /\ real' = real /\ moves' = moves
      /\ answers' = answers /\ poolEv' = poolEv /\ poolBatch' = poolBatch /\ poolPolling' = poolPolling
  BY DEF P!LookUp
<1>3. /\ asked \in Nat /\ asked <= MaxLookups /\ answers \in Seq(P!Answer) /\ Len(answers) \in Nat
      /\ looked \in [P!Answer -> 0 .. MaxLookups] /\ real \in Addrs
      /\ asked + Len(answers) + Cardinality(Counted(looked)) <= MaxLookups
  BY Bounds DEF PoolInv, PoolLookups, LookupsOf
<1>4. a \in P!Answer
  BY <1>1, <1>3 DEF P!Answer
<1> DEFINE n == looked[a] + 1
<1> DEFINE z == Cardinality(Counted(looked))
<1>5. looked[a] \in Nat /\ n \in Nat
  BY <1>3, <1>4, Bounds
<1>6. z \in Nat /\ looked[a] <= z
  BY <1>3, <1>4, CountedFinite, CountedAtLeast
<1>7. n <= MaxLookups
  <2> DEFINE l == Len(answers)
  <2> HIDE DEF z
  <2>1. l \in Nat /\ asked + l + z <= MaxLookups
    BY <1>3 DEF z
  <2> HIDE DEF l
  <2> QED BY <1>2, <1>3, <1>5, <1>6, <2>1, Bounds
<1>8. looked' = [looked EXCEPT ![a] = n] /\ n = looked[a] + 1
  BY <1>1
<1> HIDE DEF n
<1>9. Cardinality(Counted(looked')) = z + 1
  BY <1>3, <1>4, <1>7, <1>8, CountedOne
<1>10. looked' \in [P!Answer -> 0 .. MaxLookups]
  BY <1>3, <1>4, <1>5, <1>7, <1>8, Bounds
<1>11. LookupsOf(asked', answers', looked') = (asked - 1) + Len(answers) + (z + 1)
  BY <1>2, <1>9 DEF LookupsOf
<1> HIDE DEF z
<1>12. (asked - 1) + Len(answers) + (z + 1) <= MaxLookups /\ asked - 1 \in 0 .. MaxLookups
  BY <1>2, <1>3, <1>6, Bounds DEF z
<1>13. PoolLookups'
  BY <1>2, <1>3, <1>10, <1>11, <1>12 DEF PoolInv, PoolLookups
<1>14. PoolConns' /\ PoolEvents'
  <2>1. poolPolling' \in BOOLEAN /\ poolEv' \subseteq poolEv \cup {0}
    BY <1>2 DEF PoolInv, PoolEvents
  <2> QED BY <1>2, <2>1, SamePool
<1> QED BY <1>13, <1>14 DEF PoolInv

LEMMA SendAnswerStep ==
    ASSUME PoolInv, P!SendAnswer
    PROVE  PoolInv'
<1>1. PICK a \in P!Answer :
        /\ looked[a] > 0 /\ looked' = [looked EXCEPT ![a] = looked[a] - 1] /\ answers' = Append(answers, a)
        /\ poolEv' = poolEv \cup {P!Resolver} /\ pool' = pool /\ addr' = addr /\ real' = real /\ moves' = moves
        /\ asked' = asked /\ poolBatch' = poolBatch /\ poolPolling' = poolPolling
  BY DEF P!SendAnswer
<1>2. /\ asked \in Nat /\ asked <= MaxLookups /\ answers \in Seq(P!Answer) /\ Len(answers) \in Nat
      /\ looked \in [P!Answer -> 0 .. MaxLookups]
      /\ asked + Len(answers) + Cardinality(Counted(looked)) <= MaxLookups
  BY Bounds DEF PoolInv, PoolLookups, LookupsOf
<1>3. looked[a] \in Nat /\ looked[a] <= MaxLookups /\ looked[a] > 0
  BY <1>1, <1>2, Bounds
<1> DEFINE lk == looked'
<1> DEFINE n == looked[a]
<1>4. lk \in [P!Answer -> 0 .. MaxLookups] /\ lk[a] = n - 1
  BY <1>1, <1>2, <1>3, Bounds
<1>5. looked = [lk EXCEPT ![a] = n] /\ n = lk[a] + 1
  <2>1. \A b \in P!Answer : b # a => lk[b] = looked[b]
    BY <1>1, <1>2
  <2>2. looked = [lk EXCEPT ![a] = n]
    BY <1>2, <1>4, <2>1
  <2> QED BY <1>3, <1>4, <2>2
<1> HIDE DEF lk
<1>6. Cardinality(Counted(looked)) = Cardinality(Counted(lk)) + 1
  <2>1. n <= MaxLookups
    BY <1>3
  <2> HIDE DEF n
  <2> QED BY <1>4, <1>5, <2>1, CountedOne
<1>7. Cardinality(Counted(lk)) \in Nat
  BY CountedFinite
<1> DEFINE z == Cardinality(Counted(lk))
<1>8. answers' \in Seq(P!Answer) /\ Len(answers') = Len(answers) + 1
  BY <1>1, <1>2
<1>9. LookupsOf(asked', answers', looked') = asked + (Len(answers) + 1) + z
  BY <1>1, <1>8 DEF LookupsOf, lk
<1>10. asked + (Len(answers) + 1) + z <= MaxLookups
  <2> DEFINE l == Len(answers)
  <2>1. l \in Nat /\ z \in Nat /\ asked + l + (z + 1) <= MaxLookups
    BY <1>2, <1>6, <1>7
  <2> HIDE DEF z, l
  <2>2. asked + (l + 1) + z <= MaxLookups
    BY <1>2, <2>1, Bounds
  <2> QED BY <2>2 DEF l
<1>11. PoolLookups'
  <2>1. looked' \in [P!Answer -> 0 .. MaxLookups]
    BY <1>4 DEF lk
  <2> QED BY <1>1, <1>8, <1>9, <1>10, <2>1 DEF PoolInv, PoolLookups
<1>12. PoolConns' /\ PoolEvents'
  <2>1. poolPolling' \in BOOLEAN /\ poolEv' \subseteq poolEv \cup {0}
    BY <1>1 DEF PoolInv, PoolEvents, P!Resolver
  <2> QED BY <1>1, <2>1, SamePool
<1> QED BY <1>11, <1>12 DEF PoolInv

LEMMA ServerStepStep ==
    ASSUME PoolInv, P!ServerStep
    PROVE  PoolInv'
<1>0. PICK k \in 1 .. Len(pool) :
        \E r : r \in P!Conn /\ r.index = pool[k].index /\ r.status = pool[k].status /\ P!Outside(k, r)
  <2>1. PICK k \in 1 .. Len(pool) :
            \/ P!Outside(k, [pool[k] EXCEPT !.scon = "up"])
            \/ P!Outside(k, [pool[k] EXCEPT !.hin = TRUE])
            \/ P!Outside(k, [pool[k] EXCEPT !.sin = TRUE])
            \/ P!Outside(k, [pool[k] EXCEPT !.end = TRUE])
    BY DEF P!ServerStep
  <2> DEFINE t == pool[k]
  <2> DEFINE r1 == [t EXCEPT !.scon = "up"]
  <2> DEFINE r2 == [t EXCEPT !.hin = TRUE]
  <2> DEFINE r3 == [t EXCEPT !.sin = TRUE]
  <2> DEFINE r4 == [t EXCEPT !.end = TRUE]
  <2>2. t \in P!Conn
    BY DEF PoolInv, PoolConns
  <2>3. P!Outside(k, r1) \/ P!Outside(k, r2) \/ P!Outside(k, r3) \/ P!Outside(k, r4)
    BY <2>1
  <2> HIDE DEF t
  <2>4. /\ r1 \in P!Conn /\ r1.index = t.index /\ r1.status = t.status
        /\ r2 \in P!Conn /\ r2.index = t.index /\ r2.status = t.status
        /\ r3 \in P!Conn /\ r3.index = t.index /\ r3.status = t.status
        /\ r4 \in P!Conn /\ r4.index = t.index /\ r4.status = t.status
    BY <2>2 DEF P!Conn
  <2> HIDE DEF r1, r2, r3, r4
  <2>5. \E r : r \in P!Conn /\ r.index = t.index /\ r.status = t.status /\ P!Outside(k, r)
    BY <2>3, <2>4
  <2> QED BY <2>5 DEF t
<1>1. PICK r : r \in P!Conn /\ r.index = pool[k].index /\ r.status = pool[k].status /\ P!Outside(k, r)
  BY <1>0
<1>2. /\ pool' = [pool EXCEPT ![k] = r] /\ poolEv' = poolEv \cup {r.index} /\ UNCHANGED P!dns
      /\ poolBatch' = poolBatch /\ poolPolling' = poolPolling
  BY <1>1 DEF P!Outside
<1>3. pool' \in Seq(P!Conn) /\ Len(pool') = Len(pool) /\ Distinct(pool') /\ Idx(pool') = Idx(pool)
  BY <1>1, <1>2, OneServed DEF PoolInv
<1>4. PoolConns'
  <2>1. pool \in Seq(P!Conn) /\ Len(pool) <= Size /\ Open(pool)
    BY DEF PoolInv, PoolConns
  <2>2. \A j \in 1 .. Len(pool) : pool'[j] = IF j = k THEN r ELSE pool[j]
    BY <1>2, <2>1
  <2>3. \A j \in 1 .. Len(pool) : ~P!IsShutdown(pool'[j].status)
    BY <1>1, <2>1, <2>2 DEF Open
  <2> QED BY <1>3, <2>1, <2>3 DEF PoolConns, Distinct, Open
<1>5. PoolEvents'
  <2>1. r.index \in Idx(pool)
    BY <1>1 DEF Idx
  <2>2. poolEv' \subseteq Idx(pool') \cup {0} /\ poolPolling' \in BOOLEAN
    BY <1>2, <1>3, <2>1 DEF PoolInv, PoolEvents
  <2> QED BY <1>2, <2>2, SameBatch DEF PoolInv
<1>6. PoolLookups'
  BY <1>2, SameLookups DEF PoolInv
<1> QED BY <1>4, <1>5, <1>6 DEF PoolInv

LEMMA PoolInductive == PoolInv /\ [P!Next]_(P!vars) => PoolInv'
<1> SUFFICES ASSUME PoolInv, [P!Next]_(P!vars) PROVE PoolInv'
  OBVIOUS
<1>1. CASE P!Get
  BY <1>1, GetStep
<1>2. CASE P!Ready
  BY <1>2, ReadyStep
<1>3. CASE P!CheckTimeout
  BY <1>3, TimeoutStep
<1>4. CASE P!Resolve
  BY <1>4, ResolveStep
<1>5. CASE P!Fetch
  BY <1>5, FetchStep
<1>6. CASE P!EndOfBatch
  <2>1. UNCHANGED P!dns /\ pool' = pool /\ poolBatch' = poolBatch /\ poolPolling' \in BOOLEAN /\ poolEv' \subseteq poolEv \cup {0}
    BY <1>6 DEF P!EndOfBatch
  <2> QED BY <2>1, SamePool, SameLookups DEF PoolInv
<1>7. CASE P!LookUp
  BY <1>7, LookUpStep
<1>8. CASE P!SendAnswer
  BY <1>8, SendAnswerStep
<1>9. CASE P!ServerMoves
  <2>1. /\ moves < MaxMoves /\ moves' = moves + 1 /\ real' \in Addrs /\ pool' = pool /\ addr' = addr
        /\ asked' = asked /\ looked' = looked /\ answers' = answers
        /\ poolEv' = poolEv /\ poolBatch' = poolBatch /\ poolPolling' = poolPolling
    BY <1>9 DEF P!ServerMoves
  <2>2. moves' \in 0 .. MaxMoves
    <3>1. moves \in 0 .. MaxMoves
      BY DEF PoolInv, PoolLookups
    <3> QED BY <2>1, <3>1, Bounds
  <2>3. PoolLookups'
    BY <2>1, <2>2 DEF PoolInv, PoolLookups, LookupsOf, Counted
  <2>4. poolPolling' \in BOOLEAN /\ poolEv' \subseteq poolEv \cup {0}
    BY <2>1 DEF PoolInv, PoolEvents
  <2> QED BY <2>1, <2>3, <2>4, SamePool DEF PoolInv
<1>10. CASE P!ServerStep
  BY <1>10, ServerStepStep
<1>11. CASE UNCHANGED P!vars
  <2>1. /\ pool' = pool /\ poolEv' = poolEv /\ poolBatch' = poolBatch /\ poolPolling' = poolPolling /\ UNCHANGED P!dns
    BY <1>11 DEF P!vars, P!dns
  <2>2. poolPolling' \in BOOLEAN /\ poolEv' \subseteq poolEv \cup {0}
    BY <2>1 DEF PoolInv, PoolEvents
  <2> QED BY <2>1, <2>2, SamePool, SameLookups DEF PoolInv
<1> QED BY <1>1, <1>2, <1>3, <1>4, <1>5, <1>6, <1>7, <1>8, <1>9, <1>10, <1>11 DEF P!Next

LEMMA PoolInitially == P!Init => PoolInv
<1> SUFFICES ASSUME P!Init PROVE PoolInv
  OBVIOUS
<1> DEFINE e == <<>>
<1>1. e \in Seq(P!Conn) /\ Len(e) = 0 /\ Distinct(e) /\ Open(e)
  BY DEF Distinct, Open
<1>2. poolEv = {} /\ poolBatch = [x \in P!Source |-> {}] /\ poolPolling = TRUE
  BY DEF P!Init
<1>3. Eventful = {}
  <2>1. \A y \in 1 .. MaxIndex : y \in P!Source
    BY Bounds DEF P!Source
  <2> QED BY <1>2, <2>1 DEF Eventful
<1>4. Cardinality(Eventful) <= Size
  <2>1. Cardinality(Eventful) = 0
    BY <1>3, FS_EmptySet
  <2> QED BY <2>1, Bounds
<1>5. pool = IF Size > 1 THEN P!Alloc(e, Size) ELSE e
  BY DEF P!Init
<1> HIDE DEF e
<1>6. Size \in 0 .. Size - Len(e) /\ Len(e) <= Size /\ poolEv \subseteq Idx(e) \cup {0} /\ addr \in Addrs
  BY <1>1, <1>2, Bounds DEF P!Init
<1>7. PoolConns
  <2> DEFINE a == P!Alloc(e, Size)
  <2>1. a = P!Alloc(e, Size)
    OBVIOUS
  <2> HIDE DEF a
  <2>2. a \in Seq(P!Conn) /\ Len(a) = Len(e) + Size /\ Distinct(a) /\ Open(a)
    BY <1>1, <1>4, <1>6, <2>1, Alloced
  <2> QED BY <1>1, <1>5, <1>6, <2>1, <2>2, Bounds DEF PoolConns
<1>8. PoolEvents
  BY <1>2, <1>4 DEF PoolEvents
<1>9. PoolLookups
  <2>1. /\ addr \in Addrs /\ real \in Addrs /\ moves = 0 /\ asked = 0 /\ answers = <<>>
        /\ looked = [a \in P!Answer |-> 0]
    BY DEF P!Init
  <2>2. Counted(looked) = {}
    <3>1. \A a \in P!Answer, m \in 1 .. MaxLookups : ~(m <= looked[a])
      BY <2>1, Bounds
    <3> QED BY <3>1 DEF Counted
  <2>3. Cardinality(Counted(looked)) = 0
    BY <2>2, FS_EmptySet
  <2>4. LookupsOf(asked, answers, looked) = 0
    BY <2>1, <2>3 DEF LookupsOf
  <2> QED BY <2>1, <2>4, Bounds DEF PoolLookups
<1> QED BY <1>7, <1>8, <1>9 DEF PoolInv

LEMMA PoolInvGives == PoolInv => PoolNoneClosed
<1> SUFFICES ASSUME PoolInv PROVE PoolNoneClosed
  OBVIOUS
<1>1. pool \in Seq(P!Conn) /\ Len(pool) <= Size /\ Distinct(pool) /\ Open(pool)
  BY DEF PoolInv, PoolConns
<1>2. poolEv \subseteq P!Source
  <2>1. Idx(pool) \subseteq 1 .. MaxIndex
    BY <1>1, IdxSize
  <2>2. poolEv \subseteq Idx(pool) \cup {0}
    BY DEF PoolInv, PoolEvents
  <2> QED BY <2>1, <2>2, Bounds DEF P!Source
<1>3. looked \in [P!Answer -> Nat]
  BY Bounds DEF PoolInv, PoolLookups
<1>4. P!TypeOK
  BY <1>1, <1>2, <1>3 DEF P!TypeOK, PoolInv, PoolEvents, PoolLookups, Distinct
<1> QED BY <1>1, <1>4 DEF PoolNoneClosed, P!NoneClosed, Open

\* For any size of the pool, any addresses of the server and any number of lookups:
\* the pool never holds, and so get never hands out, a connection that it knows to be
\* closed; ready and check_timeout take out those that are closed and no others, and
\* no two connections have one index.
THEOREM PoolHandsOutOpen == MCSpec => []PoolNoneClosed
<1>1. MCInit => PoolInv
  BY PoolInitially DEF MCInit
<1>2. PoolInv /\ [MCNext]_all => PoolInv'
  <2> SUFFICES ASSUME PoolInv, [MCNext]_all PROVE PoolInv'
    OBVIOUS
  <2>1. [P!Next]_(P!vars)
    BY DEF MCNext, TcpTurn, PoolTurn, UdpTurn, all, idle, P!vars
  <2> QED BY <2>1, PoolInductive
<1> QED BY <1>1, <1>2, PoolInvGives, PTL DEF MCSpec

-----------------------------------------------------------------------------
(* Wake-ups: the idle pool *)

\* A connection of the pool has an event to come, or one in the batch, for what is to
\* be read and what is to be written; e: an edge is raised, b: what the batch holds.
PoolStirred(r, e, b) ==
    /\ (r.tls # "start" => r.scon = "up") /\ (r.hin \/ r.sin => r.tls # "start")
    /\ e \/ "r" \in b \/ ~(r.hin \/ r.sin \/ r.end)
    /\ e \/ "w" \in b \/ ~(r.scon = "up" /\ P!WantsWrite(r))
    /\ "w" \in b => r.scon = "up" \/ (r.end /\ "r" \in b)

\* Whoever is readable is writable as well, since no answer comes before the connect.
PoolAwake ==
    /\ \A x \in P!Source : (poolPolling => poolBatch[x] = {})
                           /\ (x # 0 /\ "r" \in poolBatch[x] => "w" \in poolBatch[x])
    /\ \A k \in 1 .. Len(pool) : PoolStirred(pool[k], pool[k].index \in poolEv, poolBatch[pool[k].index])

\* ready leaves nothing to read and nothing to write, or drops the connection.
LEMMA ServeStirs ==
    ASSUME NEW r \in P!Conn, NEW e \in BOOLEAN, NEW b \in SUBSET {"r", "w"}, b # {},
           "r" \in b => "w" \in b, PoolStirred(r, e, b),
           NEW u, u = P!Serve(r, b), u.status # "Deregistered"
    PROVE  PoolStirred(u, e, {})
<1> DEFINE t == IF "r" \in b THEN P!DoRead(r) ELSE r
           st == P!Established(t.status)
           v == [t EXCEPT !.status = st]
           w == P!DoSend(v)
<1>1. "w" \in b
  OBVIOUS
<1>2. u = P!Checked(w)
  BY <1>1 DEF P!Serve
<1>3. r.tls \in {"start", "sent", "fin", "done"} /\ r.scon \in {"connecting", "up"} /\ r.status \in P!Status
      /\ r.hin \in BOOLEAN /\ r.sin \in BOOLEAN /\ r.end \in BOOLEAN
  BY DEF P!Conn
<1>4. t \in P!Conn
  BY ServedConn
<1>5. /\ t.scon = r.scon /\ t.end = r.end
      /\ "r" \in b => ~t.hin /\ ~t.sin /\ t.tls = (IF r.hin THEN "fin" ELSE r.tls) /\ t.status = (IF r.end THEN P!Shutdown(r.status) ELSE r.status)
      /\ "r" \notin b => t = r
  BY DEF P!DoRead, P!Conn
<1> HIDE DEF t
<1>6. t.status \in P!Status /\ t.tls \in {"start", "sent", "fin", "done"} /\ t.hin \in BOOLEAN /\ t.sin \in BOOLEAN
  BY <1>4 DEF P!Conn
<1>7. st \in P!Status /\ st # "Connecting" /\ (P!IsShutdown(t.status) => P!IsShutdown(st))
  BY <1>6 DEF P!Status, P!Established, P!IsShutdown
<1> HIDE DEF st
<1>8. v \in P!Conn /\ v.status = st /\ v.tls = t.tls /\ v.hin = t.hin /\ v.sin = t.sin /\ v.end = t.end /\ v.scon = t.scon
  BY <1>4, <1>7 DEF P!Conn
<1> HIDE DEF v
<1>9. /\ w.hin = v.hin /\ w.sin = v.sin /\ w.end = v.end /\ w.scon = v.scon
      /\ w \in P!Conn
      /\ P!IsShutdown(w.status) \/ (w.tls \in {"sent", "done"} /\ ~P!IsShutdown(v.status))
  BY <1>7, <1>8 DEF P!DoSend, P!Conn, P!WantsWrite, P!Shutdown, P!IsShutdown, P!Status
<1> HIDE DEF w
<1>10. /\ u.hin = w.hin /\ u.sin = w.sin /\ u.end = w.end /\ u.scon = w.scon /\ u.tls = w.tls
       /\ ~P!IsShutdown(w.status)
  BY <1>2, <1>9 DEF P!Checked, P!Conn, P!CheckStatus
<1>11. u.tls \in {"sent", "done"} /\ ~P!IsShutdown(t.status)
  BY <1>7, <1>8, <1>9, <1>10
<1>12. "r" \in b => ~r.end
  BY <1>5, <1>11 DEF P!Shutdown, P!IsShutdown
<1>13. ~P!WantsWrite(u)
  BY <1>11 DEF P!WantsWrite
<1>14. u.hin = t.hin /\ u.sin = t.sin /\ u.end = r.end /\ u.scon = r.scon /\ u.tls # "start"
  BY <1>5, <1>8, <1>9, <1>10, <1>11
<1>15. e \/ ~(u.hin \/ u.sin \/ u.end)
  BY <1>3, <1>5, <1>6, <1>12, <1>14 DEF PoolStirred
<1>16. u.scon = "up"
  BY <1>1, <1>12, <1>14 DEF PoolStirred
<1> QED BY <1>13, <1>14, <1>15, <1>16 DEF PoolStirred

LEMMA ReadyAwake ==
    ASSUME PoolInv, PoolAwake, P!Ready
    PROVE  PoolAwake'
<1>1. PICK x \in P!Source \ {P!Resolver} :
        /\ ~poolPolling /\ poolBatch[x] # {}
        /\ poolBatch' = [poolBatch EXCEPT ![x] = {}] /\ poolPolling' = poolPolling
        /\ IF \E k \in 1 .. Len(pool) : pool[k].index = x
           THEN LET k == CHOOSE j \in 1 .. Len(pool) : pool[j].index = x
                    r == P!Serve(pool[k], poolBatch[x])
                IN /\ pool' = P!Drop([pool EXCEPT ![k] = r], k)
                   /\ poolEv' = IF r.status = "Deregistered" THEN poolEv \ {x} ELSE poolEv
           ELSE UNCHANGED <<pool, poolEv>>
  BY DEF P!Ready
<1>2. poolBatch \in [P!Source -> SUBSET {"r", "w"}] /\ pool \in Seq(P!Conn) /\ Distinct(pool) /\ x # 0
  BY DEF PoolInv, PoolEvents, PoolConns, P!Resolver
<1>3. \A y \in P!Source : poolBatch'[y] = IF y = x THEN {} ELSE poolBatch[y]
  BY <1>1, <1>2
<1>4. \A k \in 1 .. Len(pool) : /\ pool[k] \in P!Conn /\ pool[k].index \in P!Source
                                /\ PoolStirred(pool[k], pool[k].index \in poolEv, poolBatch[pool[k].index])
  <2>1. \A r \in P!Conn : r.index \in P!Source
    BY Bounds DEF P!Conn, P!Source
  <2> QED BY <1>2, <2>1 DEF PoolAwake
<1>5. \A k \in 1 .. Len(pool') : PoolStirred(pool'[k], pool'[k].index \in poolEv', poolBatch'[pool'[k].index])
  <2>1. CASE ~\E k \in 1 .. Len(pool) : pool[k].index = x
    <3>1. pool' = pool /\ poolEv' = poolEv
      BY <1>1, <2>1
    <3>2. \A k \in 1 .. Len(pool) : poolBatch'[pool[k].index] = poolBatch[pool[k].index]
      BY <1>3, <1>4, <2>1
    <3> QED BY <1>4, <3>1, <3>2
  <2>2. CASE \E k \in 1 .. Len(pool) : pool[k].index = x
    <3> DEFINE k == CHOOSE j \in 1 .. Len(pool) : pool[j].index = x
    <3> DEFINE r == P!Serve(pool[k], poolBatch[x])
    <3> DEFINE q == [pool EXCEPT ![k] = r]
    <3>1. k \in 1 .. Len(pool) /\ pool[k].index = x
      BY <2>2
    <3>2. pool' = P!Drop(q, k) /\ poolEv' = IF r.status = "Deregistered" THEN poolEv \ {x} ELSE poolEv
      BY <1>1, <2>2
    <3> HIDE DEF k
    <3>3. r.index = x
      BY <1>4, <3>1, ServedConn
    <3>4. r.status # "Deregistered" => PoolStirred(r, x \in poolEv, {})
      <4> DEFINE e == x \in poolEv
                 b == poolBatch[x]
      <4>1. e \in BOOLEAN /\ b \in SUBSET {"r", "w"} /\ b # {} /\ ("r" \in b => "w" \in b) /\ pool[k] \in P!Conn
        BY <1>1, <1>2, <1>4, <3>1 DEF PoolAwake
      <4>2. PoolStirred(pool[k], e, b)
        BY <1>4, <3>1
      <4>3. r = P!Serve(pool[k], b)
        OBVIOUS
      <4> HIDE DEF e, b, r
      <4>4. r.status # "Deregistered" => PoolStirred(r, e, {})
        BY <4>1, <4>2, <4>3, ServeStirs
      <4> QED BY <4>4 DEF e
    <3>5. Len(q) = Len(pool) /\ q[k] = r /\ \A j \in 1 .. Len(pool) : j # k => q[j] = pool[j]
      BY <1>2, <3>1
    <3> HIDE DEF r, q
    <3>6. \A j \in 1 .. Len(pool) : j # k => pool[j].index # x
      BY <1>2, <3>1 DEF Distinct
    <3>7. \A j \in 1 .. Len(pool) : j # k => PoolStirred(q[j], q[j].index \in poolEv', poolBatch'[q[j].index])
      <4> TAKE j \in 1 .. Len(pool)
      <4> HAVE j # k
      <4>1. q[j] = pool[j] /\ pool[j].index # x /\ poolBatch'[pool[j].index] = poolBatch[pool[j].index]
        BY <1>3, <1>4, <3>5, <3>6
      <4>2. pool[j].index \in poolEv' <=> pool[j].index \in poolEv
        BY <3>2, <4>1
      <4> QED BY <1>4, <4>1, <4>2 DEF PoolStirred
    <3>8. CASE r.status = "Deregistered"
      <4>1. pool' = P!SwapRemove(q, k) /\ Len(pool) \in Nat
        BY <1>2, <3>2, <3>5, <3>8 DEF P!Drop
      <4> DEFINE n == Len(pool)
      <4>2. Len(pool') = n - 1 /\ \A j \in 1 .. n - 1 : pool'[j] = IF j = k THEN q[n] ELSE q[j]
        <5> DEFINE f == [j \in 1 .. n - 1 |-> IF j = k THEN q[n] ELSE q[j]]
        <5>1. pool' = f
          BY <3>5, <4>1 DEF P!SwapRemove
        <5>2. pool' \in Seq(P!Conn)
          BY ReadyStep DEF PoolInv, PoolConns
        <5>3. n - 1 \in Nat
          BY <3>1, <4>1
        <5> QED BY <5>1, <5>2, <5>3
      <4>3. \A j \in 1 .. n - 1 : j \in 1 .. n /\ n \in 1 .. n /\ j # n
        BY <4>1
      <4> QED BY <3>7, <4>2, <4>3
    <3>9. CASE r.status # "Deregistered"
      <4>1. pool' = q /\ poolEv' = poolEv
        BY <3>2, <3>5, <3>9 DEF P!Drop
      <4>2. PoolStirred(q[k], q[k].index \in poolEv', poolBatch'[q[k].index])
        BY <1>3, <3>3, <3>4, <3>5, <3>9, <4>1
      <4> QED BY <3>5, <3>7, <4>1, <4>2
    <3> QED BY <3>8, <3>9
  <2> QED BY <2>1, <2>2
<1> QED BY <1>1, <1>3, <1>5 DEF PoolAwake

\* check_timeout reads what it finds; the edge that announced it has still to be
\* fetched and will send the rest of the handshake.
LEMMA TimeoutAwake ==
    ASSUME PoolInv, PoolAwake, P!CheckTimeout
    PROVE  PoolAwake'
<1> DEFINE n == Len(pool)
<1> DEFINE q == [k \in 1 .. Len(pool) |-> P!Checked(P!DoRead(pool[k]))]
<1> DEFINE dead == {k \in 1 .. Len(q) : q[k].status = "Deregistered"}
<1>1. /\ pool' = P!Sweep(q, dead) /\ poolEv' = poolEv \ {q[k].index : k \in dead} /\ poolPolling
      /\ poolBatch' = poolBatch /\ poolPolling' = poolPolling
  BY DEF P!CheckTimeout
<1>2. n \in Nat /\ \A k \in 1 .. n : pool[k] \in P!Conn
  BY DEF PoolInv, PoolConns
<1>3. \A k \in 1 .. n : q[k] = P!Checked(P!DoRead(pool[k]))
  OBVIOUS
<1>4. q \in [1 .. n -> P!Conn] /\ \A k \in 1 .. n : q[k].index = pool[k].index
  BY <1>2, ServedConn
<1>s. \A k \in 1 .. n : q[k].status # "Deregistered" =>
        PoolStirred(q[k], q[k].index \in poolEv, poolBatch[q[k].index])
  <2> TAKE k \in 1 .. n
  <2> HAVE q[k].status # "Deregistered"
  <2> DEFINE r == pool[k]
             t == P!DoRead(r)
             u == P!Checked(t)
             e == r.index \in poolEv
             b == poolBatch[r.index]
  <2>1. r \in P!Conn /\ q[k] = u /\ u.index = r.index
    BY <1>2, <1>3, <1>4
  <2>2. PoolStirred(r, e, b) /\ b = {}
    <3>1. \A x \in P!Conn : x.index \in P!Source
      BY Bounds DEF P!Conn, P!Source
    <3> QED BY <1>1, <2>1, <3>1 DEF PoolAwake
  <2>3. u.status # "Deregistered"
    BY <2>1
  <2> HIDE DEF r, e, b
  <2>4. /\ t.scon = r.scon /\ t.end = r.end /\ ~t.hin /\ ~t.sin
        /\ t.tls = (IF r.hin THEN "fin" ELSE r.tls) /\ t.status = (IF r.end THEN P!Shutdown(r.status) ELSE r.status)
    BY <2>1 DEF P!DoRead, P!Conn
  <2>a. t \in P!Conn
    BY <2>1, ServedConn
  <2> HIDE DEF t
  <2>5. /\ u.hin = t.hin /\ u.sin = t.sin /\ u.end = t.end /\ u.scon = t.scon /\ u.tls = t.tls
        /\ ~P!IsShutdown(t.status)
    BY <2>3, <2>a DEF P!Checked, P!Conn, P!CheckStatus
  <2> HIDE DEF u
  <2>6. ~r.end
    BY <2>4, <2>5 DEF P!Shutdown, P!IsShutdown
  <2>7. PoolStirred(u, e, b)
    BY <2>2, <2>4, <2>5, <2>6 DEF PoolStirred, P!WantsWrite
  <2> QED BY <2>1, <2>7 DEF e, b
<1> HIDE DEF q
<1>5. q \in Seq(P!Conn) /\ Len(q) = n
  <2>1. q \in Seq(P!Conn)
    BY <1>2, <1>4, SeqDef
  <2>2. Len(q) \in Nat /\ 1 .. n = 1 .. Len(q)
    BY <1>4, <2>1, LenProperties
  <2>3. (n \in 1 .. n <=> n \in 1 .. Len(q)) /\ (Len(q) \in 1 .. n <=> Len(q) \in 1 .. Len(q))
    BY <2>2
  <2> QED BY <1>2, <2>1, <2>2, <2>3
<1>6. Distinct(q)
  <2>1. \A j, k \in 1 .. n : j # k => pool[j].index # pool[k].index
    BY DEF PoolInv, PoolConns, Distinct
  <2>2. \A j, k \in 1 .. n : j # k => q[j].index # q[k].index
    BY <1>4, <2>1
  <2> QED BY <1>5, <2>2 DEF Distinct
<1>d. /\ \A k \in 1 .. n : k \in dead <=> q[k].status = "Deregistered"
      /\ dead \subseteq 1 .. n
  BY <1>5
<1> HIDE DEF dead
<1>7. SweptTo(q, dead, 1, pool')
  BY <1>1, <1>5, <1>6, Swept
<1>8. \A j \in 1 .. Len(pool') : \E i \in 1 .. n : i \notin dead /\ pool'[j] = q[i]
  <2>1. /\ pool' \in Seq(P!Conn)
        /\ \A j \in 1 .. Len(pool') : IF j < 1 THEN pool'[j] = q[j] ELSE \E i \in 1 .. n : i \notin dead /\ pool'[j] = q[i]
    BY <1>5, <1>7 DEF SweptTo
  <2>2. \A j \in 1 .. Len(pool') : ~(j < 1)
    BY <2>1
  <2> QED BY <2>1, <2>2
<1>9. \A j \in 1 .. Len(pool') : PoolStirred(pool'[j], pool'[j].index \in poolEv', poolBatch'[pool'[j].index])
  <2> TAKE j \in 1 .. Len(pool')
  <2>1. PICK i \in 1 .. n : i \notin dead /\ pool'[j] = q[i]
    BY <1>8
  <2>2. PoolStirred(q[i], q[i].index \in poolEv, poolBatch[q[i].index])
    BY <1>d, <1>s, <2>1
  <2>3. \A k \in dead : q[k].index # q[i].index
    BY <1>5, <1>6, <1>d, <2>1 DEF Distinct
  <2>4. q[i].index \in poolEv' <=> q[i].index \in poolEv
    BY <1>1, <2>3
  <2> QED BY <1>1, <2>1, <2>2, <2>4 DEF PoolStirred
<1> QED BY <1>1, <1>9 DEF PoolAwake

\* A connection that alloc adds has nothing to do before its connect is over, and no
\* event of an earlier one has its index.
LEMMA AllocStirs ==
    ASSUME NEW q \in Seq(P!Conn), Len(q) <= Size, poolEv \subseteq Idx(q) \cup {0}, Cardinality(Eventful) <= Size,
           poolBatch \in [P!Source -> SUBSET {"r", "w"}], addr \in Addrs,
           NEW n \in 0 .. Size - Len(q), NEW a, a = P!Alloc(q, n), NEW k \in 1 .. Len(a), k \notin 1 .. Len(q)
    PROVE  \A e \in BOOLEAN : PoolStirred(a[k], e, poolBatch[a[k].index])
<1> DEFINE F == (1 .. MaxIndex) \ P!Taken(q)
<1> DEFINE x == [j \in 1 .. n |-> P!NewConn(P!NextIndex(q, j))]
<1>0. Len(q) \in Nat /\ n \in Nat
  BY Bounds
<1>1. F \in SUBSET (1 .. MaxIndex) /\ \A i \in F : poolBatch[i] = {}
  <2>1. \A i \in 1 .. MaxIndex : i \in P!Source
    BY Bounds DEF P!Source
  <2> QED BY <2>1 DEF P!Taken
<1>2. \A j \in 1 .. n : P!NextIndex(q, j) \in F
  BY NextFree
<1> HIDE DEF F
<1>3. \A j \in 1 .. n : x[j] = P!NewConn(P!NextIndex(q, j))
  OBVIOUS
<1>4. \A i \in F : /\ P!NewConn(i) \in P!Conn /\ P!NewConn(i).index = i
                   /\ \A e \in BOOLEAN : PoolStirred(P!NewConn(i), e, {})
  BY <1>1 DEF P!NewConn, P!Conn, P!Status, PoolStirred
<1>5. x \in [1 .. n -> P!Conn]
  BY <1>2, <1>4
<1> HIDE DEF x
<1>6. x \in Seq(P!Conn) /\ Len(x) = n
  <2>1. x \in Seq(P!Conn)
    BY <1>0, <1>5, SeqDef
  <2>2. Len(x) \in Nat /\ 1 .. n = 1 .. Len(x)
    BY <1>5, <2>1, LenProperties
  <2>3. (n \in 1 .. n <=> n \in 1 .. Len(x)) /\ (Len(x) \in 1 .. n <=> Len(x) \in 1 .. Len(x))
    BY <2>2
  <2> QED BY <1>0, <2>1, <2>2, <2>3
<1>7. a = q \o x
  BY DEF P!Alloc, x
<1>8. Len(a) = Len(q) + n /\ a[k] = IF k <= Len(q) THEN q[k] ELSE x[k - Len(q)]
  <2>1. Len(a) = Len(q) + Len(x)
    BY <1>6, <1>7, ConcatProperties
  <2>2. \A j \in 1 .. Len(q) + Len(x) : (q \o x)[j] = IF j <= Len(q) THEN q[j] ELSE x[j - Len(q)]
    BY <1>6, ConcatProperties
  <2> QED BY <1>6, <1>7, <2>1, <2>2
<1>9. ~(k <= Len(q)) /\ k - Len(q) \in 1 .. n
  BY <1>0, <1>8
<1>10. a[k] = P!NewConn(P!NextIndex(q, k - Len(q)))
  BY <1>3, <1>8, <1>9
<1>11. P!NextIndex(q, k - Len(q)) \in F
  BY <1>2, <1>9
<1> QED BY <1>1, <1>4, <1>10, <1>11

LEMMA GetAwake ==
    ASSUME PoolInv, PoolAwake, P!Get
    PROVE  PoolAwake'
<1>1. PICK n \in P!Connects(pool) :
        LET q == P!Alloc(pool, n) IN
        /\ pool' = IF q = <<>> THEN q ELSE SubSeq(q, 1, Len(q) - 1)
        /\ poolEv' = IF q = <<>> THEN poolEv ELSE poolEv \ {q[Len(q)].index}
  BY DEF P!Get, P!GetWith
<1>2. poolBatch' = poolBatch /\ poolPolling' = poolPolling
  BY DEF P!Get, P!GetWith
<1> DEFINE q == P!Alloc(pool, n)
<1>3. /\ pool' = IF q = <<>> THEN q ELSE SubSeq(q, 1, Len(q) - 1)
      /\ poolEv' = IF q = <<>> THEN poolEv ELSE poolEv \ {q[Len(q)].index}
  BY <1>1
<1>4. /\ pool \in Seq(P!Conn) /\ Len(pool) <= Size /\ Distinct(pool) /\ Open(pool) /\ Len(pool) \in Nat
      /\ poolEv \subseteq Idx(pool) \cup {0} /\ Cardinality(Eventful) <= Size
      /\ poolBatch \in [P!Source -> SUBSET {"r", "w"}] /\ addr \in Addrs
  BY DEF PoolInv, PoolConns, PoolEvents, PoolLookups
<1>5. n \in 0 .. Size - Len(pool)
  <2>1. 0 \in 0 .. Size - Len(pool)
    BY <1>4, Bounds
  <2> QED BY <2>1 DEF P!Connects
<1>q. q = P!Alloc(pool, n)
  OBVIOUS
<1> HIDE DEF q
<1>6. q \in Seq(P!Conn) /\ Distinct(q)
  BY <1>4, <1>5, <1>q, Alloced
<1>7. \A k \in 1 .. Len(pool) : q[k] = pool[k]
  BY <1>4, <1>5, <1>q, Alloced
<1>8. \A k \in 1 .. Len(q) : PoolStirred(q[k], q[k].index \in poolEv, poolBatch[q[k].index])
  <2> TAKE k \in 1 .. Len(q)
  <2>1. CASE k \in 1 .. Len(pool)
    BY <1>7, <2>1 DEF PoolAwake
  <2>2. CASE k \notin 1 .. Len(pool)
    <3>1. \A e \in BOOLEAN : PoolStirred(q[k], e, poolBatch[q[k].index])
      BY <1>4, <1>5, <1>q, <2>2, AllocStirs
    <3>2. (q[k].index \in poolEv) \in BOOLEAN
      OBVIOUS
    <3> QED BY <3>1, <3>2
  <2> QED BY <2>1, <2>2
<1>9. \A k \in 1 .. Len(pool') : PoolStirred(pool'[k], pool'[k].index \in poolEv', poolBatch'[pool'[k].index])
  <2>1. CASE q = <<>>
    BY <1>2, <1>3, <1>8, <2>1
  <2>2. CASE q # <<>>
    <3> DEFINE m == Len(q)
    <3> DEFINE l == m - 1
    <3> DEFINE p == SubSeq(q, 1, l)
    <3>1. m \in Nat /\ l \in Nat /\ m # 0
      BY <1>6, <2>2
    <3>2. p \in Seq(P!Conn) /\ Len(p) = l /\ \A j \in 1 .. l : p[j] = q[j]
      <4>1. q \in Seq(P!Conn) /\ 1 \in Int /\ l \in Int /\ \A j \in 1 .. l : q[j] \in P!Conn
        BY <1>6, <3>1
      <4>2. /\ p \in Seq(P!Conn) /\ Len(p) = (IF 1 <= l THEN l - 1 + 1 ELSE 0)
            /\ \A j \in 1 .. l - 1 + 1 : p[j] = q[1 + j - 1]
        <5> HIDE DEF l, m
        <5> QED BY <4>1, SubSeqProperties
      <4>3. \A j \in 1 .. l : j \in 1 .. l - 1 + 1 /\ 1 + j - 1 = j
        BY <3>1
      <4> HIDE DEF p, l, m
      <4>4. Len(p) = l
        BY <3>1, <4>2
      <4> QED BY <4>2, <4>3, <4>4
    <3>3. pool' = p /\ poolEv' = poolEv \ {q[m].index}
      BY <1>3, <2>2
    <3>4. \A j \in 1 .. l : j \in 1 .. m /\ j # m /\ m \in 1 .. m
      BY <3>1
    <3>5. \A j \in 1 .. l : q[j].index # q[m].index
      BY <1>6, <3>4 DEF Distinct
    <3>6. \A j \in 1 .. l : PoolStirred(q[j], q[j].index \in poolEv', poolBatch[q[j].index])
      BY <1>8, <3>3, <3>4, <3>5 DEF PoolStirred
    <3> HIDE DEF p, l, m
    <3> QED BY <1>2, <3>2, <3>3, <3>6
  <2> QED BY <2>1, <2>2
<1> QED BY <1>2, <1>9 DEF PoolAwake

LEMMA FetchAwake ==
    ASSUME PoolInv, PoolAwake, P!Fetch
    PROVE  PoolAwake'
<1> DEFINE Of(x) == UNION {P!Flags(pool[k]) : k \in {j \in 1 .. Len(pool) : pool[j].index = x}}
<1>1. /\ poolPolling /\ poolPolling' = FALSE /\ poolEv' = {} /\ pool' = pool
      /\ poolBatch' = [x \in P!Source |-> IF x \notin poolEv THEN {} ELSE IF x = P!Resolver THEN {"r"} ELSE Of(x)]
  BY DEF P!Fetch
<1>2. pool \in Seq(P!Conn) /\ Distinct(pool) /\ poolBatch \in [P!Source -> SUBSET {"r", "w"}]
  BY DEF PoolInv, PoolConns, PoolEvents
<1>3. \A k \in 1 .. Len(pool) : /\ pool[k] \in P!Conn /\ pool[k].index \in P!Source /\ pool[k].index # P!Resolver
                                /\ PoolStirred(pool[k], pool[k].index \in poolEv, {})
  <2> TAKE k \in 1 .. Len(pool)
  <2>1. \A r \in P!Conn : r.index \in P!Source /\ r.index # P!Resolver
    BY Bounds DEF P!Conn, P!Source, P!Resolver
  <2>2. pool[k] \in P!Conn
    BY <1>2
  <2>3. poolBatch[pool[k].index] = {}
    BY <1>1, <2>1, <2>2 DEF PoolAwake
  <2>4. PoolStirred(pool[k], pool[k].index \in poolEv, poolBatch[pool[k].index])
    BY DEF PoolAwake
  <2> QED BY <2>1, <2>2, <2>3, <2>4
<1>4. \A k \in 1 .. Len(pool) : Of(pool[k].index) = P!Flags(pool[k])
  <2> TAKE k \in 1 .. Len(pool)
  <2>1. {j \in 1 .. Len(pool) : pool[j].index = pool[k].index} = {k}
    BY <1>2 DEF Distinct
  <2> QED BY <2>1
<1>5. \A k \in 1 .. Len(pool) : "r" \in P!Flags(pool[k]) => "w" \in P!Flags(pool[k])
  <2> TAKE k \in 1 .. Len(pool)
  <2> QED BY <1>3 DEF PoolStirred, P!Flags
<1>6. \A x \in P!Source : x # 0 /\ "r" \in poolBatch'[x] => "w" \in poolBatch'[x]
  <2> TAKE x \in P!Source
  <2> HAVE x # 0 /\ "r" \in poolBatch'[x]
  <2>1. poolBatch'[x] = Of(x) /\ "r" \in Of(x)
    BY <1>1 DEF P!Resolver
  <2>2. PICK k \in 1 .. Len(pool) : pool[k].index = x /\ "r" \in P!Flags(pool[k])
    BY <2>1
  <2>3. "w" \in Of(x)
    BY <1>5, <2>2
  <2> QED BY <2>1, <2>3
<1> HIDE DEF Of
<1>7. \A k \in 1 .. Len(pool) : PoolStirred(pool[k], FALSE, poolBatch'[pool[k].index])
  <2> TAKE k \in 1 .. Len(pool)
  <2> DEFINE r == pool[k]
             b == poolBatch'[r.index]
  <2>1. b = IF r.index \in poolEv THEN P!Flags(r) ELSE {}
    BY <1>1, <1>3, <1>4
  <2>2. PoolStirred(r, r.index \in poolEv, {}) /\ r \in P!Conn
    BY <1>3
  <2> HIDE DEF r, b
  <2>3. r.index \in poolEv => PoolStirred(r, FALSE, b)
    BY <2>1, <2>2 DEF PoolStirred, P!Flags
  <2>4. r.index \notin poolEv => PoolStirred(r, FALSE, b)
    BY <2>1, <2>2 DEF PoolStirred
  <2>5. PoolStirred(r, FALSE, b)
    BY <2>3, <2>4
  <2> QED BY <2>5 DEF r, b
<1>8. \A k \in 1 .. Len(pool') : PoolStirred(pool'[k], pool'[k].index \in poolEv', poolBatch'[pool'[k].index])
  BY <1>1, <1>7 DEF PoolStirred
<1> QED BY <1>1, <1>6, <1>8 DEF PoolAwake

LEMMA ResolveAwake ==
    ASSUME PoolInv, PoolAwake, P!Resolve
    PROVE  PoolAwake'
<1>1. /\ poolBatch' = [poolBatch EXCEPT ![P!Resolver] = {}]
      /\ pool' = pool /\ poolEv' = poolEv /\ poolPolling' = poolPolling
  BY DEF P!Resolve
<1>2. pool \in Seq(P!Conn) /\ poolBatch \in [P!Source -> SUBSET {"r", "w"}]
  BY DEF PoolInv, PoolConns, PoolEvents
<1>3. \A x \in P!Source : poolBatch'[x] = IF x = 0 THEN {} ELSE poolBatch[x]
  BY <1>1, <1>2 DEF P!Resolver
<1>4. \A k \in 1 .. Len(pool) : poolBatch'[pool[k].index] = poolBatch[pool[k].index]
  <2>1. \A r \in P!Conn : r.index \in P!Source /\ r.index # 0
    BY Bounds DEF P!Conn, P!Source
  <2> QED BY <1>2, <1>3, <2>1
<1> QED BY <1>1, <1>3, <1>4 DEF PoolAwake

\* Whatever happens to a socket raises an edge.
LEMMA ServerStepAwake ==
    ASSUME PoolInv, PoolAwake, P!ServerStep
    PROVE  PoolAwake'
<1>0. PICK k \in 1 .. Len(pool) :
        \/ P!Outside(k, [pool[k] EXCEPT !.scon = "up"])
        \/ pool[k].tls = "sent" /\ P!Outside(k, [pool[k] EXCEPT !.hin = TRUE])
        \/ pool[k].tls = "done" /\ P!Outside(k, [pool[k] EXCEPT !.sin = TRUE])
        \/ P!Outside(k, [pool[k] EXCEPT !.end = TRUE])
  BY DEF P!ServerStep
<1> DEFINE t == pool[k]
           b == poolBatch[t.index]
<1>1. t \in P!Conn /\ PoolStirred(t, t.index \in poolEv, b) /\ pool \in Seq(P!Conn) /\ Distinct(pool)
  BY DEF PoolInv, PoolConns, PoolAwake
<1>2. ASSUME NEW r, P!Outside(k, r), r.index = t.index, PoolStirred(r, TRUE, b)
      PROVE  PoolAwake'
  <2>1. /\ pool' = [pool EXCEPT ![k] = r] /\ poolEv' = poolEv \cup {r.index}
        /\ poolBatch' = poolBatch /\ poolPolling' = poolPolling
    BY <1>2 DEF P!Outside
  <2>2. Len(pool') = Len(pool) /\ \A j \in 1 .. Len(pool) : pool'[j] = IF j = k THEN r ELSE pool[j]
    BY <1>1, <2>1
  <2>3. \A j \in 1 .. Len(pool) : PoolStirred(pool'[j], pool'[j].index \in poolEv', poolBatch'[pool'[j].index])
    <3> TAKE j \in 1 .. Len(pool)
    <3>1. CASE j = k
      <4>1. pool'[j] = r /\ r.index \in poolEv' /\ poolBatch'[r.index] = b
        BY <1>2, <2>1, <2>2, <3>1
      <4> QED BY <1>2, <4>1 DEF PoolStirred
    <3>2. CASE j # k
      <4>1. pool'[j] = pool[j] /\ pool[j].index # r.index /\ poolBatch'[pool[j].index] = poolBatch[pool[j].index]
        BY <1>1, <1>2, <2>1, <2>2, <3>2 DEF Distinct
      <4>2. pool[j].index \in poolEv' <=> pool[j].index \in poolEv
        BY <2>1, <4>1
      <4>3. PoolStirred(pool[j], pool[j].index \in poolEv, poolBatch[pool[j].index])
        BY DEF PoolAwake
      <4> QED BY <4>1, <4>2, <4>3 DEF PoolStirred
    <3> QED BY <3>1, <3>2
  <2> QED BY <2>1, <2>2, <2>3 DEF PoolAwake
<1> DEFINE r1 == [t EXCEPT !.scon = "up"]
           r2 == [t EXCEPT !.hin = TRUE]
           r3 == [t EXCEPT !.sin = TRUE]
           r4 == [t EXCEPT !.end = TRUE]
<1>3. \/ P!Outside(k, r1) \/ (t.tls = "sent" /\ P!Outside(k, r2))
      \/ (t.tls = "done" /\ P!Outside(k, r3)) \/ P!Outside(k, r4)
  BY <1>0
<1> HIDE DEF t, b
<1>4. /\ r1.index = t.index /\ PoolStirred(r1, TRUE, b)
      /\ r2.index = t.index /\ (t.tls = "sent" => PoolStirred(r2, TRUE, b))
      /\ r3.index = t.index /\ (t.tls = "done" => PoolStirred(r3, TRUE, b))
      /\ r4.index = t.index /\ PoolStirred(r4, TRUE, b)
  BY <1>1 DEF P!Conn, PoolStirred
<1> HIDE DEF r1, r2, r3, r4
<1> QED BY <1>2, <1>3, <1>4

LEMMA PoolAwakeInductive == PoolInv /\ PoolAwake /\ [P!Next]_(P!vars) => PoolAwake'
<1> SUFFICES ASSUME PoolInv, PoolAwake, [P!Next]_(P!vars) PROVE PoolAwake'
  OBVIOUS
<1>s. ASSUME pool' = pool, poolBatch' = poolBatch, poolPolling' = poolPolling, poolEv' \in {poolEv, poolEv \cup {0}}
      PROVE  PoolAwake'
  <2>1. \A k \in 1 .. Len(pool) : pool[k].index \in poolEv' <=> pool[k].index \in poolEv
    <3>1. \A r \in P!Conn : r.index # 0
      BY Bounds DEF P!Conn
    <3> QED BY <1>s, <3>1 DEF PoolInv, PoolConns
  <2> QED BY <1>s, <2>1 DEF PoolAwake, PoolStirred
<1>1. CASE P!Get
  BY <1>1, GetAwake
<1>2. CASE P!Ready
  BY <1>2, ReadyAwake
<1>3. CASE P!CheckTimeout
  BY <1>3, TimeoutAwake
<1>4. CASE P!Resolve
  BY <1>4, ResolveAwake
<1>5. CASE P!Fetch
  BY <1>5, FetchAwake
<1>6. CASE P!EndOfBatch
  <2>1. pool' = pool /\ poolBatch' = poolBatch /\ poolEv' = poolEv /\ \A x \in P!Source : poolBatch[x] = {}
    BY <1>6 DEF P!EndOfBatch
  <2> QED BY <2>1 DEF PoolAwake, PoolStirred
<1>7. CASE P!LookUp
  BY <1>7, <1>s DEF P!LookUp
<1>8. CASE P!SendAnswer
  BY <1>8, <1>s DEF P!SendAnswer, P!Resolver
<1>9. CASE P!ServerMoves
  BY <1>9, <1>s DEF P!ServerMoves
<1>10. CASE P!ServerStep
  BY <1>10, ServerStepAwake
<1>11. CASE UNCHANGED P!vars
  BY <1>11, <1>s DEF P!vars
<1> QED BY <1>1, <1>2, <1>3, <1>4, <1>5, <1>6, <1>7, <1>8, <1>9, <1>10, <1>11 DEF P!Next

LEMMA PoolAwakeInitially == P!Init => PoolAwake
<1> SUFFICES ASSUME P!Init PROVE PoolAwake
  OBVIOUS
<1> DEFINE e == <<>>
<1>0. PoolInv
  BY PoolInitially
<1>1. e \in Seq(P!Conn) /\ Len(e) = 0
  OBVIOUS
<1>2. poolEv = {} /\ poolBatch = [x \in P!Source |-> {}] /\ poolPolling = TRUE
  BY DEF P!Init
<1>3. pool = IF Size > 1 THEN P!Alloc(e, Size) ELSE e
  BY DEF P!Init
<1> HIDE DEF e
<1>4. /\ Size \in 0 .. Size - Len(e) /\ Len(e) <= Size /\ poolEv \subseteq Idx(e) \cup {0}
      /\ Cardinality(Eventful) <= Size /\ poolBatch \in [P!Source -> SUBSET {"r", "w"}] /\ addr \in Addrs
  BY <1>0, <1>1, <1>2, Bounds DEF PoolInv, PoolEvents, PoolLookups
<1>5. \A k \in 1 .. Len(pool) : PoolStirred(pool[k], pool[k].index \in poolEv, poolBatch[pool[k].index])
  <2> TAKE k \in 1 .. Len(pool)
  <2>1. Len(pool) # 0 /\ k \notin 1 .. Len(e)
    BY <1>0, <1>1 DEF PoolInv, PoolConns
  <2>2. pool = P!Alloc(e, Size)
    BY <1>1, <1>3, <2>1
  <2>3. \A f \in BOOLEAN : PoolStirred(pool[k], f, poolBatch[pool[k].index])
    BY <1>1, <1>4, <2>1, <2>2, AllocStirs
  <2>4. (pool[k].index \in poolEv) \in BOOLEAN
    OBVIOUS
  <2> QED BY <2>3, <2>4
<1> QED BY <1>2, <1>5 DEF PoolAwake

LEMMA PoolAwakeGives == PoolInv /\ PoolAwake => P!NoStall
<1> SUFFICES ASSUME PoolInv, PoolAwake, NEW k \in 1 .. Len(pool),
                    pool[k].index \notin poolEv, poolBatch[pool[k].index] = {}, pool[k].scon = "up"
             PROVE  ~pool[k].hin /\ ~pool[k].sin /\ ~pool[k].end /\ ~P!WantsWrite(pool[k])
  BY DEF P!NoStall
<1>1. PoolStirred(pool[k], pool[k].index \in poolEv, poolBatch[pool[k].index])
  BY DEF PoolAwake
<1> QED BY <1>1 DEF PoolStirred

-----------------------------------------------------------------------------
(* Wake-ups: the UDP server *)

\* A connection whose TLS end is not shut down: while it connects it has written
\* nothing; everything there is to read has been read; what is left to write waits for
\* a full socket.
ColdStart(r) == ~IsShutdown(r.server) =>
    /\ r.server = "Connecting" => r.tls = "start" /\ r.sout = 0
    /\ r.hin => r.tls # "start"
AllRead(r) == ~IsShutdown(r.server) => r.sin = <<>> /\ ~r.hin /\ r.send = "open"
AllSent(r) == ~IsShutdown(r.server) /\ r.scon = "up" /\ WantsWrite(r) => r.sblk /\ r.sout = SockCap

\* e: an edge of the connection is raised; b: its event in the batch.
Stirred(r, e, b) == ColdStart(r) /\ (e \/ AllRead(r) \/ "r" \in b) /\ (e \/ AllSent(r) \/ "w" \in b)

UdpAwake ==
    /\ polling => \A x \in Index \cup {Listener} : batch[x] = {}
    /\ \A i \in table : Stirred(c[i], i \in ev, batch[i])

\* What do_send does to the fields that Stirred speaks of.
LEMMA DoSendStirs ==
    ASSUME NEW r, Typed(r), ColdStart(r), NEW t, t = DoSend(r)
    PROVE  /\ ColdStart(t) /\ t.sin = r.sin /\ t.hin = r.hin /\ t.send = r.send /\ t.scon = r.scon
           /\ IsShutdown(r.server) => IsShutdown(t.server)
           /\ r.server # "Connecting" => AllSent(t)
           /\ r.server = "Connecting" => t = r
<1> DEFINE n == IF r.session <= SockCap - r.sout THEN r.session ELSE SockCap - r.sout
           a == [r EXCEPT !.writable = TRUE]
           b == [r EXCEPT !.writable = TRUE, !.server = Shutdown(@)]
           d == [r EXCEPT !.tls = IF @ = "start" THEN "sent" ELSE @,
                   !.sout = @ + n, !.session = @ - n,
                   !.writable = (n = r.session), !.sblk = @ \/ n < r.session]
<1>1. r \in ConnState /\ r.session \in Nat /\ r.sout \in Nat /\ r.server \in Status /\ r.sout <= SockCap /\ SockCap \in Nat
      /\ r.tls \in {"start", "sent", "done"} /\ r.sblk \in BOOLEAN
  BY TypedFields DEF Typed
<1>2. n \in Nat /\ (n = r.session \/ (n < r.session /\ r.sout + n = SockCap)) /\ (n = r.session => ~(r.session - n > 0))
  BY <1>1
<1>3. CASE r.server = "Connecting"
  <2>1. t = r
    BY <1>3 DEF DoSend
  <2> QED BY <1>3, <2>1
<1>4. CASE r.server # "Connecting" /\ ~WantsWrite(r)
  <2>1. t = a
    BY <1>4 DEF DoSend
  <2>2. /\ t.server = r.server /\ t.tls = r.tls /\ t.sin = r.sin /\ t.hin = r.hin /\ t.send = r.send /\ t.scon = r.scon
        /\ t.session = r.session
    BY <1>1, <2>1 DEF ConnState
  <2> QED BY <1>4, <2>2 DEF ColdStart, AllSent, WantsWrite
<1>5. CASE r.server # "Connecting" /\ WantsWrite(r) /\ (IsShutdown(r.server) \/ r.send = "rst")
  <2>1. t = b
    BY <1>5 DEF DoSend
  <2>2. /\ IsShutdown(t.server) /\ t.sin = r.sin /\ t.hin = r.hin /\ t.send = r.send /\ t.scon = r.scon
    BY <1>1, <2>1 DEF ConnState, IsShutdown, Shutdown
  <2> QED BY <1>5, <2>2 DEF ColdStart, AllSent
<1>6. CASE r.server # "Connecting" /\ WantsWrite(r) /\ ~(IsShutdown(r.server) \/ r.send = "rst")
  <2>1. t = d
    BY <1>6 DEF DoSend
  <2> HIDE DEF n
  <2>2. /\ t.server = r.server /\ t.sin = r.sin /\ t.hin = r.hin /\ t.send = r.send /\ t.scon = r.scon
        /\ t.tls # "start" /\ t.session = r.session - n /\ t.sout = r.sout + n
    BY <1>1, <2>1 DEF ConnState
  <2>3. t.sblk = (r.sblk \/ n < r.session)
    BY ZenonT(60), <1>1, <2>1 DEF ConnState
  <2> HIDE DEF d
  <2>4. AllSent(t)
    BY <1>2, <2>2, <2>3 DEF AllSent, WantsWrite
  <2> QED BY <1>6, <2>2, <2>4 DEF ColdStart
<1> QED BY <1>3, <1>4, <1>5, <1>6

LEMMA DoStatusStirs ==
    ASSUME NEW r, Typed(r), ColdStart(r), NEW t, t = DoStatus(r)
    PROVE  /\ ColdStart(t) /\ (AllRead(r) => AllRead(t)) /\ (AllSent(r) => AllSent(t))
<1> DEFINE v == IF IsShutdown(r.own) THEN PeerClosed(r.server) ELSE r.server
           o == IF IsShutdown(v) THEN PeerClosed(r.own) ELSE r.own
           x == CheckStatus(o, r.sendBuffer = <<>>)
           y == CheckStatus(v, ~WantsWrite(r))
<1>1. t = [r EXCEPT !.own = x, !.server = y]
  BY DEF DoStatus
<1>2. /\ IsShutdown(r.server) => IsShutdown(y)
      /\ y = "Connecting" => r.server = "Connecting"
  BY DEF IsShutdown, PeerClosed, CheckStatus
<1> HIDE DEF x, y
<1>3. /\ t.server = y /\ t.tls = r.tls /\ t.sin = r.sin /\ t.hin = r.hin /\ t.send = r.send /\ t.scon = r.scon
      /\ t.session = r.session /\ t.sout = r.sout /\ t.sblk = r.sblk
  BY <1>1 DEF Typed, ConnState
<1> QED BY <1>2, <1>3 DEF ColdStart, AllRead, AllSent, WantsWrite

LEMMA WriteSessionStirs ==
    ASSUME NEW r, Typed(r), ColdStart(r), NEW t, t = WriteSession(r)
    PROVE  /\ ColdStart(t) /\ t.sin = r.sin /\ t.hin = r.hin /\ t.send = r.send /\ t.scon = r.scon
           /\ IsShutdown(r.server) => IsShutdown(t.server)
           /\ t.server = "Connecting" => r.server = "Connecting" /\ (AllSent(r) => AllSent(t))
<1> DEFINE a == [r EXCEPT !.server = Shutdown(@)]
           b == [r EXCEPT !.session = @ + 1]
           d == [r EXCEPT !.plain = @ + 1]
<1>1. r \in ConnState /\ r.server \in Status
  BY TypedFields DEF Typed
<1>2. CASE t = a
  <2>1. /\ IsShutdown(t.server) /\ t.sin = r.sin /\ t.hin = r.hin /\ t.send = r.send /\ t.scon = r.scon
    BY <1>1, <1>2 DEF ConnState, IsShutdown, Shutdown
  <2> QED BY <2>1 DEF ColdStart, IsShutdown
<1>3. CASE t = d \/ (t = b /\ r.tls = "done")
  <2>1. /\ t.server = r.server /\ t.tls = r.tls /\ t.sin = r.sin /\ t.hin = r.hin /\ t.send = r.send /\ t.scon = r.scon
        /\ t.sout = r.sout /\ t.sblk = r.sblk
        /\ (r.tls # "done" => t.session = r.session)
    BY <1>1, <1>3 DEF ConnState
  <2> QED BY <2>1 DEF ColdStart, AllSent, WantsWrite, IsShutdown
<1>4. t = a \/ t = d \/ (t = b /\ r.tls = "done")
  BY DEF WriteSession
<1> QED BY <1>2, <1>3, <1>4

\* send_request has sent what it could.
LEMMA SendRequestStirs ==
    ASSUME NEW r, Typed(r), NEW e \in BOOLEAN, NEW b, Stirred(r, e, b), NEW t, t = SendRequest(r)
    PROVE  Stirred(t, e, b)
<1>0. ColdStart(r)
  BY DEF Stirred
<1>1. CASE r.idle
  <2> DEFINE q == [r EXCEPT !.own = Shutdown(@)]
  <2>1. t = DoStatus(q)
    BY <1>1 DEF SendRequest
  <2>2. Typed(q)
    <3>1. Shutdown(r.own) \in Status
      BY TypedFields, StatusTypes
    <3> QED BY <3>1 DEF Typed, ConnState
  <2>3. /\ q.server = r.server /\ q.tls = r.tls /\ q.sin = r.sin /\ q.hin = r.hin /\ q.send = r.send /\ q.scon = r.scon
        /\ q.session = r.session /\ q.sout = r.sout /\ q.sblk = r.sblk
    BY DEF Typed, ConnState
  <2> HIDE DEF q
  <2>4. ColdStart(q) /\ (AllRead(r) => AllRead(q)) /\ (AllSent(r) => AllSent(q))
    BY <1>0, <2>3 DEF ColdStart, AllRead, AllSent, WantsWrite
  <2>5. ColdStart(t) /\ (AllRead(q) => AllRead(t)) /\ (AllSent(q) => AllSent(t))
    BY <2>1, <2>2, <2>4, DoStatusStirs
  <2> QED BY <2>4, <2>5 DEF Stirred
<1>2. CASE ~r.idle /\ r.server # "Connecting" /\ ~ServerWritable(r)
  BY <1>2 DEF SendRequest
<1>3. CASE ~r.idle /\ ~(r.server # "Connecting" /\ ~ServerWritable(r))
  <2> DEFINE x == WriteSession(r)
             y == DoSend(x)
  <2>1. t = DoStatus(y)
    BY <1>3 DEF SendRequest
  <2>2. Typed(x)
    BY WriteSessionKeeps DEF Kept
  <2>3. /\ ColdStart(x) /\ x.sin = r.sin /\ x.hin = r.hin /\ x.send = r.send /\ x.scon = r.scon
        /\ IsShutdown(r.server) => IsShutdown(x.server)
        /\ x.server = "Connecting" => r.server = "Connecting" /\ (AllSent(r) => AllSent(x))
    BY <1>0, WriteSessionStirs
  <2> HIDE DEF x
  <2>4. Typed(y)
    BY <2>2, DoSendKeeps DEF Kept
  <2>5. /\ ColdStart(y) /\ y.sin = x.sin /\ y.hin = x.hin /\ y.send = x.send /\ y.scon = x.scon
        /\ IsShutdown(x.server) => IsShutdown(y.server)
        /\ x.server # "Connecting" => AllSent(y)
        /\ x.server = "Connecting" => y = x
    BY <2>2, <2>3, DoSendStirs
  <2> HIDE DEF y
  <2>6. ColdStart(t) /\ (AllRead(y) => AllRead(t)) /\ (AllSent(y) => AllSent(t))
    BY <2>1, <2>4, <2>5, DoStatusStirs
  <2>7. AllRead(r) => AllRead(y)
    BY <2>3, <2>5 DEF AllRead
  <2>8. AllSent(r) => AllSent(y)
    BY <2>3, <2>5
  <2> QED BY <2>6, <2>7, <2>8 DEF Stirred
<1> QED BY <1>1, <1>2, <1>3

\* try_read_server has read everything.
LEMMA TryReadServerStirs ==
    ASSUME NEW r, Typed(r), ColdStart(r), NEW x, NEW y, y = TryReadServer(r, x), Typed(y)
    PROVE  /\ ColdStart(y) /\ AllRead(y) /\ y.scon = r.scon /\ y.sout = r.sout
           /\ IsShutdown(r.server) => IsShutdown(y.server)
           /\ y.server = "Connecting" => r.server = "Connecting"
<1> DEFINE buf == Received(r)
           rest == SubSeq(buf, 2 * Frames(buf) + 1, Len(buf))
           u == DoRead(r)
           t == [u EXCEPT !.dst = x.dst]
           a == [t EXCEPT !.sendBuffer = <<>>, !.server = Shutdown(@)]
           b == [t EXCEPT !.sendBuffer = rest]
<1>1. Typed(u)
  BY DoReadTyped
<1>2. r \in ConnState /\ r.server \in Status /\ r.hin \in BOOLEAN /\ r.send \in {"open", "fin", "rst"}
  BY TypedFields DEF Typed
<1>3. /\ u.sin = <<>> /\ ~u.hin /\ u.send = r.send /\ u.scon = r.scon /\ u.sout = r.sout
      /\ u.tls = (IF r.hin THEN "done" ELSE r.tls)
      /\ u.server = (IF r.send # "open" THEN Shutdown(r.server) ELSE r.server)
  BY <1>2 DEF DoRead, ConnState
<1> HIDE DEF u
<1>4. u \in ConnState /\ u.server \in Status
  BY <1>1, TypedFields DEF Typed
<1>5. /\ t.sin = u.sin /\ t.hin = u.hin /\ t.send = u.send /\ t.scon = u.scon /\ t.sout = u.sout /\ t.tls = u.tls
      /\ t.server = u.server
  BY <1>4 DEF ConnState
<1>6. /\ a.sin = u.sin /\ a.hin = u.hin /\ a.send = u.send /\ a.scon = u.scon /\ a.sout = u.sout /\ a.tls = u.tls
      /\ a.server = Shutdown(u.server)
  BY <1>4 DEF ConnState
<1> HIDE DEF rest
<1>7. /\ b.sin = u.sin /\ b.hin = u.hin /\ b.send = u.send /\ b.scon = u.scon /\ b.sout = u.sout /\ b.tls = u.tls
      /\ b.server = u.server
  BY <1>4 DEF ConnState
<1>8. y \in {t, a, b}
  BY DEF TryReadServer, rest, u
<1> HIDE DEF t, a, b
<1>9. /\ y.sin = u.sin /\ y.hin = u.hin /\ y.send = u.send /\ y.scon = u.scon /\ y.sout = u.sout /\ y.tls = u.tls
      /\ y.server \in {u.server, Shutdown(u.server)}
  BY <1>5, <1>6, <1>7, <1>8
<1>10. /\ IsShutdown(u.server) => IsShutdown(y.server)
       /\ y.server = "Connecting" => u.server = "Connecting" 
       /\ IsShutdown(r.server) \/ r.send # "open" => IsShutdown(u.server)
       /\ u.server = "Connecting" => r.server = "Connecting"
  BY <1>2, <1>3, <1>4, <1>9 DEF Shutdown, IsShutdown, Status
<1> QED BY <1>2, <1>3, <1>9, <1>10 DEF ColdStart, AllRead

\* A connection that is shut down waits for nothing.
LEMMA ShutStirred == ASSUME NEW r, IsShutdown(r.server), NEW e, NEW b PROVE Stirred(r, e, b)
BY DEF Stirred, ColdStart, AllRead, AllSent

\* ready reads and writes as the event's flags say, and leaves nothing behind that no
\* other event resumes.
LEMMA ReadyStirs ==
    ASSUME NEW r, Typed(r), Whole(r), NEW b, NEW e \in BOOLEAN, Stirred(r, e, b),
           NEW x, "r" \in b => x.dst \in Dst
    PROVE  Stirred(Ready(r, b, x), e, {})
<1> DEFINE q == [r EXCEPT !.idle = FALSE]
           y == TryReadServer(q, x)
           t == IF "r" \in b THEN DoSend(y) ELSE q
           g == Established(t.server)
           v == [t EXCEPT !.server = g]
           w == DoSend(v)
           u == IF "w" \in b THEN w ELSE t
           z == DoStatus(u)
<1>1. Kept(r, q)
  BY DEF Kept, Typed, ConnState
<1>2. Typed(q) /\ Whole(q)
  BY <1>1, KeptWhole DEF Kept
<1>3. /\ q.server = r.server /\ q.tls = r.tls /\ q.sin = r.sin /\ q.hin = r.hin /\ q.send = r.send /\ q.scon = r.scon
      /\ q.session = r.session /\ q.sout = r.sout /\ q.sblk = r.sblk
  BY DEF Typed, ConnState
<1> HIDE DEF q
<1>4. ColdStart(q) /\ (e \/ AllRead(q) \/ "r" \in b) /\ (e \/ AllSent(q) \/ "w" \in b)
  BY <1>3 DEF Stirred, ColdStart, AllRead, AllSent, WantsWrite
<1>5. Typed(t) /\ ColdStart(t) /\ (e \/ AllRead(t)) /\ (e \/ AllSent(t) \/ "w" \in b)
  <2>1. CASE "r" \in b
    <3>1. Typed(y)
      BY <1>2, <2>1, TryReadServerTyped
    <3>2. /\ ColdStart(y) /\ AllRead(y) /\ y.scon = q.scon /\ y.sout = q.sout
          /\ IsShutdown(q.server) => IsShutdown(y.server)
          /\ y.server = "Connecting" => q.server = "Connecting"
      BY <1>2, <1>4, <3>1, TryReadServerStirs
    <3> HIDE DEF y
    <3> DEFINE f == DoSend(y)
    <3>3. /\ ColdStart(f) /\ f.sin = y.sin /\ f.hin = y.hin /\ f.send = y.send /\ f.scon = y.scon
          /\ IsShutdown(y.server) => IsShutdown(f.server)
          /\ y.server # "Connecting" => AllSent(f)
          /\ y.server = "Connecting" => f = y
      BY <3>1, <3>2, DoSendStirs
    <3>4. Typed(f)
      BY <3>1, DoSendKeeps DEF Kept
    <3> HIDE DEF f
    <3>5. AllRead(f)
      BY <3>2, <3>3 DEF AllRead
    <3>6. e \/ AllSent(f) \/ "w" \in b
      <4>1. CASE y.server # "Connecting"
        BY <4>1, <3>3
      <4>2. CASE y.server = "Connecting" /\ y.scon # "up"
        BY <4>2, <3>3 DEF AllSent
      <4>3. CASE y.server = "Connecting" /\ y.scon = "up"
        <5>1. q.server = "Connecting" /\ q.scon = "up" /\ ~IsShutdown(q.server)
          BY <4>3, <3>2 DEF IsShutdown
        <5>2. q.sout = 0 /\ q.tls = "start" /\ SockCap # 0
          BY <5>1, <1>4, ConstAssumption DEF ColdStart
        <5>3. ~AllSent(q)
          BY <5>1, <5>2 DEF AllSent, WantsWrite
        <5> QED BY <5>3, <1>4
      <4> QED BY <4>1, <4>2, <4>3
    <3>7. t = f
      BY <2>1 DEF f
    <3> HIDE DEF t
    <3> QED BY <3>3, <3>4, <3>5, <3>6, <3>7
  <2>2. CASE "r" \notin b
    BY <1>2, <1>4, <2>2
  <2> QED BY <2>1, <2>2
<1> HIDE DEF t
<1>6. Typed(u) /\ ColdStart(u) /\ (e \/ AllRead(u)) /\ (e \/ AllSent(u))
  <2>1. CASE "w" \in b
    <3>1. g \in Status /\ g # "Connecting" /\ (IsShutdown(t.server) => IsShutdown(g)) /\ (IsShutdown(g) => g = t.server)
      BY <1>5, TypedFields DEF Established, IsShutdown, Status
    <3> HIDE DEF g
    <3>2. Typed(v)
      BY <1>5, <3>1 DEF Typed, ConnState
    <3>3. v.server = g /\ v.tls = t.tls /\ v.sin = t.sin /\ v.hin = t.hin /\ v.send = t.send
      BY <1>5 DEF Typed, ConnState
    <3>4. ColdStart(v) /\ (AllRead(t) => AllRead(v)) /\ v.server # "Connecting"
      BY <1>5, <3>1, <3>3 DEF ColdStart, AllRead
    <3> HIDE DEF v
    <3>5. /\ ColdStart(w) /\ w.sin = v.sin /\ w.hin = v.hin /\ w.send = v.send
          /\ IsShutdown(v.server) => IsShutdown(w.server)
          /\ AllSent(w)
      BY <3>2, <3>4, DoSendStirs
    <3>6. Typed(w)
      BY <3>2, DoSendKeeps DEF Kept
    <3> HIDE DEF w
    <3>7. AllRead(v) => AllRead(w)
      BY <3>5 DEF AllRead
    <3>8. u = w
      BY <2>1
    <3> HIDE DEF u
    <3> QED BY <1>5, <3>4, <3>5, <3>6, <3>7, <3>8
  <2>2. CASE "w" \notin b
    BY <1>5, <2>2
  <2> QED BY <2>1, <2>2
<1> HIDE DEF u
<1>7. ColdStart(z) /\ (AllRead(u) => AllRead(z)) /\ (AllSent(u) => AllSent(z))
  BY <1>6, DoStatusStirs
<1>8. Ready(r, b, x) = z
  BY DEF Ready, z, u, w, v, g, t, y, q
<1> HIDE DEF z
<1> QED BY <1>6, <1>7, <1>8 DEF Stirred

\* One connection changes, and what the others wait for stays.
LEMMA OneStirred ==
    ASSUME UdpAwake, UInv, table \subseteq Index, NEW i \in Index, NEW r, c' = [c EXCEPT ![i] = r],
           table' \subseteq table \cup {i}, polling' = polling,
           polling => batch' = batch,
           \A j \in table \ {i} : (j \in ev <=> j \in ev') /\ batch'[j] = batch[j],
           i \in table' => Stirred(r, i \in ev', batch'[i])
    PROVE  UdpAwake'
<1>1. c'[i] = r /\ \A j \in Index \ {i} : c'[j] = c[j]
  BY DEF UInv, ConnsInv
<1>2. ASSUME NEW j \in table' PROVE Stirred(c'[j], j \in ev', batch'[j])
  <2>1. CASE j = i
    BY <1>1, <2>1
  <2>2. CASE j # i
    <3>1. j \in table /\ c'[j] = c[j] /\ (j \in ev <=> j \in ev') /\ batch'[j] = batch[j]
      BY <1>1, <2>2
    <3>2. Stirred(c[j], j \in ev, batch[j])
      BY <3>1 DEF UdpAwake
    <3> QED BY <3>1, <3>2 DEF Stirred
  <2> QED BY <2>1, <2>2
<1>3. polling' => \A x \in Index \cup {Listener} : batch'[x] = {}
  BY DEF UdpAwake
<1>4. \A j \in table' : Stirred(c[j], j \in ev, batch[j])'
  BY <1>2 DEF Stirred, ColdStart, AllRead, AllSent, WantsWrite
<1> QED BY <1>3, <1>4 DEF UdpAwake

\* A new connection: one that still connects waits for the kernel; of one that the
\* poll reports at once, AcceptNew raises the edge.
LEMMA NewStirred ==
    ASSUME NEW s, NEW d, NEW h, NEW b
    PROVE  Stirred(NewConn(s, d, h), h # "cold", b)
BY DEF NewConn, Stirred, ColdStart, AllRead, AllSent, IsShutdown, WantsWrite

\* What the environment does to a registered socket raises its edge.
LEMMA OutsideAwake ==
    ASSUME UdpAwake, UInv, table \subseteq Index, NEW i \in Index, Registered(i),
           NEW r, Outside(i, r), ColdStart(r)
    PROVE  UdpAwake'
<1>1. /\ c' = [c EXCEPT ![i] = r] /\ ev' = ev \cup {i} /\ UNCHANGED <<table, batch, polling>>
  BY DEF Outside
<1>2. Stirred(r, i \in ev', batch'[i])
  BY <1>1 DEF Stirred
<1>3. \A j \in table \ {i} : (j \in ev <=> j \in ev') /\ batch'[j] = batch[j]
  BY <1>1
<1> QED BY <1>1, <1>2, <1>3, OneStirred

\* Every step keeps the events that resume what is left.
LEMMA UdpAwakeInductive == UdpAwake /\ UInv /\ IInv /\ [Next]_vars => UdpAwake'
<1> SUFFICES ASSUME UdpAwake, UInv, IInv, [Next]_vars PROVE UdpAwake'
  OBVIOUS
<1> USE ConstAssumption
<1>b. /\ table \subseteq Index
      /\ \A i \in Index : Typed(c[i]) /\ Whole(c[i]) /\ c[i] \in ConnState
      /\ c = [i \in Index |-> c[i]] /\ \A i \in table : c[i].dst \in cache /\ cache \subseteq Dst
      /\ batch \in [Index \cup {Listener} -> SUBSET {"r", "w"}] /\ polling \in BOOLEAN
  BY DEF UInv, ConnsInv, EventsInv, IInv, SocketsShared, Typed
<1>c. \A i \in table : Stirred(c[i], i \in ev, batch[i])
  BY DEF UdpAwake
<1>d. ASSUME NextPacket, ~polling
      PROVE  \A j \in Index : batch'[j] = batch[j]
  BY <1>b, <1>d DEF NextPacket
<1>s. ASSUME UNCHANGED <<table, c, polling>>, \A j \in table : (j \in ev <=> j \in ev') /\ batch'[j] = batch[j],
             polling => batch' = batch
      PROVE  UdpAwake'
  <2>1. \A j \in table' : Stirred(c[j], j \in ev, batch[j])'
    BY <1>c, <1>s DEF Stirred, ColdStart, AllRead, AllSent, WantsWrite
  <2> QED BY <1>s, <2>1 DEF UdpAwake
<1>t. ASSUME NEW i \in Index, ServerConnect(i) \/ ServerHello(i) \/ ServerSend(i) \/ ServerClose(i)
      PROVE  UdpAwake'
  <2> DEFINE r == c[i]
  <2>1. r \in ConnState /\ Registered(i) /\ ColdStart(r)
    BY <1>b, <1>c, <1>t DEF ServerConnect, ServerHello, ServerSend, ServerClose, Registered, Stirred
  <2>2. ASSUME NEW w, ColdStart(w), Outside(i, w) PROVE UdpAwake'
    BY <1>b, <2>1, <2>2, OutsideAwake
  <2> HIDE DEF r
  <2>3. CASE ServerConnect(i)
    <3>1. ColdStart([r EXCEPT !.scon = "up"]) /\ ColdStart([r EXCEPT !.send = "rst"])
      BY <2>1 DEF ColdStart, ConnState
    <3> QED BY <2>2, <2>3, <3>1 DEF ServerConnect, r
  <2>4. CASE ServerHello(i)
    <3>1. r.tls = "sent"
      BY <2>4 DEF ServerHello, r
    <3>2. ColdStart([r EXCEPT !.hin = TRUE])
      BY <2>1, <3>1 DEF ColdStart, ConnState
    <3> QED BY <2>2, <2>4, <3>2 DEF ServerHello, r
  <2>5. CASE ServerSend(i)
    <3>1. PICK h \in Half : Outside(i, [r EXCEPT !.sin = Append(@, h)])
      BY <2>5 DEF ServerSend, r
    <3> DEFINE e == Append(r.sin, h)
               w == [r EXCEPT !.sin = e]
    <3>2. w = [r EXCEPT !.sin = Append(@, h)]
      OBVIOUS
    <3> HIDE DEF e
    <3>3. ColdStart(w)
      BY <2>1 DEF ColdStart, ConnState
    <3> HIDE DEF w
    <3> QED BY <2>2, <3>1, <3>2, <3>3
  <2>6. CASE ServerClose(i)
    <3>1. \A how \in {"fin", "rst"} : ColdStart([r EXCEPT !.send = how])
      BY <2>1 DEF ColdStart, ConnState
    <3> QED BY <2>2, <2>6, <3>1 DEF ServerClose, r
  <2> QED BY <1>t, <2>3, <2>4, <2>5, <2>6
<1>1. CASE Fetch
  <2>1. ASSUME NEW i \in table PROVE Stirred(c'[i], i \in ev', batch'[i])
    <3> DEFINE k == c[i].sblk \/ (i \in ev /\ c[i].sout = SockCap)
               r == c[i]
               t == [r EXCEPT !.sblk = k]
    <3>1. i \in Index /\ c'[i] = t /\ batch'[i] = (IF i \in ev THEN Flags(i) ELSE {}) /\ i # Listener
      BY <1>1, <1>b DEF Fetch
    <3>2. r \in ConnState /\ r.sout \in Nat /\ r.sout <= SockCap /\ Stirred(r, i \in ev, {})
      <4>1. polling /\ batch[i] = {}
        BY <1>1, <3>1 DEF Fetch, UdpAwake
      <4>2. Typed(r)
        BY <1>b, <3>1
      <4> QED BY <1>c, <4>1, <4>2, TypedFields DEF Typed
    <3> HIDE DEF k
    <3>3. /\ t.server = r.server /\ t.tls = r.tls /\ t.sin = r.sin /\ t.hin = r.hin /\ t.send = r.send
          /\ t.scon = r.scon /\ t.session = r.session /\ t.sout = r.sout
      BY <3>2 DEF ConnState
    <3>4. t.sblk = k
      BY <3>2 DEF ConnState
    <3>5. k = (r.sblk \/ (i \in ev /\ r.sout = SockCap))
      BY DEF k
    <3> HIDE DEF t
    <3>6. CASE i \in ev
      <4>1. batch'[i] = Flags(i)
        BY <3>1, <3>6
      <4>2. AllRead(t) \/ "r" \in Flags(i)
        BY <3>1, <3>3 DEF AllRead, Flags
      <4>3. AllSent(t) \/ "w" \in Flags(i)
        <5>1. "w" \notin Flags(i) => ~(r.scon = "up" /\ r.sout < SockCap)
          BY <3>1 DEF Flags
        <5>2. "w" \notin Flags(i) /\ r.scon = "up" => r.sout = SockCap
          BY <3>2, <5>1
        <5> QED BY <3>3, <3>4, <3>5, <3>6, <5>2 DEF AllSent
      <4>4. ColdStart(t)
        BY <3>2, <3>3 DEF Stirred, ColdStart
      <4> QED BY <3>1, <4>1, <4>2, <4>3, <4>4 DEF Stirred
    <3>7. CASE i \notin ev
      <4>1. ColdStart(r) /\ AllRead(r) /\ AllSent(r)
        BY <3>2, <3>7 DEF Stirred
      <4>2. ColdStart(t) /\ AllRead(t) /\ AllSent(t)
        BY <4>1, <3>3, <3>4, <3>5, <3>7 DEF ColdStart, AllRead, AllSent, WantsWrite
      <4> QED BY <3>1, <4>2 DEF Stirred
    <3> QED BY <3>6, <3>7
  <2>2. table' = table /\ polling' = FALSE
    BY <1>1 DEF Fetch
  <2>3. \A i \in table' : Stirred(c[i], i \in ev, batch[i])'
    BY <2>1, <2>2 DEF Stirred, ColdStart, AllRead, AllSent, WantsWrite
  <2> QED BY <2>2, <2>3 DEF UdpAwake
<1>2. CASE AcceptKnown
  <2> DEFINE s == Head(inq)[1]
             i == srcMap[s]
             r == SendRequest(c[i])
  <2>1. s \in Src /\ i \in table /\ i \in Index
    BY <1>2, NextPacketType DEF AcceptKnown, IInv
  <2>2. Stirred(r, i \in ev, batch[i])
    <3> DEFINE e == i \in ev
    <3> HIDE DEF s, i
    <3>1. Typed(c[i]) /\ e \in BOOLEAN /\ Stirred(c[i], e, batch[i])
      BY <1>b, <1>c, <2>1
    <3> HIDE DEF e
    <3>2. Stirred(r, e, batch[i])
      BY <3>1, SendRequestStirs
    <3> QED BY <3>2 DEF e
  <2>3. c' = [c EXCEPT ![i] = r] /\ UNCHANGED <<table, polling>> /\ ~polling /\ NextPacket
        /\ ev' = { x \in ev : x = Listener \/ c'[x].server # "Deregistered" }
    BY <1>2 DEF AcceptKnown, Update, Accepting
  <2> HIDE DEF r, i, s
  <2>4. \A j \in Index : batch'[j] = batch[j]
    BY <1>d, <2>3
  <2>5. c'[i] = r /\ \A j \in Index \ {i} : c'[j] = c[j]
    BY <1>b, <2>1, <2>3
  <2>6. ASSUME NEW j \in table' PROVE Stirred(c'[j], j \in ev', batch'[j])
    <3>1. j \in table /\ j \in Index /\ batch'[j] = batch[j]
      BY <1>b, <2>3, <2>4
    <3>2. Stirred(c'[j], j \in ev, batch'[j])
      BY <1>c, <2>2, <2>5, <3>1
    <3>3. j \in ev /\ j \notin ev' => IsShutdown(c'[j].server)
      BY <2>3 DEF IsShutdown
    <3> QED BY <2>3, <3>2, <3>3, ShutStirred DEF Stirred
  <2>7. \A j \in table' : Stirred(c[j], j \in ev, batch[j])'
    BY <2>6 DEF Stirred, ColdStart, AllRead, AllSent, WantsWrite
  <2> QED BY <2>3, <2>7 DEF UdpAwake
<1>3. CASE AcceptNew
  <2> DEFINE s == Head(inq)[1]
             d == Head(inq)[2]
  <2>1. s \in Src /\ d \in Dst
    <3>1. inq \in Seq(Src \X Dst) /\ inq # <<>>
      BY <1>3 DEF AcceptNew, Accepting, IInv
    <3> QED BY <3>1
  <2>2. PICK i \in Index \ table, h \in Handover :
          /\ Insert(i, s) /\ Update(i, SendRequest(NewConn(s, d, h)))
          /\ ev' = (IF h = "cold" \/ c'[i].server = "Deregistered" THEN ev ELSE ev \cup {i})
          /\ NextPacket /\ UNCHANGED polling /\ ~polling
    BY <1>3 DEF AcceptNew, Accepting
  <2> DEFINE n == NewConn(s, d, h)
             r == SendRequest(n)
             e == h # "cold"
  <2> HIDE DEF s, d
  <2>3. Typed(n) /\ Stirred(n, e, batch'[i]) /\ e \in BOOLEAN
    BY <2>1, NewConnTyped, NewStirred
  <2> HIDE DEF n
  <2>4. Stirred(r, e, batch'[i])
    BY <2>3, SendRequestStirs
  <2>5. c' = [c EXCEPT ![i] = r] /\ table' = table \cup {i} /\ c'[i] = r
    BY <1>b, <2>2 DEF Update, Insert, n
  <2> HIDE DEF r
  <2>6. Stirred(r, i \in ev', batch'[i])
    <3>1. CASE r.server = "Deregistered"
      BY <3>1, ShutStirred DEF IsShutdown
    <3>2. CASE r.server # "Deregistered" /\ h # "cold"
      BY <3>2, <2>2, <2>4, <2>5 DEF Stirred
    <3>3. CASE h = "cold"
      BY <3>3, <2>4 DEF Stirred
    <3> QED BY <3>1, <3>2, <3>3
  <2>7. \A j \in table \ {i} : (j \in ev <=> j \in ev') /\ batch'[j] = batch[j]
    BY <1>b, <1>d, <2>2
  <2> QED BY <1>b, <2>2, <2>5, <2>6, <2>7, OneStirred
<1>4. CASE AcceptFails
  <2>1. NextPacket /\ UNCHANGED <<table, c, ev, polling>> /\ ~polling
    BY <1>4 DEF AcceptFails, Accepting
  <2> QED BY <1>b, <1>d, <1>s, <2>1
<1>5. CASE HandleConn
  <2>1. PICK i \in table, ok \in BOOLEAN :
           /\ Update(i, Ready(c[i], batch[i], Deliver(c[i].dst, Received(c[i]), ok)))
           /\ ev' = IF c'[i].server = "Deregistered" THEN ev \ {i} ELSE ev
           /\ batch' = [batch EXCEPT ![i] = {}]
           /\ UNCHANGED <<table, polling>> /\ ~polling
    BY <1>5 DEF HandleConn
  <2> DEFINE b == Received(c[i])
             x == Deliver(c[i].dst, b, ok)
             r == Ready(c[i], batch[i], x)
             e == i \in ev
  <2>2. i \in Index /\ Typed(c[i]) /\ Whole(c[i]) /\ c[i].dst \in cache
    BY <1>b
  <2>3. b \in Seq(Half) /\ InFrames(b)
    <3>1. c[i].sendBuffer \in Seq(Half) /\ c[i].sin \in Seq(Half)
      BY <2>2, TypedFields
    <3> QED BY <2>2, <3>1, ConcatProperties DEF Received, Whole
  <2>4. Named(x)
    <3> HIDE DEF b
    <3> QED BY <1>b, <2>2, <2>3, DeliverNamed
  <2> HIDE DEF b
  <2>5. c' = [c EXCEPT ![i] = r] /\ c'[i] = r
    BY <1>b, <2>1, <2>2 DEF Update, b
  <2> HIDE DEF x
  <2>6. x.dst \in Dst
    BY <2>4 DEF Named
  <2>7. Stirred(r, e, {})
    <3>1. Stirred(c[i], e, batch[i]) /\ e \in BOOLEAN
      BY <1>c
    <3> HIDE DEF e
    <3> QED BY <2>2, <2>6, <3>1, ReadyStirs
  <2> HIDE DEF r
  <2>8. Stirred(r, i \in ev', batch'[i])
    <3>1. CASE r.server = "Deregistered"
      BY <3>1, ShutStirred DEF IsShutdown
    <3>2. CASE r.server # "Deregistered"
      BY <1>b, <2>1, <2>2, <2>5, <2>7, <3>2
    <3> QED BY <3>1, <3>2
  <2>9. \A j \in table \ {i} : (j \in ev <=> j \in ev') /\ batch'[j] = batch[j]
    BY <1>b, <2>1
  <2>10. table' \subseteq table \cup {i} /\ polling' = polling /\ ~polling
    BY <2>1
  <2> QED BY <1>b, <2>2, <2>5, <2>8, <2>9, <2>10, OneStirred
<1>6. CASE RemoveClosed
  <2>1. /\ table' = table \ (removed \cap table) /\ ev' = ev \ removed /\ polling' = TRUE
        /\ c' = [i \in Index |-> IF i \in removed THEN Blank ELSE c[i]]
        /\ batch' = batch /\ \A x \in Index \cup {Listener} : batch[x] = {}
    BY <1>6, <1>b DEF RemoveClosed, Forget
  <2>2. \A i \in table' : i \in table /\ i \in Index /\ i \notin removed /\ c'[i] = c[i] /\ (i \in ev <=> i \in ev')
    BY <1>b, <2>1
  <2>3. \A i \in table' : Stirred(c[i], i \in ev, batch[i])'
    BY <1>c, <2>1, <2>2 DEF Stirred, ColdStart, AllRead, AllSent, WantsWrite
  <2> QED BY <2>1, <2>3 DEF UdpAwake
<1>7. CASE CheckTimeout
  BY <1>7, <1>s DEF CheckTimeout
<1>8. ASSUME NEW s \in Src, ClientSend(s) PROVE UdpAwake'
  <2>1. ev' = ev \cup {Listener} /\ UNCHANGED <<table, c, batch, polling>>
    BY <1>8 DEF ClientSend
  <2> QED BY <1>b, <1>s, <2>1
<1>9. ASSUME NEW i \in Index, Quiet(i) PROVE UdpAwake'
  <2> DEFINE q == c[i]
             r == [q EXCEPT !.idle = TRUE]
  <2>1. c' = [c EXCEPT ![i] = r] /\ UNCHANGED <<table, ev, batch, polling>>
    BY <1>9, <1>b DEF Quiet
  <2>2. q \in ConnState /\ (i \in table => Stirred(q, i \in ev, batch[i]))
    BY <1>b, <1>c
  <2> HIDE DEF q
  <2>3. /\ r.server = q.server /\ r.tls = q.tls /\ r.sin = q.sin /\ r.hin = q.hin /\ r.send = q.send /\ r.scon = q.scon
        /\ r.session = q.session /\ r.sout = q.sout /\ r.sblk = q.sblk
    BY <2>2 DEF ConnState
  <2> HIDE DEF r
  <2>4. i \in table' => Stirred(r, i \in ev', batch'[i])
    BY <2>1, <2>2, <2>3 DEF Stirred, ColdStart, AllRead, AllSent, WantsWrite
  <2> QED BY <1>b, <2>1, <2>4, OneStirred
<1>14. ASSUME NEW i \in Index, ServerRecv(i) PROVE UdpAwake'
  <2> DEFINE q == c[i]
             n == q.sout - 1
             r == [q EXCEPT !.sout = n, !.sblk = FALSE]
             t == [q EXCEPT !.sout = n]
  <2>1. q \in ConnState /\ Registered(i) /\ q.sout > 0 /\ Stirred(q, i \in ev, batch[i])
    BY <1>14, <1>b, <1>c DEF ServerRecv, Registered
  <2>2. ~IsShutdown(q.server) => q.server # "Connecting"
    BY <2>1 DEF Stirred, ColdStart
  <2>3. CASE q.sblk
    <3>1. Outside(i, r)
      BY <1>14, <2>3 DEF ServerRecv
    <3> HIDE DEF q, n
    <3>2. r.server = q.server /\ r.tls = q.tls /\ r.hin = q.hin
      BY <2>1 DEF ConnState
    <3> HIDE DEF r
    <3>3. ColdStart(r)
      BY <2>1, <2>2, <3>2 DEF ColdStart, Stirred
    <3> QED BY <1>b, <2>1, <3>1, <3>3, OutsideAwake
  <2>4. CASE ~q.sblk
    <3>1. c' = [c EXCEPT ![i] = t] /\ UNCHANGED <<table, ev, batch, polling>>
      BY <1>14, <1>b, <2>4 DEF ServerRecv
    <3> HIDE DEF q, n
    <3>2. /\ t.server = q.server /\ t.tls = q.tls /\ t.sin = q.sin /\ t.hin = q.hin /\ t.send = q.send /\ t.scon = q.scon
          /\ t.session = q.session /\ t.sblk = q.sblk
      BY <2>1 DEF ConnState
    <3> HIDE DEF t
    <3>3. ColdStart(t) /\ (AllRead(q) => AllRead(t)) /\ (AllSent(q) => AllSent(t))
      BY <2>1, <2>2, <2>4, <3>2 DEF ColdStart, Stirred, AllRead, AllSent, WantsWrite
    <3>4. Stirred(t, i \in ev', batch'[i])
      BY <2>1, <3>1, <3>3 DEF Stirred
    <3> QED BY <1>b, <3>1, <3>4, OneStirred
  <2> QED BY <2>3, <2>4
<1>15. CASE UNCHANGED vars
  BY <1>15, <1>s DEF vars
<1> QED
  BY <1>1, <1>2, <1>3, <1>4, <1>5, <1>6, <1>7, <1>8, <1>9, <1>t, <1>14, <1>15 DEF Next, Loop

LEMMA UdpAwakeInitially == Init => UdpAwake
BY DEF Init, UdpAwake

LEMMA UdpAwakeGives == UdpAwake => NoStall
<1> SUFFICES ASSUME UdpAwake, NEW i \in table, ~IsShutdown(c[i].server), ~Pending(i), c[i].scon = "up"
             PROVE  /\ c[i].sin = <<>> /\ ~c[i].hin /\ c[i].send = "open"
                    /\ WantsWrite(c[i]) => c[i].sblk /\ c[i].sout = SockCap
  BY DEF NoStall
<1>1. Stirred(c[i], i \in ev, batch[i]) /\ i \notin ev /\ batch[i] = {}
  BY DEF UdpAwake, Pending
<1>2. AllRead(c[i]) /\ AllSent(c[i])
  BY <1>1 DEF Stirred
<1> QED BY <1>2 DEF AllRead, AllSent

-----------------------------------------------------------------------------
(* Wake-ups: a TCP connection *)

\* Neither side is shut down; a write has met a full socket of the server, of the client.
BothOpen(s) == ~T!IsShutdown(s.client) /\ ~T!IsShutdown(s.server)
ServerFull(s) == s.sblk /\ Len(s.sout) = SockCap
ClientFull(s) == s.cblk /\ Len(s.cout) = SockCap

\* C, V: an event is to come that says the client, the server can be written; R, S:
\* one that says it can be read.
TcpStirred(s, C, V, R, S) ==
    /\ s.hin => s.tls # "start"
    /\ s.server = "Connecting" =>
        /\ s.tls = "start" /\ s.sout = T!Empty /\ s.sin = T!Empty /\ s.sendBuffer = T!Empty
        /\ ~T!IsShutdown(s.client) /\ (V \/ s.scon = "connecting")
    /\ s.client = "Connecting" => s.cout = T!Empty /\ C
    /\ T!Alive(s.server) => s.scon = "up"
    /\ T!Alive(s.server) /\ (~s.writable \/ (T!WantsWrite(s) /\ ~s.unflushed)) => V \/ ServerFull(s)
    /\ BothOpen(s) /\ s.readClient => V \/ ServerFull(s) \/ s.scon = "connecting"
    /\ BothOpen(s) /\ (s.cin # T!Empty \/ s.cend # "open") => R \/ s.readClient
    /\ BothOpen(s) /\ (s.sin # T!Empty \/ s.hin \/ s.send # "open") => S \/ s.readServer
    /\ BothOpen(s) /\ s.readServer => C \/ ClientFull(s)
    /\ T!Alive(s.client) /\ s.sendBuffer # T!Empty => C \/ ClientFull(s)

\* A writable event of the server is reported once the connect has ended.
Reported(s, b) == "w" \in b => T!IsShutdown(s.server) \/ s.scon = "up" \/ s.send = "rst"

\* What Reported speaks of stays.
Onward(s, t) == t.scon = s.scon /\ t.send = s.send /\ (T!IsShutdown(s.server) => T!IsShutdown(t.server))

TcpWake(x, f) == x \in tcpEv \/ f \in tcpBatch[x]

TcpAwake ==
    /\ tcpPolling => \A x \in T!Source : tcpBatch[x] = {}
    /\ ~gone => /\ TcpStirred(conn, TcpWake("client", "w"), TcpWake("server", "w"),
                                    TcpWake("client", "r"), TcpWake("server", "r"))
                /\ Reported(conn, tcpBatch["server"])

LEMMA SmallerIs ==
    ASSUME NEW a \in Nat, NEW b \in Nat
    PROVE  /\ T!Smaller(a, b) \in 0 .. a /\ T!Smaller(a, b) <= b
           /\ T!Smaller(a, b) # a => T!Smaller(a, b) = b /\ T!Smaller(a, b) < a
           /\ b = 0 => T!Smaller(a, b) = 0
BY DEF T!Smaller

\* What do_send does to the fields that TcpStirred speaks of.
LEMMA DoSendWakes ==
    ASSUME NEW s, Fit(s), NEW t, t = T!DoSend(s)
    PROVE  /\ t.client = s.client /\ t.sendBuffer = s.sendBuffer /\ t.readClient = s.readClient
           /\ t.readServer = s.readServer /\ t.cin = s.cin /\ t.cout = s.cout /\ t.cblk = s.cblk
           /\ t.cend = s.cend /\ t.sin = s.sin /\ t.send = s.send /\ t.hin = s.hin /\ t.scon = s.scon
           /\ t.unflushed = s.unflushed
           /\ t.tls = "start" => s.tls = "start"
           /\ T!IsShutdown(t.server) \/ t.server = s.server
           /\ T!IsShutdown(s.server) => T!IsShutdown(t.server)
           /\ ServerFull(s) => ServerFull(t)
           /\ s.server = "Connecting" => t = s
           /\ s.server # "Connecting" => \/ T!IsShutdown(t.server)
                                         \/ t.writable /\ ~T!WantsWrite(t)
                                         \/ ServerFull(t)
           /\ s.server # "Connecting" /\ T!WantsWrite(s) /\ s.send = "rst" => T!IsShutdown(t.server)
<1>f. s \in T!ConnState /\ s.server \in T!Status
  BY TFields DEF Fit
<1>1. CASE s.server = "Connecting"
  <2>1. t = s
    BY <1>1 DEF T!DoSend
  <2> QED BY <1>1, <2>1
<1>2. CASE s.server # "Connecting" /\ ~T!WantsWrite(s)
  <2> DEFINE a == [s EXCEPT !.writable = TRUE]
  <2>1. t = a
    BY <1>2 DEF T!DoSend
  <2>2. /\ a.client = s.client /\ a.sendBuffer = s.sendBuffer /\ a.readClient = s.readClient
        /\ a.readServer = s.readServer /\ a.cin = s.cin /\ a.cout = s.cout /\ a.cblk = s.cblk
        /\ a.cend = s.cend /\ a.sin = s.sin /\ a.send = s.send /\ a.hin = s.hin /\ a.scon = s.scon
        /\ a.unflushed = s.unflushed
    BY <1>f DEF T!ConnState
  <2>3. /\ a.server = s.server /\ a.tls = s.tls /\ a.session = s.session /\ a.sout = s.sout /\ a.sblk = s.sblk
        /\ a.writable
    BY <1>f DEF T!ConnState
  <2> HIDE DEF a
  <2>4. ~T!WantsWrite(a) /\ (ServerFull(s) => ServerFull(a))
    BY <1>2, <2>3 DEF T!WantsWrite, ServerFull
  <2> QED BY <1>2, <2>1, <2>2, <2>3, <2>4
<1>3. CASE s.server # "Connecting" /\ T!WantsWrite(s) /\ (T!IsShutdown(s.server) \/ s.send = "rst")
  <2> DEFINE v == T!Shutdown(s.server)
             a == [s EXCEPT !.writable = TRUE, !.server = v]
  <2>1. t = a
    BY <1>3 DEF T!DoSend
  <2>2. T!IsShutdown(v)
    BY <1>f, TStatus
  <2> HIDE DEF v
  <2>3. /\ a.client = s.client /\ a.sendBuffer = s.sendBuffer /\ a.readClient = s.readClient
        /\ a.readServer = s.readServer /\ a.cin = s.cin /\ a.cout = s.cout /\ a.cblk = s.cblk
        /\ a.cend = s.cend /\ a.sin = s.sin /\ a.send = s.send /\ a.hin = s.hin /\ a.scon = s.scon
        /\ a.unflushed = s.unflushed
    BY <1>f DEF T!ConnState
  <2>4. /\ a.server = v /\ a.tls = s.tls /\ a.session = s.session /\ a.sout = s.sout /\ a.sblk = s.sblk
    BY <1>f DEF T!ConnState
  <2> HIDE DEF a
  <2>5. ServerFull(s) => ServerFull(a)
    BY <2>4 DEF ServerFull
  <2> QED BY <1>3, <2>1, <2>2, <2>3, <2>4, <2>5
<1>4. CASE s.server # "Connecting" /\ T!WantsWrite(s) /\ ~(T!IsShutdown(s.server) \/ s.send = "rst")
  <2> DEFINE n == T!Smaller(Len(s.session), SockCap - Len(s.sout))
             e == T!Take(s.session, n)
             d == T!Drop(s.session, n)
             o == s.sout \o e
             w == (n = Len(s.session))
             k == s.sblk \/ n < Len(s.session)
             l == IF s.tls = "start" THEN "sent" ELSE s.tls
             a == [s EXCEPT !.tls = l, !.sout = o, !.session = d, !.writable = w, !.sblk = k]
  <2>1. t = a
    BY <1>4 DEF T!DoSend
  <2>2. /\ s.session \in Seq(Nat) /\ s.sout \in Seq(Nat) /\ Len(s.session) \in Nat /\ Len(s.sout) \in Nat
        /\ Len(s.sout) <= SockCap /\ SockCap \in Nat
    BY TFields, LenProperties, ConstAssumption
  <2>3. n \in 0 .. Len(s.session) /\ n <= SockCap - Len(s.sout)
        /\ (n # Len(s.session) => n = SockCap - Len(s.sout) /\ n < Len(s.session))
        /\ (Len(s.sout) = SockCap => n = 0)
    <3>1. SockCap - Len(s.sout) \in Nat /\ (Len(s.sout) = SockCap => SockCap - Len(s.sout) = 0)
      BY <2>2
    <3> QED BY <2>2, <3>1, SmallerIs
  <2> HIDE DEF n
  <2>4. e \in Seq(Nat) /\ d \in Seq(Nat) /\ Len(e) = n /\ Len(d) = Len(s.session) - n
    BY <2>2, <2>3, Split
  <2> HIDE DEF e, d
  <2>5. Len(o) = Len(s.sout) + n
    BY <2>2, <2>4, Joined
  <2> HIDE DEF o
  <2>6. l # "start"
    OBVIOUS
  <2>w. w <=> (n = Len(s.session))
    OBVIOUS
  <2>k. k <=> (s.sblk \/ n < Len(s.session))
    OBVIOUS
  <2> HIDE DEF w, k, l
  <2>7. /\ a.client = s.client /\ a.sendBuffer = s.sendBuffer /\ a.readClient = s.readClient
        /\ a.readServer = s.readServer /\ a.cin = s.cin /\ a.cout = s.cout /\ a.cblk = s.cblk
        /\ a.cend = s.cend /\ a.sin = s.sin /\ a.send = s.send /\ a.hin = s.hin /\ a.scon = s.scon
        /\ a.unflushed = s.unflushed
    BY <1>f DEF T!ConnState
  <2>8. /\ a.server = s.server /\ a.tls = l /\ a.session = d /\ a.sout = o
        /\ a.writable = w /\ a.sblk = k
    BY <1>f DEF T!ConnState
  <2> HIDE DEF a
  <2>9. CASE n = Len(s.session)
    <3>1. Len(d) = 0
      BY <2>2, <2>4, <2>9
    <3>2. a.session = T!Empty /\ a.tls # "start" /\ a.writable
      BY <2>4, <2>6, <2>8, <2>9, <2>w, <3>1, EmptySeq, TEmpty
    <3>3. ~T!WantsWrite(a)
      BY <3>2 DEF T!WantsWrite
    <3>4. ServerFull(s) => ServerFull(a)
      <4> SUFFICES ASSUME s.sblk, Len(s.sout) = SockCap PROVE ServerFull(a)
        BY DEF ServerFull
      <4>1. Len(o) = SockCap
        BY <2>2, <2>3, <2>5
      <4>2. a.sblk
        BY <2>8, <2>k
      <4> QED BY <2>8, <4>1, <4>2 DEF ServerFull
    <3> QED BY <1>4, <2>1, <2>6, <2>7, <2>8, <3>2, <3>3, <3>4
  <2>10. CASE n # Len(s.session)
    <3>1. Len(o) = SockCap /\ n < Len(s.session)
      BY <2>2, <2>3, <2>5, <2>10
    <3>2. a.sblk
      BY <2>8, <2>k, <3>1
    <3>3. ServerFull(a)
      BY <2>8, <3>1, <3>2 DEF ServerFull
    <3> QED BY <1>4, <2>1, <2>6, <2>7, <2>8, <3>3
  <2> QED BY <2>9, <2>10
<1> QED BY <1>1, <1>2, <1>3, <1>4

\* What do_read does to them.
LEMMA DoReadWakes ==
    ASSUME NEW s, Fit(s), NEW t, t = T!DoRead(s)
    PROVE  /\ t.client = s.client /\ t.sendBuffer = s.sendBuffer /\ t.readClient = s.readClient
           /\ t.readServer = s.readServer /\ t.cin = s.cin /\ t.cout = s.cout /\ t.cblk = s.cblk
           /\ t.cend = s.cend /\ t.send = s.send /\ t.scon = s.scon /\ t.unflushed = s.unflushed
           /\ t.sout = s.sout /\ t.sblk = s.sblk /\ t.writable = s.writable
           /\ t.sin = T!Empty /\ ~t.hin
           /\ t.tls = "start" => s.tls = "start"
           /\ ~s.hin => t.tls = s.tls
           /\ s.send # "open" => T!IsShutdown(t.server)
           /\ s.send = "open" => t.server = s.server
           /\ T!IsShutdown(s.server) => T!IsShutdown(t.server)
           /\ T!WantsWrite(t) => T!WantsWrite(s) \/ (s.hin /\ s.plain # T!Empty)
<1> DEFINE done == s.hin /\ s.send # "bad"
           l == IF done THEN "done" ELSE s.tls
           x == IF done THEN s.session \o s.plain ELSE s.session
           p == IF done THEN T!Empty ELSE s.plain
           v == IF s.send # "open" THEN T!Shutdown(s.server) ELSE s.server
           a == [s EXCEPT !.sin = T!Empty, !.hin = FALSE, !.tls = l, !.session = x, !.plain = p, !.server = v]
<1>f. s \in T!ConnState /\ s.server \in T!Status /\ s.plain \in Seq(Nat) /\ s.session \in Seq(Nat)
      /\ s.send \in {"open", "fin", "rst", "bad"} /\ s.hin \in BOOLEAN
  BY TFields DEF Fit
<1>1. t = a
  BY DEF T!DoRead
<1>2. /\ l = "start" => s.tls = "start" /\ ~done
      /\ ~s.hin => l = s.tls /\ x = s.session
      /\ ~done => l = s.tls /\ x = s.session
      /\ s.hin \/ ~done
  OBVIOUS
<1>3. done /\ s.session = T!Empty /\ s.plain = T!Empty => x = T!Empty
  BY TEmpty, ConcatEmptySeq
<1>4. (s.send # "open" => T!IsShutdown(v)) /\ (s.send = "open" => v = s.server)
      /\ (T!IsShutdown(s.server) => T!IsShutdown(v))
  BY <1>f, TStatus
<1>5. done => s.hin
  OBVIOUS
<1> HIDE DEF done, l, x, p, v
<1>6. /\ a.client = s.client /\ a.sendBuffer = s.sendBuffer /\ a.readClient = s.readClient
      /\ a.readServer = s.readServer /\ a.cin = s.cin /\ a.cout = s.cout /\ a.cblk = s.cblk
      /\ a.cend = s.cend /\ a.send = s.send /\ a.scon = s.scon /\ a.unflushed = s.unflushed
      /\ a.sout = s.sout /\ a.sblk = s.sblk /\ a.writable = s.writable
  BY <1>f DEF T!ConnState
<1>7. a.sin = T!Empty /\ ~a.hin /\ a.tls = l /\ a.session = x /\ a.server = v
  BY <1>f DEF T!ConnState
<1> HIDE DEF a
<1>8. T!WantsWrite(a) => T!WantsWrite(s) \/ (s.hin /\ s.plain # T!Empty)
  BY <1>2, <1>3, <1>5, <1>7 DEF T!WantsWrite
<1> QED BY <1>1, <1>2, <1>4, <1>6, <1>7, <1>8

\* What do_send_client does to them.
LEMMA DoSendClientWakes ==
    ASSUME NEW s, Fit(s), NEW h \in Seq(Nat), NEW t, t = T!DoSendClient(s, h)
    PROVE  /\ t.server = s.server /\ t.readClient = s.readClient /\ t.readServer = s.readServer
           /\ t.cin = s.cin /\ t.cend = s.cend /\ t.send = s.send /\ t.scon = s.scon
           /\ t.unflushed = s.unflushed /\ t.sout = s.sout /\ t.sblk = s.sblk /\ t.writable = s.writable
           /\ t.sin = s.sin /\ t.hin = s.hin /\ t.tls = s.tls /\ t.session = s.session /\ t.plain = s.plain
           /\ T!IsShutdown(t.client) \/ t.client = s.client
           /\ T!IsShutdown(s.client) => T!IsShutdown(t.client)
           /\ s.client # "Connecting" => \/ T!IsShutdown(t.client)
                                         \/ t.sendBuffer = T!Empty
                                         \/ ClientFull(t)
           /\ ClientFull(s) => ClientFull(t)
           /\ s.sendBuffer = T!Empty /\ h = T!Empty => t.sendBuffer = T!Empty /\ t.client = s.client
<1> DEFINE q == s.sendBuffer \o h
           n == T!Smaller(Len(q), SockCap - Len(s.cout))
<1>f. s \in T!ConnState /\ s.client \in T!Status
  BY TFields DEF Fit
<1>2. /\ s.sendBuffer \in Seq(Nat) /\ s.cout \in Seq(Nat) /\ Len(s.cout) \in Nat
      /\ Len(s.cout) <= SockCap /\ SockCap \in Nat
  BY TFields, LenProperties, ConstAssumption
<1>q. q \in Seq(Nat) /\ Len(q) \in Nat /\ (s.sendBuffer = T!Empty /\ h = T!Empty => q = T!Empty)
  <2>1. q \in Seq(Nat)
    BY <1>2, Joined
  <2>2. s.sendBuffer = T!Empty /\ h = T!Empty => q = T!Empty
    BY TEmpty, ConcatEmptySeq
  <2> HIDE DEF q
  <2> QED BY <2>1, <2>2, LenProperties
<1>1. t = IF s.client = "Connecting" THEN [s EXCEPT !.sendBuffer = q]
          ELSE IF q = T!Empty THEN s
          ELSE IF s.cend = "rst" \/ T!IsShutdown(s.client)
            THEN [s EXCEPT !.sendBuffer = T!Empty, !.client = T!Shutdown(s.client)]
          ELSE [s EXCEPT !.cout = @ \o T!Take(q, n), !.sendBuffer = T!Drop(q, n),
                      !.cblk = @ \/ n < Len(q)]
  BY DEF T!DoSendClient
<1> HIDE DEF q
<1>3. CASE s.client = "Connecting"
  <2> DEFINE a == [s EXCEPT !.sendBuffer = q]
  <2>1. t = a
    BY <1>1, <1>3
  <2>2. /\ a.server = s.server /\ a.readClient = s.readClient /\ a.readServer = s.readServer
        /\ a.cin = s.cin /\ a.cend = s.cend /\ a.send = s.send /\ a.scon = s.scon
        /\ a.unflushed = s.unflushed /\ a.sout = s.sout /\ a.sblk = s.sblk /\ a.writable = s.writable
        /\ a.sin = s.sin /\ a.hin = s.hin /\ a.tls = s.tls /\ a.session = s.session /\ a.plain = s.plain
    BY <1>f DEF T!ConnState
  <2>3. a.client = s.client /\ a.cout = s.cout /\ a.cblk = s.cblk /\ a.sendBuffer = q
    BY <1>f DEF T!ConnState
  <2> HIDE DEF a
  <2>4. ClientFull(s) => ClientFull(a)
    BY <2>3 DEF ClientFull
  <2> QED BY <1>3, <1>q, <2>1, <2>2, <2>3, <2>4
<1>4. CASE s.client # "Connecting" /\ q = T!Empty
  <2>1. t = s
    BY <1>1, <1>4
  <2>2. s.sendBuffer = T!Empty
    <3>1. Len(q) = Len(s.sendBuffer) + Len(h) /\ Len(q) = 0 /\ Len(h) \in Nat /\ Len(s.sendBuffer) \in Nat
      <4>1. Len(s.sendBuffer \o h) = Len(s.sendBuffer) + Len(h)
        BY <1>2, Joined
      <4>2. Len(q) = 0
        BY <1>4, TEmpty
      <4> QED BY <1>2, <4>1, <4>2, LenProperties DEF q
    <3>2. Len(s.sendBuffer) = 0
      <4>1. \A x, y \in Nat : x + y = 0 => x = 0
        OBVIOUS
      <4> QED BY ZenonT(60), <3>1, <4>1
    <3> QED BY <1>2, <3>2, EmptySeq, TEmpty
  <2> QED BY <2>1, <2>2
<1>5. CASE s.client # "Connecting" /\ q # T!Empty /\ (s.cend = "rst" \/ T!IsShutdown(s.client))
  <2> DEFINE v == T!Shutdown(s.client)
             a == [s EXCEPT !.sendBuffer = T!Empty, !.client = v]
  <2>1. t = a
    BY <1>1, <1>5
  <2>v. T!IsShutdown(v)
    BY <1>f, TStatus
  <2> HIDE DEF v
  <2>2. /\ a.server = s.server /\ a.readClient = s.readClient /\ a.readServer = s.readServer
        /\ a.cin = s.cin /\ a.cend = s.cend /\ a.send = s.send /\ a.scon = s.scon
        /\ a.unflushed = s.unflushed /\ a.sout = s.sout /\ a.sblk = s.sblk /\ a.writable = s.writable
        /\ a.sin = s.sin /\ a.hin = s.hin /\ a.tls = s.tls /\ a.session = s.session /\ a.plain = s.plain
    BY <1>f DEF T!ConnState
  <2>3. a.client = v /\ a.cout = s.cout /\ a.cblk = s.cblk
    BY <1>f DEF T!ConnState
  <2> HIDE DEF a
  <2>4. ClientFull(s) => ClientFull(a)
    BY <2>3 DEF ClientFull
  <2> QED BY <1>5, <1>q, <2>1, <2>2, <2>3, <2>4, <2>v
<1>6. CASE s.client # "Connecting" /\ q # T!Empty /\ ~(s.cend = "rst" \/ T!IsShutdown(s.client))
  <2>3. n \in 0 .. Len(q) /\ n <= SockCap - Len(s.cout)
        /\ (n # Len(q) => n = SockCap - Len(s.cout) /\ n < Len(q))
        /\ (Len(s.cout) = SockCap => n = 0)
    <3>1. SockCap - Len(s.cout) \in Nat /\ (Len(s.cout) = SockCap => SockCap - Len(s.cout) = 0)
      BY <1>2
    <3> QED BY <1>2, <1>q, <3>1, SmallerIs
  <2> HIDE DEF n
  <2> DEFINE e == T!Take(q, n)
             d == T!Drop(q, n)
             o == s.cout \o e
             k == s.cblk \/ n < Len(q)
             a == [s EXCEPT !.cout = o, !.sendBuffer = d, !.cblk = k]
  <2>1. t = a
    BY <1>1, <1>6
  <2>4. e \in Seq(Nat) /\ d \in Seq(Nat) /\ Len(e) = n /\ Len(d) = Len(q) - n
    BY <1>q, <2>3, Split
  <2> HIDE DEF e, d
  <2>5. Len(o) = Len(s.cout) + n
    BY <1>2, <2>4, Joined
  <2> HIDE DEF o
  <2>k. k <=> (s.cblk \/ n < Len(q))
    OBVIOUS
  <2> HIDE DEF k
  <2>7. /\ a.server = s.server /\ a.readClient = s.readClient /\ a.readServer = s.readServer
        /\ a.cin = s.cin /\ a.cend = s.cend /\ a.send = s.send /\ a.scon = s.scon
        /\ a.unflushed = s.unflushed /\ a.sout = s.sout /\ a.sblk = s.sblk /\ a.writable = s.writable
        /\ a.sin = s.sin /\ a.hin = s.hin /\ a.tls = s.tls /\ a.session = s.session /\ a.plain = s.plain
    BY <1>f DEF T!ConnState
  <2>8. a.client = s.client /\ a.cout = o /\ a.cblk = k /\ a.sendBuffer = d
    BY <1>f DEF T!ConnState
  <2> HIDE DEF a
  <2>9. CASE n = Len(q)
    <3>1. Len(d) = 0
      BY <1>q, <2>4, <2>9
    <3>2. a.sendBuffer = T!Empty
      BY <2>4, <2>8, <3>1, EmptySeq, TEmpty
    <3>4. ClientFull(s) => ClientFull(a)
      <4> SUFFICES ASSUME s.cblk, Len(s.cout) = SockCap PROVE ClientFull(a)
        BY DEF ClientFull
      <4>1. Len(o) = SockCap
        BY <1>2, <2>3, <2>5
      <4>2. a.cblk
        BY <2>8, <2>k
      <4> QED BY <2>8, <4>1, <4>2 DEF ClientFull
    <3> QED BY <1>6, <1>q, <2>1, <2>7, <2>8, <3>2, <3>4
  <2>10. CASE n # Len(q)
    <3>1. Len(o) = SockCap /\ n < Len(q)
      BY <1>2, <1>q, <2>3, <2>5, <2>10
    <3>2. a.cblk
      BY <2>8, <2>k, <3>1
    <3>3. ClientFull(a)
      BY <2>8, <3>1, <3>2 DEF ClientFull
    <3> QED BY <1>6, <1>q, <2>1, <2>7, <2>8, <3>3
  <2> QED BY <2>9, <2>10
<1> QED BY <1>3, <1>4, <1>5, <1>6

\* What tcp_read does to them: it reads everything or shuts a side down.
LEMMA TcpReadWakes ==
    ASSUME NEW s, Fit(s), NEW t, t = T!TcpRead(s)
    PROVE  /\ t.sendBuffer = s.sendBuffer /\ t.readClient = s.readClient /\ t.readServer = s.readServer
           /\ t.cout = s.cout /\ t.cblk = s.cblk /\ t.cend = s.cend /\ t.sin = s.sin /\ t.send = s.send
           /\ t.hin = s.hin /\ t.scon = s.scon /\ t.unflushed = s.unflushed /\ t.tls = s.tls
           /\ t.sout = s.sout /\ t.sblk = s.sblk
           /\ T!IsShutdown(t.client) \/ t.client = s.client
           /\ T!IsShutdown(t.server) \/ t.server = s.server
           /\ T!IsShutdown(s.client) => T!IsShutdown(t.client)
           /\ T!IsShutdown(s.server) => T!IsShutdown(t.server)
           /\ BothOpen(t) => t.cin = T!Empty /\ t.cend = "open"
<1> DEFINE used == Len(s.plain) + Len(s.session)
           room == IF SessLimit > used THEN SessLimit - used ELSE 0
           in == T!Take(s.cin, T!Smaller(Len(s.cin), room))
           p == IF s.tls = "done" THEN s.plain ELSE s.plain \o in
           x == IF s.tls = "done" THEN s.session \o in ELSE s.session
           r == T!Drop(s.cin, room + 1)
           v == T!Shutdown(s.server)
           w == IF s.cend # "open" THEN T!Shutdown(s.client) ELSE s.client
           u == [s EXCEPT !.plain = p, !.session = x]
           a == [u EXCEPT !.cin = r, !.server = v, !.broken = TRUE]
           b == [u EXCEPT !.cin = T!Empty, !.client = w]
<1>f. s \in T!ConnState /\ s.server \in T!Status /\ s.client \in T!Status
  BY TFields DEF Fit
<1>u. u.server = s.server /\ u.client = s.client
  BY <1>f DEF T!ConnState
<1>1. t = a \/ t = b
  <2>1. t = [u EXCEPT !.cin = r, !.server = T!Shutdown(@), !.broken = TRUE]
        \/ t = [u EXCEPT !.cin = T!Empty, !.client = IF s.cend # "open" THEN T!Shutdown(@) ELSE @]
    BY DEF T!TcpRead
  <2> HIDE DEF r, u
  <2> QED BY <2>1, <1>u
<1>2. T!IsShutdown(v) /\ (s.cend # "open" => T!IsShutdown(w)) /\ (T!IsShutdown(w) \/ w = s.client)
      /\ (T!IsShutdown(s.client) => T!IsShutdown(w))
  BY <1>f, TStatus
<1> HIDE DEF p, x, r, v, w
<1>3. /\ a.sendBuffer = s.sendBuffer /\ a.readClient = s.readClient /\ a.readServer = s.readServer
      /\ a.cout = s.cout /\ a.cblk = s.cblk /\ a.cend = s.cend /\ a.sin = s.sin /\ a.send = s.send
      /\ a.hin = s.hin /\ a.scon = s.scon /\ a.unflushed = s.unflushed /\ a.tls = s.tls
      /\ a.sout = s.sout /\ a.sblk = s.sblk
  BY <1>f DEF T!ConnState
<1>4. a.client = s.client /\ a.server = v
  BY <1>f DEF T!ConnState
<1>5. /\ b.sendBuffer = s.sendBuffer /\ b.readClient = s.readClient /\ b.readServer = s.readServer
      /\ b.cout = s.cout /\ b.cblk = s.cblk /\ b.cend = s.cend /\ b.sin = s.sin /\ b.send = s.send
      /\ b.hin = s.hin /\ b.scon = s.scon /\ b.unflushed = s.unflushed /\ b.tls = s.tls
      /\ b.sout = s.sout /\ b.sblk = s.sblk
  BY <1>f DEF T!ConnState
<1>6. b.client = w /\ b.server = s.server /\ b.cin = T!Empty
  BY <1>f DEF T!ConnState
<1> HIDE DEF a, b
<1>7. CASE t = a
  BY <1>2, <1>3, <1>4, <1>7 DEF BothOpen
<1>8. CASE t = b
  BY <1>2, <1>5, <1>6, <1>8 DEF BothOpen
<1> QED BY <1>1, <1>7, <1>8

\* try_read_client: the client's socket is empty, and what there is to write waits for
\* room in the server's.
LEMMA TryReadClientWakes ==
    ASSUME NEW s, Faithful(s, T!Empty), TcpPeersOK, T!Alive(s.server),
           NEW C, NEW V, NEW R, NEW S, TcpStirred(s, C, V, R, S),
           NEW t, t = T!TryReadClient(s)
    PROVE  TcpStirred(t, C, FALSE, FALSE, S) /\ Onward(s, t)
<1> DEFINE u == T!TcpRead(s)
           w == [u EXCEPT !.readClient = FALSE]
<1>1. Faithful(u, T!Empty)
  BY TcpReads
<1>2. /\ u.sendBuffer = s.sendBuffer /\ u.readServer = s.readServer
      /\ u.cout = s.cout /\ u.cblk = s.cblk /\ u.cend = s.cend /\ u.sin = s.sin /\ u.send = s.send
      /\ u.hin = s.hin /\ u.scon = s.scon /\ u.tls = s.tls
      /\ T!IsShutdown(u.client) \/ u.client = s.client
      /\ T!IsShutdown(u.server) \/ u.server = s.server
      /\ T!IsShutdown(s.client) => T!IsShutdown(u.client)
      /\ T!IsShutdown(s.server) => T!IsShutdown(u.server)
      /\ BothOpen(u) => u.cin = T!Empty /\ u.cend = "open"
  <2>1. Fit(s)
    BY DEF Faithful
  <2> QED BY <2>1, TcpReadWakes
<1> HIDE DEF u
<1>3. Faithful(w, T!Empty)
  BY <1>1, TcpFlags
<1>4. /\ w.sendBuffer = u.sendBuffer /\ w.readServer = u.readServer /\ ~w.readClient
      /\ w.cout = u.cout /\ w.cblk = u.cblk /\ w.cend = u.cend /\ w.sin = u.sin /\ w.send = u.send
      /\ w.hin = u.hin /\ w.scon = u.scon /\ w.tls = u.tls /\ w.cin = u.cin
      /\ w.client = u.client /\ w.server = u.server
  BY <1>1 DEF Faithful, Fit, T!ConnState
<1>5. t = T!DoSend(w)
  BY DEF T!TryReadClient, w, u
<1> HIDE DEF w
<1>6. /\ t.client = w.client /\ t.sendBuffer = w.sendBuffer /\ t.readClient = w.readClient
      /\ t.readServer = w.readServer /\ t.cin = w.cin /\ t.cout = w.cout /\ t.cblk = w.cblk
      /\ t.cend = w.cend /\ t.sin = w.sin /\ t.send = w.send /\ t.hin = w.hin /\ t.scon = w.scon
      /\ t.tls = "start" => w.tls = "start"
      /\ T!IsShutdown(t.server) \/ t.server = w.server
      /\ T!IsShutdown(w.server) => T!IsShutdown(t.server)
      /\ w.server # "Connecting" => \/ T!IsShutdown(t.server)
                                    \/ t.writable /\ ~T!WantsWrite(t)
                                    \/ ServerFull(t)
  <2>1. Fit(w)
    BY <1>3 DEF Faithful
  <2> QED BY <1>5, <2>1, DoSendWakes
<1>7. s.server # "Connecting" /\ ~T!IsShutdown(s.server) /\ w.server # "Connecting" /\ t.server # "Connecting"
  BY <1>2, <1>4, <1>6 DEF T!Alive, T!IsShutdown
<1>8. Onward(s, t)
  BY <1>2, <1>4, <1>6 DEF Onward
<1>9. BothOpen(t) => BothOpen(u) /\ BothOpen(s)
  BY <1>2, <1>4, <1>6 DEF BothOpen
<1>10. T!Alive(t.client) => t.client = s.client
  BY <1>2, <1>4, <1>6 DEF T!Alive, T!IsShutdown
<1>11. T!Alive(t.server) => ~T!IsShutdown(t.server)
  BY DEF T!Alive, T!IsShutdown
<1>12. t.client = "Connecting" => s.client = "Connecting"
  BY <1>2, <1>4, <1>6 DEF T!IsShutdown
<1>13. ClientFull(s) => ClientFull(t)
  BY <1>2, <1>4, <1>6 DEF ClientFull
<1>14. TcpStirred(t, C, FALSE, FALSE, S)
  BY <1>2, <1>4, <1>6, <1>7, <1>9, <1>10, <1>11, <1>12, <1>13 DEF TcpStirred
<1> QED BY <1>8, <1>14

\* The client's socket is reported readable.
LEMMA ClientReadableWakes ==
    ASSUME NEW s, Faithful(s, T!Empty), TcpPeersOK,
           NEW C, NEW V, NEW R, NEW S, TcpStirred(s, C, V, R, S),
           NEW t, t = T!ClientReadable(s)
    PROVE  TcpStirred(t, C, V, FALSE, S) /\ Onward(s, t)
<1>1. CASE T!ServerWritable(s)
  <2>1. t = T!TryReadClient(s) /\ T!Alive(s.server)
    BY <1>1 DEF T!ClientReadable, T!ServerWritable
  <2>2. TcpStirred(t, C, FALSE, FALSE, S) /\ Onward(s, t)
    BY <2>1, TryReadClientWakes
  <2>3. TcpStirred(t, C, V, FALSE, S)
    BY <2>2 DEF TcpStirred
  <2> QED BY <2>2, <2>3
<1>2. CASE ~T!ServerWritable(s)
  <2> DEFINE a == [s EXCEPT !.readClient = TRUE]
  <2>1. t = a
    BY <1>2 DEF T!ClientReadable
  <2>f. s \in T!ConnState /\ s.server \in T!Status
    BY TFields DEF Faithful, Fit
  <2>2. /\ a.client = s.client /\ a.sendBuffer = s.sendBuffer /\ a.readClient
        /\ a.readServer = s.readServer /\ a.cout = s.cout /\ a.cblk = s.cblk
        /\ a.sin = s.sin /\ a.send = s.send /\ a.hin = s.hin /\ a.scon = s.scon
        /\ a.unflushed = s.unflushed
    BY <2>f DEF T!ConnState
  <2>3. /\ a.server = s.server /\ a.tls = s.tls /\ a.session = s.session /\ a.sout = s.sout /\ a.sblk = s.sblk
        /\ a.writable = s.writable
    BY <2>f DEF T!ConnState
  <2> HIDE DEF a
  <2>4. /\ T!WantsWrite(a) <=> T!WantsWrite(s)
        /\ ServerFull(a) <=> ServerFull(s)
        /\ ClientFull(a) <=> ClientFull(s)
        /\ BothOpen(a) <=> BothOpen(s)
    BY <2>2, <2>3 DEF T!WantsWrite, ServerFull, ClientFull, BothOpen
  <2>5. BothOpen(s) => s.server = "Connecting" \/ (T!Alive(s.server) /\ ~s.writable)
    BY <1>2, <2>f DEF BothOpen, T!ServerWritable, T!Alive, T!IsShutdown, T!Status
  <2>6. BothOpen(s) => V \/ ServerFull(s) \/ s.scon = "connecting"
    BY <2>5 DEF TcpStirred
  <2>7. TcpStirred(a, C, V, FALSE, S)
    BY <2>2, <2>3, <2>4, <2>6 DEF TcpStirred
  <2>8. Onward(s, a)
    BY <2>2, <2>3 DEF Onward
  <2> QED BY <2>1, <2>7, <2>8
<1> QED BY <1>1, <1>2

\* do_status keeps what is waited for.
LEMMA SettleWakes ==
    ASSUME NEW s, Faithful(s, T!Empty),
           NEW C, NEW V, NEW R, NEW S, TcpStirred(s, C, V, R, S),
           NEW t, t = T!Settle(s)
    PROVE  TcpStirred(t, C, V, R, S) /\ Onward(s, t)
<1> DEFINE v == IF T!IsShutdown(s.client) THEN T!PeerClosed(s.server) ELSE s.server
           k == IF T!IsShutdown(v) THEN T!PeerClosed(s.client) ELSE s.client
           l == T!CheckStatus(k, s.sendBuffer = T!Empty)
           m == T!CheckStatus(v, ~T!WantsWrite(s))
           a == [s EXCEPT !.client = l, !.server = m]
<1>1. t = a
  BY DEF T!Settle
<1>f. s \in T!ConnState /\ s.server \in T!Status /\ s.client \in T!Status
      /\ (s.client = "PeerClosed" => T!IsShutdown(s.server))
  BY TFields DEF Faithful, Fit, EndsOK
<1>2. s.server = "Connecting" => ~T!IsShutdown(s.client)
  BY DEF TcpStirred
<1>3. /\ T!IsShutdown(s.server) => T!IsShutdown(m)
      /\ T!IsShutdown(s.client) => T!IsShutdown(l)
      /\ m = "Connecting" => s.server = "Connecting" /\ ~T!IsShutdown(l)
      /\ l = "Connecting" => s.client = "Connecting"
      /\ T!Alive(m) => T!Alive(s.server)
      /\ T!Alive(l) => T!Alive(s.client) \/ s.client = "Connecting"
  <2>1. CASE T!IsShutdown(s.client)
    <3>1. v = T!PeerClosed(s.server) /\ k = s.client /\ l = "Deregistered"
      BY <2>1 DEF T!PeerClosed, T!IsShutdown, T!CheckStatus
    <3>2. s.server # "Connecting"
      BY <1>2, <2>1
    <3> HIDE DEF v, k, l
    <3> QED BY <3>1, <3>2, <2>1, <1>f DEF T!PeerClosed, T!IsShutdown, T!CheckStatus, T!Alive, T!Status
  <2>2. CASE ~T!IsShutdown(s.client)
    <3>1. v = s.server /\ (~T!IsShutdown(s.server) => k = s.client)
      BY <2>2
    <3>2. k \in {s.client, T!PeerClosed(s.client)}
      OBVIOUS
    <3> HIDE DEF v, k
    <3> QED BY <3>1, <3>2, <2>2, <1>f DEF T!PeerClosed, T!IsShutdown, T!CheckStatus, T!Alive, T!Status
  <2> QED BY <2>1, <2>2
<1> HIDE DEF l, m
<1>4. /\ a.sendBuffer = s.sendBuffer /\ a.readClient = s.readClient
      /\ a.readServer = s.readServer /\ a.cout = s.cout /\ a.cblk = s.cblk /\ a.cin = s.cin /\ a.cend = s.cend
      /\ a.sin = s.sin /\ a.send = s.send /\ a.hin = s.hin /\ a.scon = s.scon
      /\ a.unflushed = s.unflushed
  BY <1>f DEF T!ConnState
<1>5. /\ a.server = m /\ a.client = l
      /\ a.tls = s.tls /\ a.session = s.session /\ a.sout = s.sout /\ a.sblk = s.sblk /\ a.writable = s.writable
  BY <1>f DEF T!ConnState
<1> HIDE DEF a
<1>6. /\ T!WantsWrite(a) <=> T!WantsWrite(s)
      /\ ServerFull(a) <=> ServerFull(s)
      /\ ClientFull(a) <=> ClientFull(s)
      /\ BothOpen(a) => BothOpen(s)
  BY <1>3, <1>4, <1>5 DEF T!WantsWrite, ServerFull, ClientFull, BothOpen
<1>7. TcpStirred(a, C, V, R, S)
  BY <1>3, <1>4, <1>5, <1>6 DEF TcpStirred
<1>8. Onward(s, a)
  BY <1>3, <1>4, <1>5 DEF Onward
<1> QED BY <1>1, <1>7, <1>8

\* try_read_server: what the server sent is read, and what the client's socket does not
\* take waits for room in it.
LEMMA TryReadServerWakes ==
    ASSUME NEW s, Faithful(s, T!Empty), TcpPeersOK, T!Writable(s),
           NEW C, NEW V, NEW R, NEW S, TcpStirred(s, C, V, R, S),
           NEW t, t = T!TryReadServer(s)
    PROVE  /\ Faithful(t, T!Empty)
           /\ t.readClient = s.readClient /\ t.readServer = s.readServer /\ t.cin = s.cin /\ t.cend = s.cend
           /\ t.send = s.send /\ t.scon = s.scon /\ t.unflushed = s.unflushed /\ t.writable = s.writable
           /\ ServerFull(t) <=> ServerFull(s)
           /\ ClientFull(s) => ClientFull(t)
           /\ t.sin = T!Empty /\ ~t.hin
           /\ T!IsShutdown(s.server) => T!IsShutdown(t.server)
           /\ T!IsShutdown(t.server) \/ (t.server = s.server /\ t.send = "open")
           /\ T!IsShutdown(t.client) \/ t.client = s.client
           /\ t.server = "Connecting" => t.tls = "start" /\ t.sout = T!Empty /\ t.sendBuffer = T!Empty /\ ~T!IsShutdown(t.client)
           /\ T!IsShutdown(t.client) \/ t.sendBuffer = T!Empty \/ ClientFull(t)
           /\ T!WantsWrite(t) => T!WantsWrite(s) \/ (s.hin /\ s.plain # T!Empty)
<1> DEFINE u == T!DoRead(s)
           h == T!ReadBuffer(s)
<1>a. T!Alive(s.client) /\ s.sendBuffer = T!Empty
  BY DEF T!Writable
<1>f. Fit(s) /\ s.client \in T!Status /\ s.server \in T!Status
  BY TFields DEF Faithful
<1>1. Faithful(t, T!Empty)
  BY <1>a, TcpTryReadServer
<1>2. Fit(u)
  BY <1>a, TcpDoRead DEF Faithful
<1>3. h \in Seq(Nat) /\ (s.sin = T!Empty => h = T!Empty)
  BY <1>f, TFields, TEmpty DEF T!ReadBuffer
<1>4. /\ u.client = s.client /\ u.sendBuffer = s.sendBuffer /\ u.readClient = s.readClient
      /\ u.readServer = s.readServer /\ u.cin = s.cin /\ u.cout = s.cout /\ u.cblk = s.cblk
      /\ u.cend = s.cend /\ u.send = s.send /\ u.scon = s.scon /\ u.unflushed = s.unflushed
      /\ u.sout = s.sout /\ u.sblk = s.sblk /\ u.writable = s.writable
      /\ u.sin = T!Empty /\ ~u.hin
      /\ ~s.hin => u.tls = s.tls
      /\ s.send # "open" => T!IsShutdown(u.server)
      /\ s.send = "open" => u.server = s.server
      /\ T!IsShutdown(s.server) => T!IsShutdown(u.server)
      /\ T!WantsWrite(u) => T!WantsWrite(s) \/ (s.hin /\ s.plain # T!Empty)
  BY <1>f, DoReadWakes
<1>5. t = T!DoSendClient(u, h)
  BY DEF T!TryReadServer
<1> HIDE DEF u, h
<1>6. /\ t.server = u.server /\ t.readClient = u.readClient /\ t.readServer = u.readServer
      /\ t.cin = u.cin /\ t.cend = u.cend /\ t.send = u.send /\ t.scon = u.scon
      /\ t.unflushed = u.unflushed /\ t.sout = u.sout /\ t.sblk = u.sblk /\ t.writable = u.writable
      /\ t.sin = u.sin /\ t.hin = u.hin /\ t.tls = u.tls /\ t.session = u.session
      /\ T!IsShutdown(t.client) \/ t.client = u.client
      /\ u.client # "Connecting" => \/ T!IsShutdown(t.client)
                                    \/ t.sendBuffer = T!Empty
                                    \/ ClientFull(t)
      /\ ClientFull(u) => ClientFull(t)
      /\ u.sendBuffer = T!Empty /\ h = T!Empty => t.sendBuffer = T!Empty /\ t.client = u.client
  BY <1>2, <1>3, <1>5, DoSendClientWakes
<1>7. s.client # "Connecting" /\ ~T!IsShutdown(s.client)
  BY <1>a DEF T!Alive, T!IsShutdown
<1>8. (ServerFull(t) <=> ServerFull(s)) /\ (ClientFull(s) => ClientFull(t))
  BY <1>4, <1>6 DEF ServerFull, ClientFull
<1>9. T!WantsWrite(t) <=> T!WantsWrite(u)
  BY <1>6 DEF T!WantsWrite
<1>10. t.server = "Connecting" => t.tls = "start" /\ t.sout = T!Empty /\ t.sendBuffer = T!Empty /\ ~T!IsShutdown(t.client)
  <2> SUFFICES ASSUME t.server = "Connecting"
               PROVE  t.tls = "start" /\ t.sout = T!Empty /\ t.sendBuffer = T!Empty /\ ~T!IsShutdown(t.client)
    OBVIOUS
  <2>1. s.server = "Connecting"
    BY <1>4, <1>6 DEF T!IsShutdown
  <2>2. s.tls = "start" /\ s.sout = T!Empty /\ s.sin = T!Empty /\ ~s.hin
    BY <2>1 DEF TcpStirred
  <2> QED BY <1>a, <1>3, <1>4, <1>6, <1>7, <2>2
<1>11. s.send = "open" => t.server = s.server /\ t.send = "open"
  BY <1>4, <1>6
<1>12. s.send # "open" => T!IsShutdown(t.server)
  BY <1>4, <1>6
<1> QED BY <1>1, <1>4, <1>6, <1>7, <1>8, <1>9, <1>10, <1>11, <1>12

\* The client's socket is reported writable.
LEMMA ClientWriteReadyWakes ==
    ASSUME NEW s, Faithful(s, T!Empty), TcpPeersOK,
           NEW C, NEW V, NEW R, NEW S, TcpStirred(s, C, V, R, S),
           NEW z, z = T!ClientWriteReady(s)
    PROVE  TcpStirred(z, FALSE, V, R, S) /\ Onward(s, z)
<1> DEFINE g == T!Established(s.client)
           e == [s EXCEPT !.client = g]
           t == T!DoSendClient(e, T!Empty)
<1>f. s \in T!ConnState /\ s.client \in T!Status
  BY TFields DEF Faithful, Fit
<1>1. g # "Connecting" /\ (T!IsShutdown(g) <=> T!IsShutdown(s.client))
  BY <1>f DEF T!Established, T!IsShutdown
<1>2. Faithful(e, T!Empty)
  BY TcpFlags
<1> HIDE DEF g
<1>3. /\ e.server = s.server /\ e.readClient = s.readClient /\ e.readServer = s.readServer
      /\ e.cin = s.cin /\ e.cend = s.cend /\ e.send = s.send /\ e.scon = s.scon
      /\ e.unflushed = s.unflushed /\ e.sout = s.sout /\ e.sblk = s.sblk /\ e.writable = s.writable
      /\ e.sin = s.sin /\ e.hin = s.hin /\ e.tls = s.tls /\ e.session = s.session
  BY <1>f DEF T!ConnState
<1>4. e.client = g /\ e.sendBuffer = s.sendBuffer
  BY <1>f DEF T!ConnState
<1>5. z = T!TrySendClient(e)
  BY DEF T!ClientWriteReady, g
<1> HIDE DEF e
<1>6. Faithful(t, T!Empty)
  BY <1>2, TcpDoSendClient, TEmpty
<1>7. /\ t.server = e.server /\ t.readClient = e.readClient /\ t.readServer = e.readServer
      /\ t.cin = e.cin /\ t.cend = e.cend /\ t.send = e.send /\ t.scon = e.scon
      /\ t.unflushed = e.unflushed /\ t.sout = e.sout /\ t.sblk = e.sblk /\ t.writable = e.writable
      /\ t.sin = e.sin /\ t.hin = e.hin /\ t.tls = e.tls /\ t.session = e.session
      /\ T!IsShutdown(t.client) \/ t.client = e.client
      /\ T!IsShutdown(e.client) => T!IsShutdown(t.client)
      /\ e.client # "Connecting" => \/ T!IsShutdown(t.client)
                                    \/ t.sendBuffer = T!Empty
                                    \/ ClientFull(t)
      /\ e.sendBuffer = T!Empty => t.sendBuffer = T!Empty /\ t.client = e.client
  <2> DEFINE h == T!Empty
  <2>1. Fit(e) /\ h \in Seq(Nat) /\ t = T!DoSendClient(e, h)
    BY <1>2, TEmpty DEF Faithful
  <2>2. h = T!Empty
    OBVIOUS
  <2> HIDE DEF h, t
  <2> QED BY <2>1, <2>2, DoSendClientWakes
<1>8. z = IF T!Writable(t) /\ t.readServer
          THEN [T!TryReadServer(t) EXCEPT !.readServer = FALSE,
                                     !.unflushed = @ \/ (t.hin /\ t.plain # T!Empty)]
          ELSE t
  BY <1>5 DEF T!TrySendClient
<1> HIDE DEF t
<1>9. t.client # "Connecting" /\ (T!IsShutdown(s.client) => T!IsShutdown(t.client))
  BY <1>1, <1>4, <1>7 DEF T!IsShutdown
<1>10. /\ T!WantsWrite(t) <=> T!WantsWrite(s)
       /\ ServerFull(t) <=> ServerFull(s)
       /\ BothOpen(t) => BothOpen(s)
  BY <1>3, <1>7, <1>9 DEF T!WantsWrite, ServerFull, BothOpen
<1>11. TcpStirred(t, TRUE, V, R, S)
  BY <1>1, <1>3, <1>4, <1>7, <1>9, <1>10 DEF TcpStirred
<1>12. Onward(s, t)
  BY <1>3, <1>7 DEF Onward
<1>13. CASE ~(T!Writable(t) /\ t.readServer)
  <2>1. z = t
    BY <1>8, <1>13
  <2>2. T!IsShutdown(t.client) \/ t.sendBuffer = T!Empty \/ ClientFull(t)
    BY <1>1, <1>4, <1>7
  <2>3. t.client \in T!Status
    BY <1>6, TFields DEF Faithful
  <2>4. T!Alive(t.client) => ~T!IsShutdown(t.client)
    BY DEF T!Alive, T!IsShutdown
  <2>5. BothOpen(t) /\ t.readServer => ClientFull(t)
    BY <1>9, <1>13, <2>2, <2>3 DEF T!Writable, BothOpen, T!Alive, T!IsShutdown, T!Status
  <2>6. TcpStirred(t, FALSE, V, R, S)
    BY <1>9, <1>11, <2>2, <2>4, <2>5 DEF TcpStirred
  <2> QED BY <1>12, <2>1, <2>6
<1>14. CASE T!Writable(t) /\ t.readServer
  <2> DEFINE u == T!TryReadServer(t)
             d == u.unflushed \/ (t.hin /\ t.plain # T!Empty)
             r == [u EXCEPT !.readServer = FALSE, !.unflushed = d]
  <2>1. z = r
    BY <1>8, <1>14
  <2>2. /\ Faithful(u, T!Empty)
        /\ u.readClient = t.readClient /\ u.cin = t.cin /\ u.cend = t.cend
        /\ u.send = t.send /\ u.scon = t.scon /\ u.unflushed = t.unflushed /\ u.writable = t.writable
        /\ ServerFull(u) <=> ServerFull(t)
        /\ u.sin = T!Empty /\ ~u.hin
        /\ T!IsShutdown(t.server) => T!IsShutdown(u.server)
        /\ T!IsShutdown(u.server) \/ (u.server = t.server /\ u.send = "open")
        /\ T!IsShutdown(u.client) \/ u.client = t.client
        /\ u.server = "Connecting" => u.tls = "start" /\ u.sout = T!Empty /\ u.sendBuffer = T!Empty /\ ~T!IsShutdown(u.client)
        /\ T!IsShutdown(u.client) \/ u.sendBuffer = T!Empty \/ ClientFull(u)
        /\ T!WantsWrite(u) => T!WantsWrite(t) \/ (t.hin /\ t.plain # T!Empty)
    <3> DEFINE K == TRUE
    <3>1. TcpStirred(t, K, V, R, S) /\ T!Writable(t)
      BY <1>11, <1>14
    <3> HIDE DEF K, u
    <3>2. u = T!TryReadServer(t)
      BY DEF u
    <3> QED BY <1>6, <3>1, <3>2, TryReadServerWakes
  <2> HIDE DEF u
  <2>3. ~T!IsShutdown(t.client)
    BY <1>14 DEF T!Writable, T!Alive, T!IsShutdown
  <2>d. d <=> (u.unflushed \/ (t.hin /\ t.plain # T!Empty))
    OBVIOUS
  <2> HIDE DEF d
  <2>4. /\ r.sendBuffer = u.sendBuffer /\ r.readClient = u.readClient
        /\ ~r.readServer /\ r.cout = u.cout /\ r.cblk = u.cblk /\ r.cin = u.cin /\ r.cend = u.cend
        /\ r.sin = u.sin /\ r.send = u.send /\ r.hin = u.hin /\ r.scon = u.scon
    BY <2>2 DEF Faithful, Fit, T!ConnState
  <2>5. /\ r.server = u.server /\ r.client = u.client
        /\ r.tls = u.tls /\ r.session = u.session /\ r.sout = u.sout /\ r.sblk = u.sblk /\ r.writable = u.writable
        /\ r.unflushed = d
    BY <2>2 DEF Faithful, Fit, T!ConnState
  <2> HIDE DEF r
  <2>6. /\ T!WantsWrite(r) <=> T!WantsWrite(u)
        /\ ServerFull(r) <=> ServerFull(t)
        /\ ClientFull(u) => ClientFull(r)
        /\ BothOpen(r) => BothOpen(t)
    BY <2>2, <2>3, <2>4, <2>5 DEF T!WantsWrite, ServerFull, ClientFull, BothOpen
  <2>7. r.client # "Connecting" /\ (T!Alive(r.client) => ~T!IsShutdown(r.client))
    BY <1>9, <2>2, <2>5 DEF T!Alive, T!IsShutdown
  <2>8. /\ T!Alive(r.server) => r.server = t.server /\ r.send = "open"
        /\ r.server = "Connecting" => t.server = "Connecting"
        /\ BothOpen(r) => r.send = "open"
    BY <2>2, <2>4, <2>5 DEF T!Alive, T!IsShutdown, BothOpen
  <2>9. T!WantsWrite(r) /\ ~r.unflushed => T!WantsWrite(t) /\ ~t.unflushed
    BY <2>2, <2>5, <2>6, <2>d
  <2>10. TcpStirred(r, FALSE, V, R, S)
    BY <1>11, <2>2, <2>4, <2>5, <2>6, <2>7, <2>8, <2>9 DEF TcpStirred
  <2>11. Onward(s, r)
    BY <1>12, <2>2, <2>4, <2>5 DEF Onward
  <2> QED BY <2>1, <2>10, <2>11
<1> QED BY <1>13, <1>14

\* The server's socket is reported readable.
LEMMA ServerReadableWakes ==
    ASSUME NEW s, Faithful(s, T!Empty), TcpPeersOK,
           NEW C, NEW V, NEW R, NEW S, TcpStirred(s, C, V, R, S),
           NEW z, z = T!ServerReadable(s)
    PROVE  TcpStirred(z, C, V, R, FALSE) /\ Onward(s, z)
<1> DEFINE x == IF T!Writable(s) THEN T!TryReadServer(s) ELSE [s EXCEPT !.readServer = TRUE]
<1>f. s \in T!ConnState /\ s.client \in T!Status
  BY TFields DEF Faithful, Fit
<1>1. z = T!DoSend(x)
  BY DEF T!ServerReadable
<1>2. Faithful(x, T!Empty) /\ TcpStirred(x, C, TRUE, R, FALSE) /\ Onward(s, x)
      /\ (x.server = "Connecting" => s.server = "Connecting")
      /\ (ServerFull(s) => ServerFull(x))
      /\ x.readClient = s.readClient /\ (BothOpen(x) => BothOpen(s))
  <2>1. CASE T!Writable(s)
    <3> DEFINE t == T!TryReadServer(s)
    <3>1. x = t
      BY <2>1
    <3>2. /\ Faithful(t, T!Empty)
          /\ t.readClient = s.readClient /\ t.readServer = s.readServer /\ t.cin = s.cin /\ t.cend = s.cend
          /\ t.send = s.send /\ t.scon = s.scon
          /\ ServerFull(t) <=> ServerFull(s)
          /\ ClientFull(s) => ClientFull(t)
          /\ t.sin = T!Empty /\ ~t.hin
          /\ T!IsShutdown(s.server) => T!IsShutdown(t.server)
          /\ T!IsShutdown(t.server) \/ (t.server = s.server /\ t.send = "open")
          /\ T!IsShutdown(t.client) \/ t.client = s.client
          /\ t.server = "Connecting" => t.tls = "start" /\ t.sout = T!Empty /\ t.sendBuffer = T!Empty /\ ~T!IsShutdown(t.client)
          /\ T!IsShutdown(t.client) \/ t.sendBuffer = T!Empty \/ ClientFull(t)
      BY <2>1, TryReadServerWakes
    <3> HIDE DEF t, x
    <3>3. ~T!IsShutdown(s.client) /\ s.client # "Connecting"
      BY <2>1 DEF T!Writable, T!Alive, T!IsShutdown
    <3>4. BothOpen(t) => BothOpen(s) /\ t.send = "open"
      BY <3>2, <3>3 DEF BothOpen
    <3>5. t.client # "Connecting" /\ (T!Alive(t.client) => ~T!IsShutdown(t.client))
          /\ (T!Alive(t.server) => t.server = s.server) /\ (t.server = "Connecting" => s.server = "Connecting")
      BY <3>2, <3>3 DEF T!Alive, T!IsShutdown
    <3>6. TcpStirred(t, C, TRUE, R, FALSE)
      BY <3>2, <3>4, <3>5 DEF TcpStirred
    <3>7. Onward(s, t)
      BY <3>2 DEF Onward
    <3> QED BY <3>1, <3>2, <3>4, <3>5, <3>6, <3>7
  <2>2. CASE ~T!Writable(s)
    <3> DEFINE t == [s EXCEPT !.readServer = TRUE]
    <3>1. x = t
      BY <2>2
    <3>2. Faithful(t, T!Empty)
      BY TcpFlags
    <3>3. /\ t.client = s.client /\ t.sendBuffer = s.sendBuffer /\ t.readClient = s.readClient
          /\ t.readServer /\ t.cout = s.cout /\ t.cblk = s.cblk /\ t.cin = s.cin /\ t.cend = s.cend
          /\ t.sin = s.sin /\ t.send = s.send /\ t.hin = s.hin /\ t.scon = s.scon
          /\ t.unflushed = s.unflushed
      BY <1>f DEF T!ConnState
    <3>4. /\ t.server = s.server /\ t.tls = s.tls /\ t.session = s.session /\ t.sout = s.sout /\ t.sblk = s.sblk
          /\ t.writable = s.writable
      BY <1>f DEF T!ConnState
    <3> HIDE DEF t, x
    <3>5. /\ ServerFull(t) <=> ServerFull(s)
          /\ ClientFull(t) <=> ClientFull(s)
          /\ BothOpen(t) <=> BothOpen(s)
      BY <3>3, <3>4 DEF ServerFull, ClientFull, BothOpen
    <3>6. BothOpen(s) => s.client = "Connecting" \/ (T!Alive(s.client) /\ s.sendBuffer # T!Empty)
      BY <1>f, <2>2 DEF BothOpen, T!Writable, T!Alive, T!IsShutdown, T!Status
    <3>7. TcpStirred(t, C, TRUE, R, FALSE)
      BY <3>3, <3>4, <3>5, <3>6 DEF TcpStirred
    <3>8. Onward(s, t)
      BY <3>3, <3>4 DEF Onward
    <3> QED BY <3>1, <3>2, <3>3, <3>4, <3>5, <3>7, <3>8
  <2> QED BY <2>1, <2>2
<1> HIDE DEF x
<1>3. /\ z.client = x.client /\ z.sendBuffer = x.sendBuffer /\ z.readClient = x.readClient
      /\ z.readServer = x.readServer /\ z.cin = x.cin /\ z.cout = x.cout /\ z.cblk = x.cblk
      /\ z.cend = x.cend /\ z.sin = x.sin /\ z.send = x.send /\ z.hin = x.hin /\ z.scon = x.scon
      /\ z.tls = "start" => x.tls = "start"
      /\ T!IsShutdown(z.server) \/ z.server = x.server
      /\ T!IsShutdown(x.server) => T!IsShutdown(z.server)
      /\ ServerFull(x) => ServerFull(z)
      /\ x.server = "Connecting" => z = x
      /\ x.server # "Connecting" => \/ T!IsShutdown(z.server)
                                    \/ z.writable /\ ~T!WantsWrite(z)
                                    \/ ServerFull(z)
  <2>1. Fit(x)
    BY <1>2 DEF Faithful
  <2> QED BY <1>1, <2>1, DoSendWakes
<1>4. BothOpen(z) => BothOpen(x)
  BY <1>3 DEF BothOpen
<1>5. /\ T!Alive(z.server) => ~T!IsShutdown(z.server) /\ z.server = x.server /\ x.server # "Connecting"
      /\ z.server = "Connecting" => x.server = "Connecting"
  BY <1>3 DEF T!Alive, T!IsShutdown
<1>6. ClientFull(x) => ClientFull(z)
  BY <1>3 DEF ClientFull
<1>7. z.server = "Connecting" => V \/ z.scon = "connecting"
  BY <1>2, <1>3, <1>5 DEF TcpStirred, Onward
<1>8. BothOpen(z) /\ z.readClient => V \/ ServerFull(z) \/ z.scon = "connecting"
  BY <1>2, <1>3, <1>4 DEF TcpStirred, Onward
<1>9. TcpStirred(z, C, V, R, FALSE)
  BY <1>2, <1>3, <1>4, <1>5, <1>6, <1>7, <1>8 DEF TcpStirred
<1>10. Onward(s, z)
  BY <1>2, <1>3 DEF Onward
<1> QED BY <1>9, <1>10

\* The server's socket is reported writable.
LEMMA ServerWriteReadyWakes ==
    ASSUME NEW s, Faithful(s, T!Empty), TcpPeersOK,
           NEW C, NEW V, NEW R, NEW S, TcpStirred(s, C, V, R, S),
           T!IsShutdown(s.server) \/ s.scon = "up" \/ s.send = "rst",
           NEW z, z = T!ServerWriteReady(s)
    PROVE  TcpStirred(z, C, FALSE, R, S) /\ Onward(s, z)
<1> DEFINE g == T!Established(s.server)
           e == [s EXCEPT !.server = g]
           t == T!DoSend(e)
<1>f. s \in T!ConnState /\ s.server \in T!Status
  BY TFields DEF Faithful, Fit
<1>1. g # "Connecting" /\ (T!IsShutdown(g) <=> T!IsShutdown(s.server)) /\ (g = s.server \/ s.server = "Connecting")
  BY <1>f DEF T!Established, T!IsShutdown
<1>2. Faithful(e, T!Empty)
  BY TcpFlags
<1> HIDE DEF g
<1>3. /\ e.client = s.client /\ e.readClient = s.readClient /\ e.readServer = s.readServer
      /\ e.cin = s.cin /\ e.cend = s.cend /\ e.send = s.send /\ e.scon = s.scon
      /\ e.sendBuffer = s.sendBuffer /\ e.cout = s.cout /\ e.cblk = s.cblk
      /\ e.sin = s.sin /\ e.hin = s.hin /\ e.tls = s.tls
  BY <1>f DEF T!ConnState
<1>4. e.server = g
  BY <1>f DEF T!ConnState
<1>5. z = T!TrySendServer(e)
  BY DEF T!ServerWriteReady, g
<1> HIDE DEF e
<1>6. Faithful(t, T!Empty)
  BY <1>2, TcpDoSend
<1>7. /\ t.client = e.client /\ t.sendBuffer = e.sendBuffer /\ t.readClient = e.readClient
      /\ t.readServer = e.readServer /\ t.cin = e.cin /\ t.cout = e.cout /\ t.cblk = e.cblk
      /\ t.cend = e.cend /\ t.sin = e.sin /\ t.send = e.send /\ t.hin = e.hin /\ t.scon = e.scon
      /\ t.tls = "start" => e.tls = "start"
      /\ T!IsShutdown(t.server) \/ t.server = e.server
      /\ T!IsShutdown(e.server) => T!IsShutdown(t.server)
      /\ e.server # "Connecting" => \/ T!IsShutdown(t.server)
                                    \/ t.writable /\ ~T!WantsWrite(t)
                                    \/ ServerFull(t)
      /\ e.server # "Connecting" /\ T!WantsWrite(e) /\ e.send = "rst" => T!IsShutdown(t.server)
  <2>1. Fit(e)
    BY <1>2 DEF Faithful
  <2> QED BY <2>1, DoSendWakes
<1>8. z = IF T!ServerWritable(t) /\ t.readClient THEN T!TryReadClient(t) ELSE t
  BY <1>5 DEF T!TrySendServer
<1> HIDE DEF t
<1>9. /\ t.server # "Connecting" /\ (BothOpen(t) => BothOpen(s))
      /\ (T!Alive(t.server) => ~T!IsShutdown(t.server))
  BY <1>1, <1>3, <1>4, <1>7 DEF T!Alive, T!IsShutdown, BothOpen
<1>10. T!Alive(t.server) => t.scon = "up"
  <2> SUFFICES ASSUME T!Alive(t.server), t.scon # "up" PROVE FALSE
    OBVIOUS
  <2>1. ~T!IsShutdown(t.server) /\ ~T!IsShutdown(s.server) /\ s.scon # "up" /\ s.send = "rst"
    BY <1>1, <1>3, <1>4, <1>7, <1>9
  <2>2. s.server = "Connecting"
    BY <1>f, <2>1 DEF TcpStirred, T!Alive, T!IsShutdown, T!Status
  <2>3. s.tls = "start"
    BY <2>2 DEF TcpStirred
  <2> QED BY <1>1, <1>3, <1>4, <1>7, <2>1, <2>3 DEF T!WantsWrite
<1>11. /\ T!IsShutdown(t.server) \/ (t.writable /\ ~T!WantsWrite(t)) \/ ServerFull(t)
       /\ ClientFull(s) => ClientFull(t)
  BY <1>1, <1>3, <1>4, <1>7 DEF ClientFull
<1>12. Onward(s, t)
  BY <1>1, <1>3, <1>4, <1>7 DEF Onward
<1>13. TcpStirred(t, C, TRUE, R, S)
  BY <1>3, <1>7, <1>9, <1>10, <1>11 DEF TcpStirred
<1>14. CASE T!ServerWritable(t) /\ t.readClient
  <2> DEFINE K == TRUE
  <2>1. z = T!TryReadClient(t) /\ T!Alive(t.server) /\ TcpStirred(t, C, K, R, S)
    BY <1>8, <1>13, <1>14 DEF T!ServerWritable
  <2> HIDE DEF K
  <2>2. TcpStirred(z, C, FALSE, FALSE, S) /\ Onward(t, z)
    BY <1>6, <2>1, TryReadClientWakes
  <2>3. TcpStirred(z, C, FALSE, R, S)
    BY <2>2 DEF TcpStirred
  <2>4. Onward(s, z)
    BY <1>12, <2>2 DEF Onward
  <2> QED BY <2>3, <2>4
<1>15. CASE ~(T!ServerWritable(t) /\ t.readClient)
  <2>1. z = t
    BY <1>8, <1>15
  <2>2. t.server \in T!Status
    BY <1>6, TFields DEF Faithful
  <2>3. BothOpen(t) /\ t.readClient => ServerFull(t)
    BY <1>9, <1>11, <1>15, <2>2 DEF BothOpen, T!ServerWritable, T!Alive, T!IsShutdown, T!Status
  <2>4. TcpStirred(t, C, FALSE, R, S)
    BY <1>9, <1>11, <1>13, <2>3 DEF TcpStirred
  <2> QED BY <1>12, <2>1, <2>4
<1> QED BY <1>14, <1>15

\* ready, for an event of the client and for one of the server.
LEMMA ReadyClientWakes ==
    ASSUME NEW s, Faithful(s, T!Empty), TcpPeersOK, NEW b, NEW C, NEW V, NEW R, NEW S,
           TcpStirred(s, C \/ "w" \in b, V, R \/ "r" \in b, S),
           NEW z, z = T!ReadyClient(s, b)
    PROVE  TcpStirred(z, C, V, R, S) /\ Onward(s, z)
<1> DEFINE K == C \/ "w" \in b
           L == R \/ "r" \in b
           t == IF "r" \in b THEN T!ClientReadable(s) ELSE s
           u == IF "w" \in b THEN T!ClientWriteReady(t) ELSE t
<1>0. TcpStirred(s, K, V, L, S)
  OBVIOUS
<1>1. z = T!Settle(u)
  BY DEF T!ReadyClient
<1>2. Faithful(t, T!Empty) /\ TcpStirred(t, K, V, R, S) /\ Onward(s, t)
  <2>1. CASE "r" \in b
    <3> DEFINE x == T!ClientReadable(s)
    <3>1. t = x
      BY <2>1
    <3>2. Faithful(x, T!Empty)
      <4>1. T!ServerWritable(s) => T!Alive(s.server)
        BY DEF T!ServerWritable
      <4>2. T!ServerWritable(s) => Faithful(T!TryReadClient(s), T!Empty)
        BY <4>1, TcpTryReadClient
      <4>3. Faithful([s EXCEPT !.readClient = TRUE], T!Empty)
        BY TcpFlags
      <4> QED BY <4>2, <4>3 DEF T!ClientReadable
    <3>3. TcpStirred(x, K, V, FALSE, S) /\ Onward(s, x)
      <4> HIDE DEF K, L
      <4> QED BY <1>0, ClientReadableWakes
    <3> HIDE DEF x, t, K
    <3>4. TcpStirred(x, K, V, R, S)
      BY <3>3 DEF TcpStirred
    <3> QED BY <3>1, <3>2, <3>3, <3>4
  <2>2. CASE "r" \notin b
    <3>1. t = s
      BY <2>2
    <3> HIDE DEF t, K
    <3>2. TcpStirred(s, K, V, R, S)
      BY <1>0, <2>2 DEF TcpStirred
    <3> QED BY <3>1, <3>2 DEF Onward
  <2> QED BY <2>1, <2>2
<1> HIDE DEF t
<1>3. Faithful(u, T!Empty) /\ TcpStirred(u, C, V, R, S) /\ Onward(t, u)
  <2>1. CASE "w" \in b
    <3> DEFINE x == T!ClientWriteReady(t)
    <3>1. u = x
      BY <2>1
    <3>2. Faithful(x, T!Empty)
      <4> DEFINE e == [t EXCEPT !.client = T!Established(@)]
      <4>1. Faithful(e, T!Empty)
        BY <1>2, TcpFlags
      <4>2. x = T!TrySendClient(e)
        BY DEF T!ClientWriteReady
      <4> HIDE DEF e
      <4> QED BY <4>1, <4>2, TcpTrySendClient
    <3>3. TcpStirred(x, FALSE, V, R, S) /\ Onward(t, x)
      <4> HIDE DEF K, L
      <4> QED BY <1>2, ClientWriteReadyWakes
    <3> HIDE DEF x, u
    <3>4. TcpStirred(x, C, V, R, S)
      BY <3>3 DEF TcpStirred
    <3> QED BY <3>1, <3>2, <3>3, <3>4
  <2>2. CASE "w" \notin b
    <3>1. u = t
      BY <2>2
    <3>2. TcpStirred(t, C, V, R, S)
      BY <1>2, <2>2 DEF TcpStirred
    <3> HIDE DEF u
    <3> QED BY <1>2, <3>1, <3>2 DEF Onward
  <2> QED BY <2>1, <2>2
<1> HIDE DEF u
<1>4. TcpStirred(z, C, V, R, S) /\ Onward(u, z)
  BY <1>1, <1>3, SettleWakes
<1> QED BY <1>2, <1>3, <1>4 DEF Onward

LEMMA ReadyServerWakes ==
    ASSUME NEW s, Faithful(s, T!Empty), TcpPeersOK, NEW b, NEW C, NEW V, NEW R, NEW S, Reported(s, b),
           TcpStirred(s, C, V \/ "w" \in b, R, S \/ "r" \in b),
           NEW z, z = T!ReadyServer(s, b)
    PROVE  TcpStirred(z, C, V, R, S)
<1> DEFINE K == V \/ "w" \in b
           L == S \/ "r" \in b
           t == IF "r" \in b THEN T!ServerReadable(s) ELSE s
           u == IF "w" \in b THEN T!ServerWriteReady(t) ELSE t
<1>0. TcpStirred(s, C, K, R, L)
  OBVIOUS
<1>1. z = T!Settle(u)
  BY DEF T!ReadyServer
<1>2. Faithful(t, T!Empty) /\ TcpStirred(t, C, K, R, S) /\ Onward(s, t)
  <2>1. CASE "r" \in b
    <3> DEFINE x == T!ServerReadable(s)
    <3>1. t = x
      BY <2>1
    <3>2. Faithful(x, T!Empty)
      <4> DEFINE r == IF T!Writable(s) THEN T!TryReadServer(s) ELSE [s EXCEPT !.readServer = TRUE]
      <4>1. T!Writable(s) => T!Alive(s.client)
        BY DEF T!Writable
      <4>2. T!Writable(s) => Faithful(T!TryReadServer(s), T!Empty)
        BY <4>1, TcpTryReadServer
      <4>3. Faithful([s EXCEPT !.readServer = TRUE], T!Empty)
        BY TcpFlags
      <4>4. Faithful(r, T!Empty)
        BY <4>2, <4>3
      <4>5. x = T!DoSend(r)
        BY DEF T!ServerReadable
      <4> HIDE DEF r
      <4> QED BY <4>4, <4>5, TcpDoSend
    <3>3. TcpStirred(x, C, K, R, FALSE) /\ Onward(s, x)
      <4> HIDE DEF K, L
      <4> QED BY <1>0, ServerReadableWakes
    <3> HIDE DEF x, t, K
    <3>4. TcpStirred(x, C, K, R, S)
      BY <3>3 DEF TcpStirred
    <3> QED BY <3>1, <3>2, <3>3, <3>4
  <2>2. CASE "r" \notin b
    <3>1. t = s
      BY <2>2
    <3> HIDE DEF t, K
    <3>2. TcpStirred(s, C, K, R, S)
      BY <1>0, <2>2 DEF TcpStirred
    <3> QED BY <3>1, <3>2 DEF Onward
  <2> QED BY <2>1, <2>2
<1> HIDE DEF t
<1>3. Faithful(u, T!Empty) /\ TcpStirred(u, C, V, R, S)
  <2>1. CASE "w" \in b
    <3> DEFINE x == T!ServerWriteReady(t)
    <3>1. u = x
      BY <2>1
    <3>2. Faithful(x, T!Empty)
      <4> DEFINE e == [t EXCEPT !.server = T!Established(@)]
      <4>1. Faithful(e, T!Empty)
        BY <1>2, TcpFlags
      <4>2. x = T!TrySendServer(e)
        BY DEF T!ServerWriteReady
      <4> HIDE DEF e
      <4> QED BY <4>1, <4>2, TcpTrySendServer
    <3>3. T!IsShutdown(t.server) \/ t.scon = "up" \/ t.send = "rst"
      BY <1>2, <2>1 DEF Reported, Onward
    <3>4. TcpStirred(x, C, FALSE, R, S)
      <4> HIDE DEF K, L
      <4> QED BY <1>2, <3>3, ServerWriteReadyWakes
    <3> HIDE DEF x, u
    <3>5. TcpStirred(x, C, V, R, S)
      BY <3>4 DEF TcpStirred
    <3> QED BY <3>1, <3>2, <3>5
  <2>2. CASE "w" \notin b
    <3>1. u = t
      BY <2>2
    <3>2. TcpStirred(t, C, V, R, S)
      BY <1>2, <2>2 DEF TcpStirred
    <3> HIDE DEF u
    <3> QED BY <1>2, <3>1, <3>2
  <2> QED BY <2>1, <2>2
<1> HIDE DEF u
<1> QED BY <1>1, <1>3, SettleWakes

LEMMA TcpAwakeThen ==
    ASSUME tcpPolling' => \A x \in T!Source : tcpBatch'[x] = {},
           gone' \/ (/\ TcpStirred(conn', "client" \in tcpEv' \/ "w" \in tcpBatch'["client"],
                                          "server" \in tcpEv' \/ "w" \in tcpBatch'["server"],
                                          "client" \in tcpEv' \/ "r" \in tcpBatch'["client"],
                                          "server" \in tcpEv' \/ "r" \in tcpBatch'["server"])
                     /\ Reported(conn', tcpBatch'["server"]))
    PROVE  TcpAwake'
<1>1. ~gone' => /\ TcpStirred(conn, TcpWake("client", "w"), TcpWake("server", "w"),
                                    TcpWake("client", "r"), TcpWake("server", "r"))'
                /\ Reported(conn, tcpBatch["server"])'
  BY DEF TcpWake, TcpStirred, Reported, ServerFull, ClientFull, BothOpen, T!WantsWrite
<1> QED BY <1>1 DEF TcpAwake

\* A step of a peer or of the kernel, which raises edges.
LEMMA TcpMoved ==
    ASSUME TcpAwake, NEW t, conn' = t, UNCHANGED <<tcpBatch, tcpPolling, gone>>, tcpEv \subseteq tcpEv',
           ~gone => /\ Reported(conn, tcpBatch["server"]) => Reported(t, tcpBatch["server"])
                    /\ \A C, V, R, S \in BOOLEAN : TcpStirred(conn, C, V, R, S) =>
                          TcpStirred(t, C \/ "client" \in tcpEv', V \/ "server" \in tcpEv',
                                        R \/ "client" \in tcpEv', S \/ "server" \in tcpEv')
    PROVE  TcpAwake'
<1>1. tcpPolling' => \A x \in T!Source : tcpBatch'[x] = {}
  BY DEF TcpAwake
<1>2. CASE gone
  BY <1>1, <1>2, TcpAwakeThen
<1>3. CASE ~gone
  <2> DEFINE C == "client" \in tcpEv \/ "w" \in tcpBatch["client"]
             V == "server" \in tcpEv \/ "w" \in tcpBatch["server"]
             R == "client" \in tcpEv \/ "r" \in tcpBatch["client"]
             S == "server" \in tcpEv \/ "r" \in tcpBatch["server"]
             C2 == "client" \in tcpEv' \/ "w" \in tcpBatch'["client"]
             V2 == "server" \in tcpEv' \/ "w" \in tcpBatch'["server"]
             R2 == "client" \in tcpEv' \/ "r" \in tcpBatch'["client"]
             S2 == "server" \in tcpEv' \/ "r" \in tcpBatch'["server"]
             p == "client" \in tcpEv'
             q == "server" \in tcpEv'
  <2>1. TcpStirred(conn, C, V, R, S) /\ Reported(conn, tcpBatch["server"])
    BY <1>3 DEF TcpAwake, TcpWake
  <2>2. C \in BOOLEAN /\ V \in BOOLEAN /\ R \in BOOLEAN /\ S \in BOOLEAN
    OBVIOUS
  <2>3. (C \/ p => C2) /\ (V \/ q => V2) /\ (R \/ p => R2) /\ (S \/ q => S2)
    OBVIOUS
  <2>4. \A A, B, D, E \in BOOLEAN : TcpStirred(conn, A, B, D, E) => TcpStirred(t, A \/ p, B \/ q, D \/ p, E \/ q)
    BY <1>3
  <2>5. Reported(t, tcpBatch["server"])
    BY <1>3, <2>1
  <2> HIDE DEF C, V, R, S, p, q
  <2>6. TcpStirred(t, C \/ p, V \/ q, R \/ p, S \/ q)
    BY <2>1, <2>2, <2>4
  <2> HIDE DEF C2, V2, R2, S2
  <2>7. TcpStirred(t, C2, V2, R2, S2)
    BY <2>3, <2>6 DEF TcpStirred
  <2>8. TcpStirred(conn', C2, V2, R2, S2) /\ Reported(conn', tcpBatch'["server"])
    BY <2>5, <2>7
  <2> QED BY <1>1, <2>8, TcpAwakeThen DEF C2, V2, R2, S2
<1> QED BY <1>2, <1>3

\* The edges of a step of the client or of the server.
LEMMA TcpRaised ==
    ASSUME NEW x, T!Raise(x), ~gone
    PROVE  tcpEv \subseteq tcpEv' /\ (x \in tcpEv' \/ conn[x] = "Deregistered")
BY DEF T!Raise, T!Registered

LEMMA TcpClientMoves ==
    ASSUME TcpInv, TcpAwake, T!ClientSend \/ T!ClientClose \/ T!ClientRecv
    PROVE  TcpAwake'
<1>f. conn \in T!ConnState /\ conn.client \in T!Status /\ conn.cout \in Seq(Nat)
  BY TFields DEF TcpInv, Faithful, Fit
<1>1. CASE T!ClientSend
  <2> DEFINE e == Append(conn.cin, upSent + 1)
             t == [conn EXCEPT !.cin = e]
             p == "client" \in tcpEv'
             q == "server" \in tcpEv'
  <2>1. /\ conn' = t /\ ~gone /\ ~T!IsShutdown(conn.client) /\ T!Raise("client")
        /\ UNCHANGED <<tcpBatch, tcpPolling, gone>>
    BY <1>1 DEF T!ClientSend, T!sys
  <2>2. tcpEv \subseteq tcpEv' /\ p
    BY <2>1, TcpRaised DEF T!IsShutdown
  <2> HIDE DEF e
  <2>3. /\ t.client = conn.client /\ t.sendBuffer = conn.sendBuffer /\ t.readClient = conn.readClient
        /\ t.readServer = conn.readServer /\ t.cout = conn.cout /\ t.cblk = conn.cblk
        /\ t.sin = conn.sin /\ t.send = conn.send /\ t.hin = conn.hin /\ t.scon = conn.scon
        /\ t.unflushed = conn.unflushed
    BY <1>f DEF T!ConnState
  <2>4. /\ t.server = conn.server /\ t.tls = conn.tls /\ t.session = conn.session /\ t.sout = conn.sout
        /\ t.sblk = conn.sblk /\ t.writable = conn.writable
    BY <1>f DEF T!ConnState
  <2> HIDE DEF t
  <2>5. /\ T!WantsWrite(t) <=> T!WantsWrite(conn)
        /\ ServerFull(t) <=> ServerFull(conn)
        /\ ClientFull(t) <=> ClientFull(conn)
        /\ BothOpen(t) <=> BothOpen(conn)
    BY <2>3, <2>4 DEF T!WantsWrite, ServerFull, ClientFull, BothOpen
  <2> HIDE DEF p, q
  <2>6. \A C, V, R, S \in BOOLEAN : TcpStirred(conn, C, V, R, S) => TcpStirred(t, C \/ p, V \/ q, R \/ p, S \/ q)
    BY <2>2, <2>3, <2>4, <2>5 DEF TcpStirred
  <2>7. Reported(conn, tcpBatch["server"]) => Reported(t, tcpBatch["server"])
    BY <2>3, <2>4 DEF Reported
  <2> QED BY <2>1, <2>2, <2>6, <2>7, TcpMoved DEF p, q
<1>2. CASE T!ClientClose
  <2>0. PICK how \in {"fin", "rst"} : conn' = [conn EXCEPT !.cend = how]
    BY <1>2 DEF T!ClientClose
  <2> DEFINE t == [conn EXCEPT !.cend = how]
             p == "client" \in tcpEv'
             q == "server" \in tcpEv'
  <2>1. /\ conn' = t /\ ~gone /\ ~T!IsShutdown(conn.client) /\ T!Raise("client")
        /\ UNCHANGED <<tcpBatch, tcpPolling, gone>>
    BY <1>2, <2>0 DEF T!ClientClose, T!sys
  <2>2. tcpEv \subseteq tcpEv' /\ p
    BY <2>1, TcpRaised DEF T!IsShutdown
  <2>3. /\ t.client = conn.client /\ t.sendBuffer = conn.sendBuffer /\ t.readClient = conn.readClient
        /\ t.readServer = conn.readServer /\ t.cout = conn.cout /\ t.cblk = conn.cblk
        /\ t.sin = conn.sin /\ t.send = conn.send /\ t.hin = conn.hin /\ t.scon = conn.scon
        /\ t.unflushed = conn.unflushed
    BY <1>f DEF T!ConnState
  <2>4. /\ t.server = conn.server /\ t.tls = conn.tls /\ t.session = conn.session /\ t.sout = conn.sout
        /\ t.sblk = conn.sblk /\ t.writable = conn.writable
    BY <1>f DEF T!ConnState
  <2> HIDE DEF t
  <2>5. /\ T!WantsWrite(t) <=> T!WantsWrite(conn)
        /\ ServerFull(t) <=> ServerFull(conn)
        /\ ClientFull(t) <=> ClientFull(conn)
        /\ BothOpen(t) <=> BothOpen(conn)
    BY <2>3, <2>4 DEF T!WantsWrite, ServerFull, ClientFull, BothOpen
  <2> HIDE DEF p, q
  <2>6. \A C, V, R, S \in BOOLEAN : TcpStirred(conn, C, V, R, S) => TcpStirred(t, C \/ p, V \/ q, R \/ p, S \/ q)
    BY <2>2, <2>3, <2>4, <2>5 DEF TcpStirred
  <2>7. Reported(conn, tcpBatch["server"]) => Reported(t, tcpBatch["server"])
    BY <2>3, <2>4 DEF Reported
  <2> QED BY <2>1, <2>2, <2>6, <2>7, TcpMoved DEF p, q
<1>3. CASE T!ClientRecv
  <2> DEFINE e == Tail(conn.cout)
             t == [conn EXCEPT !.cout = e, !.cblk = FALSE]
             p == "client" \in tcpEv'
             q == "server" \in tcpEv'
  <2>1. /\ conn' = t /\ conn.cout # T!Empty
        /\ (IF conn.cblk THEN T!Raise("client") ELSE UNCHANGED tcpEv)
        /\ UNCHANGED <<tcpBatch, tcpPolling, gone>>
    BY <1>3 DEF T!ClientRecv, T!sys
  <2> HIDE DEF e
  <2>2. tcpEv \subseteq tcpEv'
    BY <2>1 DEF T!Raise
  <2>3. /\ t.client = conn.client /\ t.sendBuffer = conn.sendBuffer /\ t.readClient = conn.readClient
        /\ t.readServer = conn.readServer /\ t.cin = conn.cin /\ t.cend = conn.cend
        /\ t.sin = conn.sin /\ t.send = conn.send /\ t.hin = conn.hin /\ t.scon = conn.scon
        /\ t.unflushed = conn.unflushed
    BY <1>f DEF T!ConnState
  <2>4. /\ t.server = conn.server /\ t.tls = conn.tls /\ t.session = conn.session /\ t.sout = conn.sout
        /\ t.sblk = conn.sblk /\ t.writable = conn.writable
    BY <1>f DEF T!ConnState
  <2> HIDE DEF t
  <2>5. /\ T!WantsWrite(t) <=> T!WantsWrite(conn)
        /\ ServerFull(t) <=> ServerFull(conn)
        /\ BothOpen(t) <=> BothOpen(conn)
    BY <2>3, <2>4 DEF T!WantsWrite, ServerFull, BothOpen
  <2>6. ~gone => ~ClientFull(conn) \/ p \/ conn.client = "Deregistered"
    BY <2>1, TcpRaised DEF ClientFull
  <2>7. conn.client = "Deregistered" => ~BothOpen(conn) /\ ~T!Alive(conn.client)
    BY DEF BothOpen, T!Alive, T!IsShutdown
  <2> HIDE DEF p, q
  <2>8. ~gone => \A C, V, R, S \in BOOLEAN : TcpStirred(conn, C, V, R, S) => TcpStirred(t, C \/ p, V \/ q, R \/ p, S \/ q)
    BY <2>1, <2>2, <2>3, <2>4, <2>5, <2>6, <2>7 DEF TcpStirred
  <2>9. Reported(conn, tcpBatch["server"]) => Reported(t, tcpBatch["server"])
    BY <2>3, <2>4 DEF Reported
  <2> QED BY <2>1, <2>2, <2>8, <2>9, TcpMoved DEF p, q
<1> QED BY <1>1, <1>2, <1>3

LEMMA TcpServerMoves ==
    ASSUME TcpInv, TcpAwake,
           T!ServerConnect \/ T!ServerHello \/ T!ServerSend \/ T!ServerClose \/ T!ServerRecv
    PROVE  TcpAwake'
<1>f. conn \in T!ConnState /\ conn.server \in T!Status /\ conn.sout \in Seq(Nat)
  BY TFields DEF TcpInv, Faithful, Fit
<1>d. conn.server = "Deregistered" =>
        ~BothOpen(conn) /\ ~T!Alive(conn.server) /\ conn.server # "Connecting" /\ T!IsShutdown(conn.server)
  BY DEF BothOpen, T!Alive, T!IsShutdown
<1>1. CASE T!ServerConnect
  <2> DEFINE t == conn'
             p == "client" \in tcpEv'
             q == "server" \in tcpEv'
  <2>1. /\ conn' = [conn EXCEPT !.scon = "up"] \/ conn' = [conn EXCEPT !.send = "rst"]
        /\ ~gone /\ T!Raise("server") /\ conn.scon = "connecting"
        /\ UNCHANGED <<tcpBatch, tcpPolling, gone>>
    BY <1>1 DEF T!ServerConnect, T!sys
  <2>2. tcpEv \subseteq tcpEv' /\ (q \/ conn.server = "Deregistered")
    BY <2>1, TcpRaised
  <2>3. /\ t.client = conn.client /\ t.sendBuffer = conn.sendBuffer /\ t.readClient = conn.readClient
        /\ t.readServer = conn.readServer /\ t.cout = conn.cout /\ t.cblk = conn.cblk
        /\ t.cin = conn.cin /\ t.cend = conn.cend
        /\ t.sin = conn.sin /\ t.hin = conn.hin /\ t.unflushed = conn.unflushed
    BY ZenonT(60), <1>f, <2>1 DEF T!ConnState
  <2>4. /\ t.server = conn.server /\ t.tls = conn.tls /\ t.session = conn.session /\ t.sout = conn.sout
        /\ t.sblk = conn.sblk /\ t.writable = conn.writable
    BY ZenonT(60), <1>f, <2>1 DEF T!ConnState
  <2>s. t.scon = "up" \/ (t.scon = conn.scon /\ t.send = "rst")
    BY ZenonT(60), <1>f, <2>1 DEF T!ConnState
  <2>t. conn' = t
    OBVIOUS
  <2> HIDE DEF t
  <2>5. /\ T!WantsWrite(t) <=> T!WantsWrite(conn)
        /\ ServerFull(t) <=> ServerFull(conn)
        /\ ClientFull(t) <=> ClientFull(conn)
        /\ BothOpen(t) <=> BothOpen(conn)
    BY <2>3, <2>4 DEF T!WantsWrite, ServerFull, ClientFull, BothOpen
  <2> HIDE DEF p, q
  <2>6. \A C, V, R, S \in BOOLEAN : TcpStirred(conn, C, V, R, S) => TcpStirred(t, C \/ p, V \/ q, R \/ p, S \/ q)
    BY <1>d, <2>1, <2>2, <2>3, <2>4, <2>5, <2>s DEF TcpStirred
  <2>7. Reported(conn, tcpBatch["server"]) => Reported(t, tcpBatch["server"])
    BY <2>s DEF Reported
  <2> QED BY <2>t, <2>1, <2>2, <2>6, <2>7, TcpMoved DEF p, q
<1>2. CASE T!ServerHello \/ T!ServerSend
  <2> DEFINE e == Append(conn.sin, downSent + 1)
             t == conn'
             p == "client" \in tcpEv'
             q == "server" \in tcpEv'
  <2>1. /\ \/ conn.tls = "sent" /\ conn' = [conn EXCEPT !.hin = TRUE]
           \/ T!Alive(conn.server) /\ conn' = [conn EXCEPT !.sin = e]
        /\ ~gone /\ T!Raise("server")
        /\ UNCHANGED <<tcpBatch, tcpPolling, gone>>
    BY <1>2 DEF T!ServerHello, T!ServerSend, T!sys
  <2>2. tcpEv \subseteq tcpEv' /\ (q \/ conn.server = "Deregistered")
    BY <2>1, TcpRaised
  <2> HIDE DEF e
  <2>3. /\ t.client = conn.client /\ t.sendBuffer = conn.sendBuffer /\ t.readClient = conn.readClient
        /\ t.readServer = conn.readServer /\ t.cout = conn.cout /\ t.cblk = conn.cblk
        /\ t.cin = conn.cin /\ t.cend = conn.cend
        /\ t.send = conn.send /\ t.scon = conn.scon /\ t.unflushed = conn.unflushed
    BY ZenonT(60), <1>f, <2>1 DEF T!ConnState
  <2>4. /\ t.server = conn.server /\ t.tls = conn.tls /\ t.session = conn.session /\ t.sout = conn.sout
        /\ t.sblk = conn.sblk /\ t.writable = conn.writable
    BY ZenonT(60), <1>f, <2>1 DEF T!ConnState
  <2>s. \/ conn.tls = "sent" /\ t.sin = conn.sin
        \/ T!Alive(conn.server) /\ t.hin = conn.hin
    BY ZenonT(60), <1>f, <2>1 DEF T!ConnState
  <2>t. conn' = t
    OBVIOUS
  <2>u. T!Alive(conn.server) => conn.server # "Connecting"
    BY DEF T!Alive
  <2> HIDE DEF t
  <2>5. /\ T!WantsWrite(t) <=> T!WantsWrite(conn)
        /\ ServerFull(t) <=> ServerFull(conn)
        /\ ClientFull(t) <=> ClientFull(conn)
        /\ BothOpen(t) <=> BothOpen(conn)
    BY <2>3, <2>4 DEF T!WantsWrite, ServerFull, ClientFull, BothOpen
  <2> HIDE DEF p, q
  <2>6. \A C, V, R, S \in BOOLEAN : TcpStirred(conn, C, V, R, S) => TcpStirred(t, C \/ p, V \/ q, R \/ p, S \/ q)
    BY <1>d, <2>2, <2>3, <2>4, <2>5, <2>s, <2>u DEF TcpStirred
  <2>7. Reported(conn, tcpBatch["server"]) => Reported(t, tcpBatch["server"])
    BY <2>3, <2>4 DEF Reported
  <2> QED BY <2>t, <2>1, <2>2, <2>6, <2>7, TcpMoved DEF p, q
<1>3. CASE T!ServerClose
  <2>0. PICK how \in {"fin", "rst", "bad"} : conn' = [conn EXCEPT !.send = how]
    BY <1>3 DEF T!ServerClose
  <2> DEFINE t == [conn EXCEPT !.send = how]
             p == "client" \in tcpEv'
             q == "server" \in tcpEv'
  <2>1. /\ conn' = t /\ ~gone /\ ~T!IsShutdown(conn.server) /\ T!Raise("server") /\ conn.scon = "up"
        /\ UNCHANGED <<tcpBatch, tcpPolling, gone>>
    BY <1>3, <2>0 DEF T!ServerClose, T!sys
  <2>2. tcpEv \subseteq tcpEv' /\ q
    BY <2>1, TcpRaised DEF T!IsShutdown
  <2>3. /\ t.client = conn.client /\ t.sendBuffer = conn.sendBuffer /\ t.readClient = conn.readClient
        /\ t.readServer = conn.readServer /\ t.cout = conn.cout /\ t.cblk = conn.cblk
        /\ t.cin = conn.cin /\ t.cend = conn.cend
        /\ t.sin = conn.sin /\ t.hin = conn.hin /\ t.scon = conn.scon /\ t.unflushed = conn.unflushed
    BY <1>f DEF T!ConnState
  <2>4. /\ t.server = conn.server /\ t.tls = conn.tls /\ t.session = conn.session /\ t.sout = conn.sout
        /\ t.sblk = conn.sblk /\ t.writable = conn.writable
    BY <1>f DEF T!ConnState
  <2> HIDE DEF t
  <2>5. /\ T!WantsWrite(t) <=> T!WantsWrite(conn)
        /\ ServerFull(t) <=> ServerFull(conn)
        /\ ClientFull(t) <=> ClientFull(conn)
        /\ BothOpen(t) <=> BothOpen(conn)
    BY <2>3, <2>4 DEF T!WantsWrite, ServerFull, ClientFull, BothOpen
  <2> HIDE DEF p, q
  <2>6. \A C, V, R, S \in BOOLEAN : TcpStirred(conn, C, V, R, S) => TcpStirred(t, C \/ p, V \/ q, R \/ p, S \/ q)
    BY <2>2, <2>3, <2>4, <2>5 DEF TcpStirred
  <2>7. Reported(conn, tcpBatch["server"]) => Reported(t, tcpBatch["server"])
    BY <2>1, <2>3 DEF Reported
  <2> QED BY <2>1, <2>2, <2>6, <2>7, TcpMoved DEF p, q
<1>4. CASE T!ServerRecv
  <2> DEFINE e == Tail(conn.sout)
             t == [conn EXCEPT !.sout = e, !.sblk = FALSE]
             p == "client" \in tcpEv'
             q == "server" \in tcpEv'
  <2>1. /\ conn' = t /\ conn.sout # T!Empty
        /\ (IF conn.sblk THEN T!Raise("server") ELSE UNCHANGED tcpEv)
        /\ UNCHANGED <<tcpBatch, tcpPolling, gone>>
    BY <1>4 DEF T!ServerRecv, T!sys
  <2> HIDE DEF e
  <2>2. tcpEv \subseteq tcpEv'
    BY <2>1 DEF T!Raise
  <2>3. /\ t.client = conn.client /\ t.sendBuffer = conn.sendBuffer /\ t.readClient = conn.readClient
        /\ t.readServer = conn.readServer /\ t.cin = conn.cin /\ t.cend = conn.cend
        /\ t.sin = conn.sin /\ t.send = conn.send /\ t.hin = conn.hin /\ t.scon = conn.scon
        /\ t.unflushed = conn.unflushed
    BY <1>f DEF T!ConnState
  <2>4. /\ t.server = conn.server /\ t.tls = conn.tls /\ t.session = conn.session
        /\ t.cout = conn.cout /\ t.cblk = conn.cblk /\ t.writable = conn.writable
    BY <1>f DEF T!ConnState
  <2> HIDE DEF t
  <2>5. /\ T!WantsWrite(t) <=> T!WantsWrite(conn)
        /\ ClientFull(t) <=> ClientFull(conn)
        /\ BothOpen(t) <=> BothOpen(conn)
    BY <2>3, <2>4 DEF T!WantsWrite, ClientFull, BothOpen
  <2>6. ~gone => ~ServerFull(conn) \/ q \/ conn.server = "Deregistered"
    BY <2>1, TcpRaised DEF ServerFull
  <2> HIDE DEF p, q
  <2>8. ~gone => \A C, V, R, S \in BOOLEAN : TcpStirred(conn, C, V, R, S) => TcpStirred(t, C \/ p, V \/ q, R \/ p, S \/ q)
    BY <1>d, <2>1, <2>2, <2>3, <2>4, <2>5, <2>6 DEF TcpStirred
  <2>9. Reported(conn, tcpBatch["server"]) => Reported(t, tcpBatch["server"])
    BY <2>3, <2>4 DEF Reported
  <2> QED BY <2>1, <2>2, <2>8, <2>9, TcpMoved DEF p, q
<1> QED BY <1>1, <1>2, <1>3, <1>4

\* The poll reports every source with an edge: what it does not report readable has
\* been read, what it does not report writable is full.
LEMMA TcpFetchWakes ==
    ASSUME TcpInv, TcpAwake, T!Fetch
    PROVE  TcpAwake'
<1> DEFINE s == conn
           k == s.cblk \/ ("client" \in tcpEv /\ Len(s.cout) = SockCap)
           l == s.sblk \/ ("server" \in tcpEv /\ Len(s.sout) = SockCap)
           t == [s EXCEPT !.cblk = k, !.sblk = l]
           A == T!Flags("client")
           B == T!Flags("server")
           bc == tcpBatch'["client"]
           bs == tcpBatch'["server"]
<1>1. /\ conn' = t /\ tcpEv' = {} /\ tcpPolling' = FALSE /\ gone' = gone /\ tcpPolling
      /\ bc = (IF "client" \in tcpEv THEN A ELSE {}) /\ bs = (IF "server" \in tcpEv THEN B ELSE {})
  BY DEF T!Fetch, T!Source
<1>2. CASE gone
  BY <1>1, <1>2, TcpAwakeThen
<1>3. CASE ~gone
  <2> DEFINE p == "client" \in tcpEv
             q == "server" \in tcpEv
             C == "client" \in tcpEv' \/ "w" \in bc
             V == "server" \in tcpEv' \/ "w" \in bs
             R == "client" \in tcpEv' \/ "r" \in bc
             S == "server" \in tcpEv' \/ "r" \in bs
  <2>1. TcpStirred(s, p, q, p, q)
    <3>1. tcpBatch["client"] = {} /\ tcpBatch["server"] = {}
      BY <1>1 DEF TcpAwake, T!Source
    <3>2. TcpStirred(s, TcpWake("client", "w"), TcpWake("server", "w"), TcpWake("client", "r"), TcpWake("server", "r"))
      BY <1>3 DEF TcpAwake
    <3>3. /\ TcpWake("client", "w") <=> p
          /\ TcpWake("client", "r") <=> p
          /\ TcpWake("server", "w") <=> q
          /\ TcpWake("server", "r") <=> q
      BY <3>1 DEF TcpWake
    <3> HIDE DEF s, p, q
    <3> QED BY <3>2, <3>3 DEF TcpStirred
  <2>f. /\ s \in T!ConnState /\ s.server \in T!Status /\ Len(s.cout) \in Nat /\ Len(s.sout) \in Nat
        /\ Len(s.cout) <= SockCap /\ Len(s.sout) <= SockCap /\ SockCap \in Nat /\ SockCap # 0
    <3>1. Fit(s)
      BY DEF TcpInv, Faithful
    <3> QED BY <3>1, TFields, LenProperties, ConstAssumption DEF Fit
  <2>2. p => /\ "r" \in A \/ (s.cin = T!Empty /\ s.cend = "open")
             /\ "w" \in A \/ (Len(s.cout) = SockCap)
    <3>1. "r" \in A \/ (s.cin = T!Empty /\ s.cend = "open")
      BY DEF T!Flags
    <3>2. "w" \in A \/ ~(Len(s.cout) < SockCap)
      BY DEF T!Flags
    <3> HIDE DEF A, s
    <3> QED BY <2>f, <3>1, <3>2
  <2>3. q => /\ "r" \in B \/ (s.sin = T!Empty /\ ~s.hin /\ s.send = "open")
             /\ "w" \in B \/ s.scon # "up" \/ (Len(s.sout) = SockCap)
             /\ "w" \in B => s.scon = "up" \/ s.send = "rst"
    <3>1. "r" \in B \/ (s.sin = T!Empty /\ ~s.hin /\ s.send = "open")
      BY DEF T!Flags
    <3>2. "w" \in B \/ ~(s.scon = "up" /\ Len(s.sout) < SockCap)
      BY DEF T!Flags
    <3>3. "w" \in B => s.scon = "up" \/ s.send = "rst"
      BY DEF T!Flags
    <3> HIDE DEF B, s
    <3> QED BY <2>f, <3>1, <3>2, <3>3
  <2>4. (k <=> (s.cblk \/ (p /\ Len(s.cout) = SockCap))) /\ (l <=> (s.sblk \/ (q /\ Len(s.sout) = SockCap)))
    OBVIOUS
  <2>5. /\ C <=> (p /\ "w" \in A)
        /\ R <=> (p /\ "r" \in A)
        /\ V <=> (q /\ "w" \in B)
        /\ S <=> (q /\ "r" \in B)
        /\ bs = IF q THEN B ELSE {}
    BY <1>1
  <2> HIDE DEF s, k, l, A, B, bc, bs, p, q
  <2>6. /\ t.client = s.client /\ t.sendBuffer = s.sendBuffer /\ t.readClient = s.readClient
        /\ t.readServer = s.readServer /\ t.cout = s.cout /\ t.cblk = k
        /\ t.cin = s.cin /\ t.cend = s.cend
        /\ t.sin = s.sin /\ t.send = s.send /\ t.hin = s.hin /\ t.scon = s.scon
    BY <2>f DEF T!ConnState
  <2>7. /\ t.server = s.server /\ t.tls = s.tls /\ t.session = s.session /\ t.sout = s.sout
        /\ t.sblk = l /\ t.writable = s.writable /\ t.unflushed = s.unflushed
    BY <2>f DEF T!ConnState
  <2> HIDE DEF t, C, V, R, S
  <2>8. /\ T!WantsWrite(t) <=> T!WantsWrite(s)
        /\ ServerFull(s) => ServerFull(t)
        /\ q /\ Len(s.sout) = SockCap => ServerFull(t)
        /\ ClientFull(s) => ClientFull(t)
        /\ p /\ Len(s.cout) = SockCap => ClientFull(t)
        /\ BothOpen(t) <=> BothOpen(s)
    BY <2>4, <2>6, <2>7 DEF T!WantsWrite, ServerFull, ClientFull, BothOpen
  <2>9. s.cout = T!Empty => Len(s.cout) # SockCap
    BY <2>f, TEmpty
  <2>10. s.sout = T!Empty => Len(s.sout) # SockCap
    BY <2>f, TEmpty
  <2>11. s.scon \in {"connecting", "up"}
    BY <2>f DEF T!ConnState
  <2>12. TcpStirred(t, C, V, R, S)
    BY <2>1, <2>2, <2>3, <2>5, <2>6, <2>7, <2>8, <2>9, <2>10, <2>11 DEF TcpStirred
  <2>13. Reported(t, bs)
    BY <2>3, <2>5, <2>6, <2>7 DEF Reported
  <2>14. TcpStirred(conn', C, V, R, S) /\ Reported(conn', bs)
    BY <1>1, <2>12, <2>13 DEF t, s
  <2> QED BY <1>1, <2>14, TcpAwakeThen DEF C, V, R, S, bc, bs
<1> QED BY <1>2, <1>3

\* After ready, an endpoint that has left the poll has no edge, and needs none.
LEMMA TcpAfterReady ==
    ASSUME NEW z, NEW e, NEW C, NEW V, NEW R, NEW S,
           TcpStirred(z, ("client" \in e) \/ C, ("server" \in e) \/ V, ("client" \in e) \/ R, ("server" \in e) \/ S),
           NEW f, f = {y \in e : z[y] # "Deregistered"}
    PROVE  TcpStirred(z, ("client" \in f) \/ C, ("server" \in f) \/ V, ("client" \in f) \/ R, ("server" \in f) \/ S)
<1> DEFINE p == "client" \in e
           q == "server" \in e
           p2 == "client" \in f
           q2 == "server" \in f
<1>1. TcpStirred(z, p \/ C, q \/ V, p \/ R, q \/ S)
  OBVIOUS
<1>2. (p2 <=> p) \/ z.client = "Deregistered"
  OBVIOUS
<1>3. (q2 <=> q) \/ z.server = "Deregistered"
  OBVIOUS
<1>4. /\ z.client = "Deregistered" => ~BothOpen(z) /\ ~T!Alive(z.client)
      /\ z.server = "Deregistered" => ~BothOpen(z) /\ ~T!Alive(z.server)
  BY DEF BothOpen, T!IsShutdown, T!Alive
<1> HIDE DEF p, q, p2, q2
<1>5. TcpStirred(z, p2 \/ C, q2 \/ V, p2 \/ R, q2 \/ S)
  BY <1>1, <1>2, <1>3, <1>4 DEF TcpStirred
<1> QED BY <1>5 DEF p2, q2

LEMMA TcpHandleClientWakes ==
    ASSUME TcpInv, TcpAwake, T!HandleClient
    PROVE  TcpAwake'
<1> DEFINE b == tcpBatch["client"]
           d == tcpBatch["server"]
           z == T!ReadyClient(conn, b)
           p == "client" \in tcpEv
           V == "server" \in tcpEv \/ "w" \in d
           S == "server" \in tcpEv \/ "r" \in d
<1>1. /\ conn' = z /\ tcpEv' = {y \in tcpEv : z[y] # "Deregistered"} /\ ~tcpPolling
      /\ tcpBatch' = [tcpBatch EXCEPT !["client"] = {}] /\ UNCHANGED <<tcpPolling, gone>>
  BY DEF T!HandleClient, T!AfterReady
<1>2. tcpBatch'["client"] = {} /\ tcpBatch'["server"] = d
  BY <1>1 DEF TcpInv, TcpLoopOK, T!Source
<1>3. CASE gone
  BY <1>1, <1>3, TcpAwakeThen
<1>4. CASE ~gone
  <2>1. TcpStirred(conn, p \/ "w" \in b, V, p \/ "r" \in b, S) /\ Reported(conn, d)
    BY <1>4 DEF TcpAwake, TcpWake
  <2>2. Faithful(conn, T!Empty) /\ TcpPeersOK
    BY DEF TcpInv
  <2>3. TcpStirred(z, p, V, p, S) /\ Onward(conn, z)
    <3>1. z = T!ReadyClient(conn, b)
      OBVIOUS
    <3> HIDE DEF b, d, z, p, V, S
    <3> QED BY <2>1, <2>2, <3>1, ReadyClientWakes
  <2>4. Reported(z, d)
    BY <2>1, <2>3 DEF Reported, Onward
  <2> DEFINE E == "w" \in d
             F == "r" \in d
             N == FALSE
             f == tcpEv'
             e == tcpEv
  <2>5. TcpStirred(z, ("client" \in e) \/ N, ("server" \in e) \/ E, ("client" \in e) \/ N, ("server" \in e) \/ F)
    <3>1. (p \/ N) <=> p
      OBVIOUS
    <3>2. (("client" \in e) \/ N) <=> p
      OBVIOUS
    <3> HIDE DEF z
    <3> QED BY <2>3, <3>2 DEF TcpStirred
  <2>6. f = {y \in e : z[y] # "Deregistered"}
    BY <1>1
  <2> HIDE DEF z, e, f, E, F
  <2>7. TcpStirred(z, ("client" \in f) \/ N, ("server" \in f) \/ E, ("client" \in f) \/ N, ("server" \in f) \/ F)
    <3> HIDE DEF N
    <3> QED BY ZenonT(40), <2>5, <2>6, TcpAfterReady
  <2>8. /\ TcpStirred(conn', "client" \in tcpEv' \/ "w" \in tcpBatch'["client"],
                             "server" \in tcpEv' \/ "w" \in tcpBatch'["server"],
                             "client" \in tcpEv' \/ "r" \in tcpBatch'["client"],
                             "server" \in tcpEv' \/ "r" \in tcpBatch'["server"])
        /\ Reported(conn', tcpBatch'["server"])
    <3>1. conn' = z
      BY <1>1
    <3>2. /\ ("client" \in tcpEv' \/ "w" \in tcpBatch'["client"]) <=> (("client" \in f) \/ N)
          /\ ("client" \in tcpEv' \/ "r" \in tcpBatch'["client"]) <=> (("client" \in f) \/ N)
          /\ ("server" \in tcpEv' \/ "w" \in tcpBatch'["server"]) <=> (("server" \in f) \/ E)
          /\ ("server" \in tcpEv' \/ "r" \in tcpBatch'["server"]) <=> (("server" \in f) \/ F)
      BY <1>2 DEF f, E, F
    <3> QED BY <1>2, <2>4, <2>7, <3>1, <3>2 DEF TcpStirred
  <2>9. ~tcpPolling'
    BY <1>1
  <2> QED BY <2>8, <2>9, TcpAwakeThen
<1> QED BY <1>3, <1>4

LEMMA TcpHandleServerWakes ==
    ASSUME TcpInv, TcpAwake, T!HandleServer
    PROVE  TcpAwake'
<1> DEFINE b == tcpBatch["server"]
           d == tcpBatch["client"]
           z == T!ReadyServer(conn, b)
           q == "server" \in tcpEv
           C == "client" \in tcpEv \/ "w" \in d
           R == "client" \in tcpEv \/ "r" \in d
<1>1. /\ conn' = z /\ tcpEv' = {y \in tcpEv : z[y] # "Deregistered"} /\ ~tcpPolling
      /\ tcpBatch' = [tcpBatch EXCEPT !["server"] = {}] /\ UNCHANGED <<tcpPolling, gone>>
  BY DEF T!HandleServer, T!AfterReady
<1>2. tcpBatch'["server"] = {} /\ tcpBatch'["client"] = d
  BY <1>1 DEF TcpInv, TcpLoopOK, T!Source
<1>3. CASE gone
  BY <1>1, <1>3, TcpAwakeThen
<1>4. CASE ~gone
  <2>1. TcpStirred(conn, C, q \/ "w" \in b, R, q \/ "r" \in b) /\ Reported(conn, b)
    BY <1>4 DEF TcpAwake, TcpWake
  <2>2. Faithful(conn, T!Empty) /\ TcpPeersOK
    BY DEF TcpInv
  <2>3. TcpStirred(z, C, q, R, q)
    <3>1. z = T!ReadyServer(conn, b)
      OBVIOUS
    <3> HIDE DEF b, d, z, q, C, R
    <3> QED BY <2>1, <2>2, <3>1, ReadyServerWakes
  <2> DEFINE E == "w" \in d
             F == "r" \in d
             N == FALSE
             f == tcpEv'
             e == tcpEv
  <2>5. TcpStirred(z, ("client" \in e) \/ E, ("server" \in e) \/ N, ("client" \in e) \/ F, ("server" \in e) \/ N)
    <3>2. (("server" \in e) \/ N) <=> q
      OBVIOUS
    <3> HIDE DEF z
    <3> QED BY <2>3, <3>2 DEF TcpStirred
  <2>6. f = {y \in e : z[y] # "Deregistered"}
    BY <1>1
  <2> HIDE DEF z, e, f, E, F
  <2>7. TcpStirred(z, ("client" \in f) \/ E, ("server" \in f) \/ N, ("client" \in f) \/ F, ("server" \in f) \/ N)
    <3> HIDE DEF N
    <3> QED BY ZenonT(40), <2>5, <2>6, TcpAfterReady
  <2>8. /\ TcpStirred(conn', "client" \in tcpEv' \/ "w" \in tcpBatch'["client"],
                             "server" \in tcpEv' \/ "w" \in tcpBatch'["server"],
                             "client" \in tcpEv' \/ "r" \in tcpBatch'["client"],
                             "server" \in tcpEv' \/ "r" \in tcpBatch'["server"])
        /\ Reported(conn', tcpBatch'["server"])
    <3>1. conn' = z
      BY <1>1
    <3>2. /\ ("client" \in tcpEv' \/ "w" \in tcpBatch'["client"]) <=> (("client" \in f) \/ E)
          /\ ("client" \in tcpEv' \/ "r" \in tcpBatch'["client"]) <=> (("client" \in f) \/ F)
          /\ ("server" \in tcpEv' \/ "w" \in tcpBatch'["server"]) <=> (("server" \in f) \/ N)
          /\ ("server" \in tcpEv' \/ "r" \in tcpBatch'["server"]) <=> (("server" \in f) \/ N)
      BY <1>2 DEF f, E, F
    <3>3. Reported(z, tcpBatch'["server"])
      BY <1>2 DEF Reported
    <3> QED BY <2>7, <3>1, <3>2, <3>3 DEF TcpStirred
  <2>9. ~tcpPolling'
    BY <1>1
  <2> QED BY <2>8, <2>9, TcpAwakeThen
<1> QED BY <1>3, <1>4

\* Every step keeps the events that resume what is left.
LEMMA TcpAwakeInductive == TcpInv /\ TcpAwake /\ [T!Next]_(T!vars) => TcpAwake'
<1> SUFFICES ASSUME TcpInv, TcpAwake, [T!Next]_(T!vars) PROVE TcpAwake'
  OBVIOUS
<1>s. ASSUME UNCHANGED <<conn, tcpEv, tcpBatch>>, gone' \/ gone' = gone,
             tcpPolling' => \A x \in T!Source : tcpBatch[x] = {}
      PROVE  TcpAwake'
  <2>1. ~gone' => ~gone
    BY <1>s
  <2>2. ~gone' => /\ TcpStirred(conn, TcpWake("client", "w"), TcpWake("server", "w"),
                                      TcpWake("client", "r"), TcpWake("server", "r"))
                  /\ Reported(conn, tcpBatch["server"])
    BY <2>1 DEF TcpAwake
  <2> QED BY <1>s, <2>2, TcpAwakeThen DEF TcpWake
<1>4. CASE T!RemoveClosed
  <2>1. /\ \A x \in T!Source : tcpBatch[x] = {}
        /\ gone' = (gone \/ tcpRemoved) /\ tcpEv' = (IF tcpRemoved THEN {} ELSE tcpEv)
        /\ UNCHANGED <<conn, tcpBatch>> /\ tcpRemoved \in BOOLEAN
    BY <1>4 DEF T!RemoveClosed, TcpInv, TcpLoopOK
  <2>2. CASE tcpRemoved
    <3>1. gone'
      BY <2>1, <2>2
    <3> QED BY <2>1, <3>1, TcpAwakeThen
  <2>3. CASE ~tcpRemoved
    <3>1. (gone' \/ gone' = gone) /\ tcpEv' = tcpEv
      BY <2>1, <2>3 DEF TcpInv, TcpLoopOK
    <3> QED BY <1>s, <2>1, <3>1
  <2> QED BY <2>2, <2>3
<1>5. CASE T!CheckTimeout
  <2>1. gone' /\ UNCHANGED <<tcpBatch, tcpPolling>>
    BY <1>5 DEF T!CheckTimeout
  <2> QED BY <2>1, TcpAwakeThen DEF TcpAwake
<1>6. CASE UNCHANGED T!vars
  BY <1>6, <1>s DEF T!vars, TcpAwake
<1> QED
  BY <1>4, <1>5, <1>6, TcpFetchWakes, TcpHandleClientWakes, TcpHandleServerWakes, TcpClientMoves, TcpServerMoves
  DEF T!Next, T!Loop

LEMMA TcpAwakeInitially == T!Init => TcpAwake
<1> SUFFICES ASSUME T!Init PROVE TcpAwake
  OBVIOUS
<1>1. PICK h \in Handover : conn = T!NewConn(h) /\ tcpEv = IF h = "cold" THEN {"client"} ELSE T!Source
  BY DEF T!Init
<1>2. tcpBatch = [x \in T!Source |-> {}]
  BY DEF T!Init
<1>3. tcpBatch["client"] = {} /\ tcpBatch["server"] = {} /\ "client" \in tcpEv /\ (h # "cold" => "server" \in tcpEv)
  BY <1>1, <1>2 DEF T!Source
<1>4. /\ conn.hin = FALSE /\ conn.cout = T!Empty /\ conn.sout = T!Empty /\ conn.sin = T!Empty /\ conn.sendBuffer = T!Empty
      /\ conn.client = "Connecting" /\ conn.readClient = FALSE /\ conn.send = "open" /\ conn.writable = TRUE
      /\ h = "cold" => conn.server = "Connecting" /\ conn.tls = "start" /\ conn.scon = "connecting"
      /\ h # "cold" => conn.server = "Established" /\ conn.scon = "up"
  BY <1>1 DEF T!NewConn
<1>5. /\ TcpWake("client", "w") /\ TcpWake("client", "r")
      /\ h # "cold" => TcpWake("server", "w") /\ TcpWake("server", "r")
  BY <1>3 DEF TcpWake
<1>6. ~T!IsShutdown("Connecting") /\ ~T!Alive("Connecting")
  BY DEF T!IsShutdown, T!Alive
<1>7. TcpStirred(conn, TcpWake("client", "w"), TcpWake("server", "w"), TcpWake("client", "r"), TcpWake("server", "r"))
  BY <1>4, <1>5, <1>6 DEF TcpStirred
<1>8. Reported(conn, tcpBatch["server"])
  BY <1>3 DEF Reported
<1> QED BY <1>2, <1>7, <1>8 DEF TcpAwake

LEMMA TcpAwakeGives == TcpAwake => T!NoStall
<1> SUFFICES ASSUME TcpAwake, ~gone PROVE T!NoStall
  BY DEF T!NoStall, T!NoStallRead, T!NoStallSend
<1>1. TcpStirred(conn, TcpWake("client", "w"), TcpWake("server", "w"), TcpWake("client", "r"), TcpWake("server", "r"))
  BY DEF TcpAwake
<1>2. \A x, f : TcpWake(x, f) => T!Pending(x)
  BY DEF TcpWake, T!Pending
<1>3. T!NoStallRead
  BY <1>1, <1>2 DEF TcpStirred, T!NoStallRead, BothOpen, ServerFull, ClientFull
<1>4. T!NoStallSend
  BY <1>1, <1>2 DEF TcpStirred, T!NoStallSend, ServerFull, ClientFull
<1> QED BY <1>3, <1>4 DEF T!NoStall

\* In every reachable state of the proxy, for any sets of sources, targets and
\* indexes, any limits and any size of the pool: a connection that has something to
\* read, or something to write and room for it, has an event of mio to come.  Its
\* sources report edges, so that a handler that stopped before the socket said
\* WouldBlock would leave the connection asleep until its timeout.
THEOREM WakeUpsKept == MCSpec => []NoLostWakeup
<1> DEFINE Inv == /\ UInv /\ IInv /\ UdpAwake
                  /\ TcpInv /\ TcpAwake
                  /\ PoolInv /\ PoolAwake
<1>1. MCInit => Inv
  BY UdpInitially, UdpAwakeInitially, TcpInitially, TcpAwakeInitially, PoolInitially, PoolAwakeInitially DEF MCInit
<1>2. Inv /\ [MCNext]_all => Inv'
  <2> SUFFICES ASSUME Inv, [MCNext]_all PROVE Inv'
    OBVIOUS
  <2>1. [Next]_vars
    BY DEF MCNext, TcpTurn, PoolTurn, UdpTurn, all, vars
  <2>2. [T!Next]_(T!vars)
    BY DEF MCNext, TcpTurn, PoolTurn, UdpTurn, all, tcp, T!vars
  <2>3. [P!Next]_(P!vars)
    BY DEF MCNext, TcpTurn, PoolTurn, UdpTurn, all, idle, P!vars
  <2>4. UInv' /\ IInv' /\ UdpAwake'
    BY <2>1, UdpInductive, Inductive, UdpAwakeInductive
  <2>5. TcpInv' /\ TcpAwake'
    BY <2>2, TcpInductive, TcpAwakeInductive
  <2>6. PoolInv' /\ PoolAwake'
    BY <2>3, PoolInductive, PoolAwakeInductive
  <2> QED BY <2>4, <2>5, <2>6
<1>3. Inv => NoLostWakeup
  BY UdpAwakeGives, TcpAwakeGives, PoolAwakeGives DEF NoLostWakeup
<1> QED BY <1>1, <1>2, <1>3, PTL DEF MCSpec
=============================================================================
