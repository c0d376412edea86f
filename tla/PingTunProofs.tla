--------------------------- MODULE PingTunProofs ----------------------------
(***************************************************************************)
(* Proofs about two components, each on its own: the smoltcp device of the *)
(* wintun proxies (MCTunDevice), and the ping backend of the mio server    *)
(* (MCPing).                                                               *)
(*                                                                         *)
(* The device: its maps agree with its sockets, for any number of sources, *)
(* of SYNs and of bytes (DeviceMapsAgree).  A socket is registered in both *)
(* maps when its SYN makes it, and no map names another: the two maps are  *)
(* inverse to each other on the sockets in use, although tcp_handle2ip     *)
(* keeps what it knew of a handle that is free again.  Nothing but         *)
(* accept_tcp and remove_tcp touches the senders, so that a source has one *)
(* if it has a socket, or gets it with its SYN.                            *)
(*                                                                         *)
(* The backend: while both ends of a connection are open every request     *)
(* that dispatch has taken is in exactly one place on its way to the       *)
(* answer, for any addresses, number of requests and limits of the buffers *)
(* (PingAccounted).  The proof counts an address in each queue.  dispatch  *)
(* takes a first part of the new requests and splits it between cache and  *)
(* check thread, and every later step moves one occurrence, or a whole     *)
(* buffer, to the next queue.  A result can only be dropped when the       *)
(* connection is removed or its backend shut down: not both ends are open. *)
(***************************************************************************)
EXTENDS MCTunDevice, MCPing, FiniteSetTheorems, SequenceTheorems, WellFoundedInduction, TLAPS
-----------------------------------------------------------------------------
(* The first of several numbers *)

LEMMA LeastNat ==
    ASSUME NEW T, T \subseteq Nat, T # {}
    PROVE  \E x \in T : \A y \in T : x <= y
  <1> DEFINE R == OpToRel(<, Nat)
  <1>1. IsWellFoundedOn(R, Nat) BY ZenonT(60), NatLessThanWellFounded
  <1>2. \A y \in Nat, x \in Nat : y < x => <<y, x>> \in R BY DEF OpToRel
  <1> HIDE DEF R
  <1>3. PICK x \in T : \A y \in T : ~(<<y, x>> \in R) BY <1>1, WFMin
  <1>4. \A y \in T : ~(y < x) BY <1>2, <1>3
  <1>5. \A y \in T : x <= y BY <1>4
  <1> QED BY <1>5

-----------------------------------------------------------------------------
(* The device: the invariant *)

\* Records with all their fields; only the ones that matter here have a type.
AppOf(a) == [src: Sources, own: {a.own}, st: {a.st}, out: {a.out}, got: {a.got}]
SockOf(k, n) == [st: {k.st}, conn: 0 .. n, rx: {k.rx}, tx: {k.tx}]

\* The applications have a source; a socket's connection is one of theirs.  The
\* first free handle is never beyond the number of the SYNs.
AppsInv ==
    /\ Len(apps) <= NSyns
    /\ \E X : apps \in Seq(X) /\ \A a \in X : a \in AppOf(a)
SocksInv ==
    /\ DOMAIN socks \subseteq 1 .. Len(apps)
    /\ \A h \in DOMAIN socks : socks[h] \in SockOf(socks[h], Len(apps))

\* The maps are inverse to each other on the sockets in use.
MapsInv ==
    /\ ip2handle \in [Sources -> Handles \cup {None}] /\ handle2ip \in [Handles -> Sources \cup {None}]
    /\ \A h \in DOMAIN socks : handle2ip[h] \in Sources /\ ip2handle[handle2ip[h]] = h
    /\ \A s \in Sources : ip2handle[s] # None => ip2handle[s] \in DOMAIN socks /\ handle2ip[ip2handle[s]] = s

\* accept_tcp is still to come for a SYN that made a socket since the last poll.
New(s) == \E id \in ToSet(newTcp) : apps[id].src = s
SendersInv ==
    /\ senders \in [Sources -> Nat] /\ newTcp \in Seq(1 .. Len(apps))
    /\ stage # "panic" => \A s \in Sources : ip2handle[s] # None <=> (senders[s] # None \/ New(s))
    /\ stage = "egress" => newTcp = <<>>
DInv == AppsInv /\ SocksInv /\ MapsInv /\ SendersInv

LEMMA AppsLemma ==
    AppsInv => /\ Len(apps) \in Nat /\ DOMAIN apps = 1 .. Len(apps) /\ Len(apps) <= NSyns
               /\ \A i \in 1 .. Len(apps) : apps[i] \in AppOf(apps[i]) /\ apps[i].src \in Sources
  <1> SUFFICES ASSUME AppsInv
               PROVE  /\ Len(apps) \in Nat /\ DOMAIN apps = 1 .. Len(apps) /\ Len(apps) <= NSyns
                      /\ \A i \in 1 .. Len(apps) : apps[i] \in AppOf(apps[i]) /\ apps[i].src \in Sources
    OBVIOUS
  <1>1. PICK X : apps \in Seq(X) /\ \A a \in X : a \in AppOf(a) BY DEF AppsInv
  <1>2. Len(apps) \in Nat /\ DOMAIN apps = 1 .. Len(apps) /\ Len(apps) <= NSyns BY <1>1 DEF AppsInv
  <1>3. \A i \in 1 .. Len(apps) : apps[i] \in X BY <1>1
  <1>4. \A i \in 1 .. Len(apps) : apps[i] \in AppOf(apps[i]) BY <1>1, <1>3
  <1>5. \A i \in 1 .. Len(apps) : apps[i].src \in Sources BY <1>4 DEF AppOf
  <1> QED BY <1>2, <1>4, <1>5

\* A packet changes one connection and its socket, but neither the source of the
\* one nor the number of the other.
LEMMA PacketStep ==
    ASSUME DInv, NEW h \in DOMAIN socks, NEW r, NEW a, Packet(h, r, a), r \in SockOf(r, Len(apps)),
           socks[h].conn # None => a \in AppOf(a) /\ a.src = apps[socks[h].conn].src
    PROVE  DInv'
  <1> DEFINE n == Len(apps)
  <1> DEFINE j == socks[h].conn
  <1>1. /\ socks' = [socks EXCEPT ![h] = r] /\ apps' = [apps EXCEPT ![j] = a] /\ stage' = stage
        /\ ip2handle' = ip2handle /\ handle2ip' = handle2ip /\ newTcp' = newTcp /\ senders' = senders
    BY DEF Packet
  <1>2. n \in Nat /\ DOMAIN apps = 1 .. n /\ n <= NSyns /\ \A i \in 1 .. n : apps[i] \in AppOf(apps[i])
    BY AppsLemma DEF DInv
  <1>3. PICK X : apps \in Seq(X) /\ \A b \in X : b \in AppOf(b) BY DEF DInv, AppsInv
  <1>4. j \in 0 .. n BY DEF DInv, SocksInv, SockOf
  <1>5. AppsInv' /\ Len(apps') = n /\ \A i \in 1 .. n : apps'[i].src = apps[i].src
    <2>1. CASE j = 0
      <3>1. 0 \notin DOMAIN apps BY <1>2
      <3>2. apps' = apps BY <1>1, <1>3, <2>1, <3>1
      <3> QED BY <3>2 DEF DInv, AppsInv, AppOf
    <2>2. CASE j # 0
      <3> DEFINE Y == X \cup {a}
      <3>1. a \in AppOf(a) /\ a.src = apps[j].src /\ j \in 1 .. n BY <1>2, <1>4, <2>2 DEF None
      <3>2. apps \in Seq(Y) /\ a \in Y /\ \A b \in Y : b \in AppOf(b) BY <1>3, <3>1
      <3> HIDE DEF Y, j
      <3>3. apps' \in Seq(Y) /\ Len(apps') = n /\ \A i \in 1 .. n : apps'[i] = IF i = j THEN a ELSE apps[i]
        BY <1>1, <1>2, <3>1, <3>2
      <3>4. \A i \in 1 .. n : apps'[i].src = apps[i].src BY <3>1, <3>3
      <3>5. AppsInv' BY <1>2, <3>2, <3>3 DEF AppsInv, AppOf
      <3> QED BY <3>3, <3>4, <3>5
    <2> QED BY <2>1, <2>2
  <1>6. DOMAIN socks' = DOMAIN socks /\ SocksInv'
    <2>1. DOMAIN socks' = DOMAIN socks BY <1>1
    <2>2. \A g \in DOMAIN socks' : socks'[g] \in SockOf(socks'[g], n)
      BY <1>1 DEF DInv, SocksInv
    <2> QED BY <1>5, <2>1, <2>2 DEF DInv, SocksInv, SockOf
  <1>7. MapsInv' BY <1>1, <1>6 DEF DInv, MapsInv
  <1>8. SendersInv'
    <2>1. newTcp \in Seq(1 .. n) BY DEF DInv, SendersInv
    <2>2. ToSet(newTcp) \subseteq 1 .. n BY <2>1 DEF ToSet
    <2>3. \A s : New(s)' <=> New(s) BY <1>1, <1>5, <2>2 DEF New
    <2> QED BY <1>1, <1>5, <2>1, <2>3 DEF DInv, SendersInv
  <1> QED BY <1>5, <1>6, <1>7, <1>8 DEF DInv

LEMMA NetStep ==
    ASSUME DInv, NEW h \in DOMAIN socks,
           Ack(h) \/ AppSends(h) \/ AppCloses(h) \/ AppResets(h) \/ Egress(h) \/ EgressFin(h) \/ TimeWaitEnds(h)
    PROVE  DInv'
  <1> DEFINE k == socks[h]
  <1> DEFINE p == apps[k.conn]
  <1> DEFINE n == Len(apps)
  <1>1. k \in SockOf(k, n) /\ n \in Nat BY AppsLemma DEF DInv, SocksInv
  <1>2. k.conn # None => p \in AppOf(p)
    <2>1. k.conn \in 0 .. n BY <1>1 DEF SockOf
    <2> QED BY <1>1, <2>1, AppsLemma DEF DInv, None
  <1>3. \E r, a : /\ Packet(h, r, a) /\ r \in SockOf(r, n)
                  /\ k.conn # None => a \in AppOf(a) /\ a.src = p.src
    <2>1. CASE Ack(h) BY <1>1, <1>2, <2>1 DEF Ack, Peer, Connected, SockOf, AppOf
    <2>2. CASE AppSends(h) BY <1>1, <1>2, <2>2 DEF AppSends, Peer, Connected, SockOf, AppOf
    <2>3. CASE AppCloses(h) BY <1>1, <1>2, <2>3 DEF AppCloses, Peer, Connected, SockOf, AppOf
    <2>0. 0 \in 0 .. n BY <1>1
    <2>4. CASE AppResets(h)
      <3> DEFINE x == IF k.st = "synrcvd" THEN "listen" ELSE "closed"
      <3> DEFINE r == [k EXCEPT !.st = x, !.conn = 0, !.tx = <<>>]
      <3> DEFINE a == [p EXCEPT !.st = "gone"]
      <3>1. Packet(h, r, a) BY <2>4 DEF AppResets, Peer, None
      <3> HIDE DEF x
      <3>2. r \in SockOf(r, n) BY <1>1, <2>0 DEF SockOf
      <3>3. k.conn # None => a \in AppOf(a) /\ a.src = p.src BY <1>2 DEF AppOf
      <3> QED BY <3>1, <3>2, <3>3
    <2>5. CASE Egress(h) BY <1>1, <1>2, <2>5 DEF Egress, Peer, Connected, SockOf, AppOf
    <2>6. CASE EgressFin(h)
      <3> DEFINE x == IF p.st = "syn" THEN "open" ELSE p.st
      <3> DEFINE y == "gone"
      <3> DEFINE a == [p EXCEPT !.st = x]
      <3> DEFINE b == [p EXCEPT !.st = y]
      <3> DEFINE u == "finwait2"
      <3> DEFINE v == "timewait"
      <3> DEFINE w == "closed"
      <3> DEFINE r == [k EXCEPT !.st = u]
      <3> DEFINE s == [k EXCEPT !.st = v]
      <3> DEFINE t == [k EXCEPT !.st = w, !.conn = 0]
      <3>1. Packet(h, r, a) \/ Packet(h, s, b) \/ Packet(h, t, b) BY <2>6 DEF EgressFin, Peer, None
      <3> HIDE DEF x, y, u, v, w
      <3>2. r \in SockOf(r, n) /\ s \in SockOf(s, n) BY <1>1 DEF SockOf
      <3>3. t \in SockOf(t, n) BY <1>1, <2>0 DEF SockOf
      <3>4. k.conn # None => a \in AppOf(a) /\ a.src = p.src /\ b \in AppOf(b) /\ b.src = p.src
        BY <1>2 DEF AppOf
      <3> HIDE DEF r, s, t, a, b
      <3> QED BY <3>1, <3>2, <3>3, <3>4
    <2>7. CASE TimeWaitEnds(h)
      <3> DEFINE x == "closed"
      <3> DEFINE r == [k EXCEPT !.st = x, !.conn = 0, !.rx = <<>>]
      <3>1. Packet(h, r, p) BY <2>7 DEF TimeWaitEnds, Peer, None
      <3> HIDE DEF x
      <3>2. r \in SockOf(r, n) BY <1>1, <2>0 DEF SockOf
      <3> QED BY <1>2, <3>1, <3>2
    <2> QED BY <2>1, <2>2, <2>3, <2>4, <2>5, <2>6, <2>7
  <1> QED BY <1>3, PacketStep

-----------------------------------------------------------------------------
(* A SYN *)

LEMMA FreeLemma ==
    ASSUME DInv, Len(apps) < NSyns
    PROVE  FreeHandle \in 1 .. Len(apps) + 1 /\ FreeHandle \notin DOMAIN socks /\ FreeHandle \in Handles
  <1> DEFINE F == Handles \ DOMAIN socks
  <1> DEFINE n == Len(apps)
  <1>1. n \in Nat /\ NSyns \in Nat /\ n < NSyns BY AppsLemma, DeviceAssumption DEF DInv
  <1>2. DOMAIN socks \subseteq 1 .. n BY DEF DInv, SocksInv
  <1>3. n + 1 \in F /\ F \subseteq Nat
    <2>1. n + 1 \in 1 .. NSyns /\ n + 1 \notin 1 .. n BY <1>1
    <2> QED BY <1>1, <1>2, <2>1 DEF Handles
  <1>4. F # {} BY <1>3
  <1> HIDE DEF F
  <1>5. \E h \in F : \A g \in F : h <= g BY <1>3, <1>4, LeastNat
  <1>6. FreeHandle \in F /\ \A g \in F : FreeHandle <= g BY <1>5 DEF FreeHandle, F
  <1>7. FreeHandle <= n + 1 /\ FreeHandle \in 1 .. NSyns /\ FreeHandle \notin DOMAIN socks BY <1>3, <1>6 DEF F, Handles
  <1> QED BY <1>1, <1>7 DEF Handles

\* A new socket is there in both maps, and its stream is due.
LEMMA SynStep ==
    ASSUME DInv, NEW s \in Sources, Syn(s)
    PROVE  DInv'
  <1> DEFINE n == Len(apps)
  <1> DEFINE id == n + 1
  <1> DEFINE new == ip2handle[s] = None
  <1> DEFINE fresh == [st |-> "listen", conn |-> None, rx |-> <<>>, tx |-> <<>>]
  <1> DEFINE table == IF new THEN Put(socks, FreeHandle, fresh) ELSE socks
  <1>0. n \in Nat /\ n < NSyns /\ stage = "net" /\ stage' = stage /\ senders' = senders /\ NSyns \in Nat
    BY AppsLemma, DeviceAssumption DEF DInv, Syn
  <1>1. PICK g, o, y :
            /\ socks' = table \/ socks' = [table EXCEPT ![g] = [table[g] EXCEPT !.st = "synrcvd", !.conn = id]]
            /\ apps' = Append(apps, [src |-> s, own |-> o, st |-> y, out |-> 0, got |-> <<>>])
    BY DEF Syn
  <1>2. /\ ip2handle' = IF new THEN [ip2handle EXCEPT ![s] = FreeHandle] ELSE ip2handle
        /\ handle2ip' = IF new THEN [handle2ip EXCEPT ![FreeHandle] = s] ELSE handle2ip
        /\ newTcp' = IF new THEN Append(newTcp, id) ELSE newTcp
    BY DEF Syn, Register
  <1>3. AppsInv' /\ Len(apps') = id /\ apps'[id].src = s /\ \A i \in 1 .. n : apps'[i] = apps[i]
    <2> DEFINE x == [src |-> s, own |-> o, st |-> y, out |-> 0, got |-> <<>>]
    <2>1. PICK X : apps \in Seq(X) /\ \A b \in X : b \in AppOf(b) BY DEF DInv, AppsInv
    <2> DEFINE Y == X \cup {x}
    <2>2. x \in AppOf(x) /\ x.src = s BY DEF AppOf
    <2>3. apps' = Append(apps, x) BY <1>1
    <2> HIDE DEF x
    <2>4. apps \in Seq(Y) /\ x \in Y /\ \A b \in Y : b \in AppOf(b) BY <2>1, <2>2
    <2> HIDE DEF Y
    <2>5. apps' \in Seq(Y) /\ Len(apps') = id /\ apps'[id] = x /\ \A i \in 1 .. n : apps'[i] = apps[i]
      BY <1>0, <2>3, <2>4
    <2>6. id <= NSyns BY <1>0
    <2>7. AppsInv' BY <2>4, <2>5, <2>6 DEF AppsInv, AppOf
    <2> QED BY <2>2, <2>5, <2>7
  <1>4. /\ FreeHandle \in 1 .. id /\ FreeHandle \notin DOMAIN socks /\ FreeHandle \in Handles
    BY <1>0, FreeLemma
  <1> DEFINE f == FreeHandle
  <1> HIDE DEF f
  <1>f. f = FreeHandle BY DEF f
  <1>5. /\ DOMAIN table = IF new THEN DOMAIN socks \cup {f} ELSE DOMAIN socks
        /\ \A h \in DOMAIN table : table[h] \in SockOf(table[h], id)
    <2>1. \A h \in DOMAIN socks : socks[h] \in SockOf(socks[h], id)
      <3>1. 0 .. n \subseteq 0 .. id BY <1>0
      <3>2. \A h \in DOMAIN socks : socks[h] \in SockOf(socks[h], n) BY DEF DInv, SocksInv
      <3> QED BY <3>1, <3>2 DEF SockOf
    <2>2. fresh \in SockOf(fresh, id)
      <3>1. 0 \in 0 .. id BY <1>0
      <3> QED BY <3>1 DEF SockOf, None
    <2>3. CASE ~new BY <2>1, <2>3
    <2>4. CASE new
      <3> HIDE DEF fresh
      <3>1. table = [h \in DOMAIN socks \cup {f} |-> IF h = f THEN fresh ELSE socks[h]] BY <1>f, <2>4 DEF Put
      <3> HIDE DEF table, new
      <3> QED BY <2>1, <2>2, <2>4, <3>1
    <2> QED BY <2>3, <2>4
  <1> HIDE DEF table
  <1>6. DOMAIN socks' = DOMAIN table /\ \A h \in DOMAIN table : socks'[h] \in SockOf(socks'[h], id)
    <2>1. CASE socks' = table BY <1>5, <2>1
    <2>2. CASE socks' = [table EXCEPT ![g] = [table[g] EXCEPT !.st = "synrcvd", !.conn = id]]
      <3> DEFINE st == "synrcvd"
      <3> DEFINE k == [table[g] EXCEPT !.st = st, !.conn = id]
      <3>1. socks' = [table EXCEPT ![g] = k] BY <2>2
      <3>2. id \in 0 .. id BY <1>0
      <3> HIDE DEF st
      <3>3. g \in DOMAIN table => k \in SockOf(k, id) BY <1>5, <3>2 DEF SockOf
      <3> HIDE DEF k
      <3> QED BY <1>5, <3>1, <3>3
    <2> QED BY <1>1, <2>1, <2>2
  <1>7. SocksInv'
    <2>1. DOMAIN socks \subseteq 1 .. id BY <1>0 DEF DInv, SocksInv
    <2>2. DOMAIN socks' \subseteq 1 .. id BY <1>4, <1>5, <1>6, <1>f, <2>1
    <2> QED BY <1>3, <1>6, <2>2 DEF SocksInv, SockOf
  <1>8. /\ ip2handle \in [Sources -> Handles \cup {None}] /\ handle2ip \in [Handles -> Sources \cup {None}]
        /\ \A h \in DOMAIN socks : h \in Handles /\ handle2ip[h] \in Sources /\ ip2handle[handle2ip[h]] = h
        /\ \A t \in Sources : ip2handle[t] # None => ip2handle[t] \in DOMAIN socks /\ handle2ip[ip2handle[t]] = t
    <2>1. DOMAIN socks \subseteq Handles BY <1>0 DEF DInv, SocksInv, Handles
    <2> QED BY <2>1 DEF DInv, MapsInv
  <1>9. f # None BY <1>4, <1>f, <1>0 DEF None
  <1>10. MapsInv' /\ \A t \in Sources : (ip2handle'[t] # None) <=> (ip2handle[t] # None \/ t = s)
    <2>1. CASE ~new
      <3>1. ip2handle' = ip2handle /\ handle2ip' = handle2ip /\ DOMAIN socks' = DOMAIN socks
        BY <1>2, <1>5, <1>6, <2>1
      <3> QED BY <1>8, <2>1, <3>1 DEF MapsInv
    <2>2. CASE new
      <3>1. /\ ip2handle' = [ip2handle EXCEPT ![s] = f] /\ handle2ip' = [handle2ip EXCEPT ![f] = s]
            /\ DOMAIN socks' = DOMAIN socks \cup {f} /\ f \notin DOMAIN socks /\ f \in Handles
        BY <1>2, <1>4, <1>5, <1>6, <1>f, <2>2
      <3>2. ip2handle' \in [Sources -> Handles \cup {None}] /\ handle2ip' \in [Handles -> Sources \cup {None}]
        BY <1>8, <3>1
      <3>3. ip2handle'[s] = f /\ handle2ip'[f] = s /\ \A t \in Sources : t # s => ip2handle'[t] = ip2handle[t]
        BY <1>8, <3>1
      <3>4. \A h \in DOMAIN socks : handle2ip'[h] = handle2ip[h] /\ h # f BY <1>8, <3>1
      <3>5. \A h \in DOMAIN socks : handle2ip[h] # s 
        <4>1. \A h \in DOMAIN socks : h # None BY <1>0 DEF DInv, SocksInv, None
        <4> QED BY <1>8, <2>2, <4>1
      <3>6. \A h \in DOMAIN socks' : handle2ip'[h] \in Sources /\ ip2handle'[handle2ip'[h]] = h
        BY <1>8, <3>1, <3>3, <3>4, <3>5
      <3>7. \A t \in Sources : ip2handle'[t] # None => ip2handle'[t] \in DOMAIN socks' /\ handle2ip'[ip2handle'[t]] = t
        BY <1>8, <3>1, <3>3, <3>4
      <3> QED BY <1>9, <2>2, <3>2, <3>3, <3>6, <3>7 DEF MapsInv
    <2> QED BY <2>1, <2>2
  <1>11. SendersInv'
    <2>1. newTcp \in Seq(1 .. n) /\ senders \in [Sources -> Nat] BY DEF DInv, SendersInv
    <2>2. newTcp \in Seq(1 .. id)
      <3>1. 1 .. n \subseteq 1 .. id BY <1>0
      <3> QED BY <2>1, <3>1
    <2>3. id \in 1 .. id BY <1>0
    <2>4. newTcp' \in Seq(1 .. id) /\ ToSet(newTcp') = ToSet(newTcp) \cup (IF new THEN {id} ELSE {})
      <3> HIDE DEF id
      <3>1. CASE ~new BY <1>2, <2>2, <3>1
      <3>2. CASE new
        <4>1. newTcp' = Append(newTcp, id) BY <1>2, <3>2
        <4> HIDE DEF new
        <4> QED BY <2>2, <2>3, <3>2, <4>1 DEF ToSet
      <3> QED BY <3>1, <3>2
    <2>5. ToSet(newTcp) \subseteq 1 .. n BY <2>1 DEF ToSet
    <2>6. \A t \in Sources : New(t)' <=> (New(t) \/ (new /\ t = s))
      BY <1>3, <2>4, <2>5 DEF New
    <2>7. \A t \in Sources : ip2handle[t] # None <=> (senders[t] # None \/ New(t))
      BY <1>0 DEF DInv, SendersInv
    <2>8. \A t \in Sources : ip2handle'[t] # None <=> (senders[t] # None \/ New(t)')
      BY <1>10, <2>6, <2>7
    <2> QED BY <1>0, <1>3, <2>1, <2>4, <2>8 DEF SendersInv
  <1> QED BY <1>3, <1>7, <1>10, <1>11 DEF DInv
-----------------------------------------------------------------------------
(* A poll *)

\* A socket keeps its connection when it closes, when it hands over what it has
\* received, and when it takes what is to be sent.
LEMMA SockLemma ==
    ASSUME NEW n, NEW k, k \in SockOf(k, n), NEW x
    PROVE  /\ [k EXCEPT !.st = x] \in SockOf([k EXCEPT !.st = x], n)
           /\ [k EXCEPT !.rx = x] \in SockOf([k EXCEPT !.rx = x], n)
           /\ [k EXCEPT !.tx = x] \in SockOf([k EXCEPT !.tx = x], n)
  BY DEF SockOf

LEMMA ClosedLemma ==
    ASSUME NEW n, NEW k, k \in SockOf(k, n)
    PROVE  Closed(k) \in SockOf(Closed(k), n)
  <1> DEFINE x == CASE k.st = "listen" -> "closed"
                    [] k.st \in {"synrcvd", "est"} -> "finwait"
                    [] k.st = "closewait" -> "lastack"
                    [] OTHER -> k.st
  <1> DEFINE d == [k EXCEPT !.st = x]
  <1>1. Closed(k) = d BY DEF Closed
  <1> HIDE DEF x
  <1>2. d \in SockOf(d, n) BY SockLemma
  <1> HIDE DEF d
  <1> QED BY <1>1, <1>2

LEMMA DispatchLemma ==
    ASSUME NEW n, NEW k, k \in SockOf(k, n), NEW r
    PROVE  Dispatch(k, r).sock \in SockOf(Dispatch(k, r).sock, n)
  <1> DEFINE open == r.up # "done"
  <1> DEFINE room == Len(r.chan) < ChanCap
  <1> DEFINE b == [k EXCEPT !.rx = EmptiedRx(k)]
  <1> DEFINE a == IF ~room THEN k ELSE IF open THEN b ELSE Closed(b)
  <1> DEFINE ends == a.st = "closewait" /\ a.tx = <<>>
  <1>1. Dispatch(k, r).sock = IF ends THEN Closed(a) ELSE a BY DEF Dispatch
  <1>2. b \in SockOf(b, n) BY SockLemma
  <1> HIDE DEF b
  <1>3. Closed(b) \in SockOf(Closed(b), n) BY <1>2, ClosedLemma
  <1>4. a \in SockOf(a, n) BY <1>2, <1>3
  <1> HIDE DEF a, open, room
  <1>5. Closed(a) \in SockOf(Closed(a), n) BY <1>4, ClosedLemma
  <1> QED BY <1>1, <1>4, <1>5

LEMMA SentLemma ==
    ASSUME NEW n, NEW k, k \in SockOf(k, n), NEW q
    PROVE  Sent(k, q) \in SockOf(Sent(k, q), n)
  <1> DEFINE x == k.tx \o Fitting(k, q)
  <1> DEFINE a == [k EXCEPT !.tx = x]
  <1>1. Sent(k, q) \in {k, Closed(k), a, Closed(a)} BY DEF Sent
  <1> HIDE DEF x
  <1>2. a \in SockOf(a, n) BY SockLemma
  <1> HIDE DEF a
  <1>3. Closed(a) \in SockOf(Closed(a), n) /\ Closed(k) \in SockOf(Closed(k), n) BY <1>2, ClosedLemma
  <1> QED BY <1>1, <1>2, <1>3

\* A step that keeps the connections, and every socket that is left keeps its own.
LEMMA KeptSocks ==
    ASSUME DInv, apps' = apps, DOMAIN socks' \subseteq DOMAIN socks,
           \A h \in DOMAIN socks' : socks'[h] \in SockOf(socks'[h], Len(apps))
    PROVE  AppsInv' /\ SocksInv'
  BY DEF DInv, AppsInv, SocksInv, AppOf, SockOf

\* Whoever has a socket has a stream after accept_tcp.
LEMMA AcceptedLemma ==
    ASSUME DInv, NEW s \in Sources
    PROVE  Accepted(s) \in Nat /\ (Accepted(s) # None <=> (senders[s] # None \/ New(s)))
  <1> DEFINE made == {id \in ToSet(newTcp) : apps[id].src = s}
  <1>1. newTcp \in Seq(1 .. Len(apps)) /\ senders[s] \in Nat BY DEF DInv, SendersInv
  <1>2. ToSet(newTcp) \subseteq 1 .. Len(apps) /\ Len(apps) \in Nat BY <1>1, AppsLemma DEF ToSet, DInv
  <1>3. New(s) <=> made # {} BY DEF New
  <1>4. Accepted(s) = IF made = {} THEN senders[s] ELSE CHOOSE id \in made : TRUE BY DEF Accepted
  <1>5. \A id \in made : id \in Nat /\ id # None BY <1>2 DEF None
  <1> HIDE DEF made
  <1> QED BY <1>1, <1>3, <1>4, <1>5

\* Who is removed has a source; and the socket of a source that is not removed
\* is left.
LEMMA RemovedLemma ==
    ASSUME DInv
    PROVE  /\ ToRemove \subseteq Sources
           /\ \A h \in Remaining : h \in DOMAIN socks /\ handle2ip[h] \notin ToRemove /\ h \notin Unconnected
           /\ \A s \in Sources \ ToRemove : ip2handle[s] # None => ip2handle[s] \in Remaining
  <1>1. /\ \A h \in DOMAIN socks : handle2ip[h] \in Sources /\ ip2handle[handle2ip[h]] = h
        /\ \A s \in Sources : ip2handle[s] # None => ip2handle[s] \in DOMAIN socks /\ handle2ip[ip2handle[s]] = s
    BY DEF DInv, MapsInv
  <1>2. \A h \in DOMAIN socks : Dispatched(h) => Remote(socks[h]) \in Sources
    <2> SUFFICES ASSUME NEW h \in DOMAIN socks, Dispatched(h) PROVE Remote(socks[h]) \in Sources
      OBVIOUS
    <2>1. socks[h].conn \in 0 .. Len(apps) BY DEF DInv, SocksInv, SockOf
    <2>2. socks[h].conn # None BY DEF Dispatched, Connected
    <2>3. socks[h].conn \in 1 .. Len(apps) BY <2>1, <2>2, AppsLemma DEF DInv, None
    <2> QED BY <2>3, AppsLemma DEF DInv, Remote
  <1>3. \A h \in Unconnected : h \in DOMAIN socks /\ handle2ip[h] \in ToRemove BY DEF Unconnected, ToRemove
  <1>4. ToRemove \subseteq Sources BY <1>1, <1>2 DEF ToRemove, Unconnected
  <1>5. \A h \in Remaining : h \in DOMAIN socks /\ \A s \in ToRemove : ip2handle[s] # h BY DEF Remaining
  <1>6. \A h \in Remaining : handle2ip[h] \notin ToRemove BY <1>1, <1>5
  <1>7. \A h \in Remaining : h \notin Unconnected BY <1>3, <1>6
  <1>8. \A s \in Sources \ ToRemove : ip2handle[s] # None => ip2handle[s] \in Remaining
    <2> SUFFICES ASSUME NEW s \in Sources, s \notin ToRemove, ip2handle[s] # None
                 PROVE  ip2handle[s] \in Remaining
      OBVIOUS
    <2>1. ip2handle[s] \in DOMAIN socks /\ handle2ip[ip2handle[s]] = s BY <1>1
    <2>2. \A t \in ToRemove : ip2handle[t] # ip2handle[s]
      <3> SUFFICES ASSUME NEW t \in ToRemove, ip2handle[t] = ip2handle[s] PROVE FALSE
        OBVIOUS
      <3>1. t \in Sources /\ handle2ip[ip2handle[t]] = t BY <1>1, <1>4
      <3> QED BY <2>1, <3>1
    <2> QED BY <2>1, <2>2 DEF Remaining
  <1> QED BY <1>4, <1>5, <1>6, <1>7, <1>8

LEMMA IngressStep ==
    ASSUME DInv, ProcessIngress
    PROVE  DInv'
  <1> DEFINE x == Ingress
  <1> DEFINE sock(h) == IF Dispatched(h) THEN Dispatch(socks[h], x[h][Receiver(h)]).sock ELSE socks[h]
  <1>1. /\ stage = "net" /\ stage' = "egress" /\ newTcp' = <<>> /\ apps' = apps
        /\ socks' = [h \in Remaining |-> sock(h)]
        /\ ip2handle' = [s \in Sources |-> IF s \in ToRemove THEN None ELSE ip2handle[s]]
        /\ senders' = [s \in Sources |-> IF s \in ToRemove THEN None ELSE Accepted(s)]
        /\ handle2ip' = [h \in Handles |-> IF h \in Unconnected THEN None ELSE handle2ip[h]]
    BY DEF ProcessIngress
  <1> HIDE DEF x
  <1>2. \A h \in DOMAIN socks : sock(h) \in SockOf(sock(h), Len(apps))
    <2> SUFFICES ASSUME NEW h \in DOMAIN socks PROVE sock(h) \in SockOf(sock(h), Len(apps))
      OBVIOUS
    <2> DEFINE k == socks[h]
    <2> DEFINE r == x[h][Receiver(h)]
    <2> DEFINE m == Len(apps)
    <2>1. k \in SockOf(k, m) BY DEF DInv, SocksInv
    <2>2. sock(h) = Dispatch(k, r).sock \/ sock(h) = k OBVIOUS
    <2> HIDE DEF k, r, m, sock
    <2>3. Dispatch(k, r).sock \in SockOf(Dispatch(k, r).sock, m) BY <2>1, DispatchLemma
    <2> QED BY <2>1, <2>2, <2>3 DEF m
  <1> HIDE DEF sock
  <1>3. /\ \A h \in Remaining : h \in DOMAIN socks /\ handle2ip[h] \notin ToRemove /\ h \notin Unconnected
        /\ \A s \in Sources \ ToRemove : ip2handle[s] # None => ip2handle[s] \in Remaining
    BY RemovedLemma
  <1>4. DOMAIN socks' = Remaining /\ \A h \in Remaining : socks'[h] = sock(h) BY <1>1
  <1>5. \A h \in DOMAIN socks' : socks'[h] \in SockOf(socks'[h], Len(apps)) BY <1>2, <1>3, <1>4
  <1>6. DOMAIN socks' \subseteq DOMAIN socks BY <1>3, <1>4
  <1>7. AppsInv' /\ SocksInv' BY <1>1, <1>5, <1>6, KeptSocks
  <1>8. /\ ip2handle \in [Sources -> Handles \cup {None}] /\ handle2ip \in [Handles -> Sources \cup {None}]
        /\ \A h \in DOMAIN socks : handle2ip[h] \in Sources /\ ip2handle[handle2ip[h]] = h
        /\ \A s \in Sources : ip2handle[s] # None => ip2handle[s] \in DOMAIN socks /\ handle2ip[ip2handle[s]] = s
    BY DEF DInv, MapsInv
  <1>9. \A h \in DOMAIN socks : h \in Handles
    <2>1. DOMAIN socks \subseteq 1 .. Len(apps) BY DEF DInv, SocksInv
    <2>2. Len(apps) \in Nat /\ Len(apps) <= NSyns BY AppsLemma DEF DInv
    <2> QED BY <2>1, <2>2, DeviceAssumption DEF Handles
  <1>10. MapsInv'
    <2>1. ip2handle' \in [Sources -> Handles \cup {None}] /\ handle2ip' \in [Handles -> Sources \cup {None}]
      BY <1>1, <1>8
    <2>2. \A h \in Remaining : handle2ip'[h] = handle2ip[h] BY <1>1, <1>3, <1>9
    <2>3. \A s \in Sources : ip2handle'[s] = IF s \in ToRemove THEN None ELSE ip2handle[s] BY <1>1
    <2>4. \A h \in DOMAIN socks' : handle2ip'[h] \in Sources /\ ip2handle'[handle2ip'[h]] = h
      BY <1>3, <1>4, <1>8, <2>2, <2>3
    <2>5. \A s \in Sources : ip2handle'[s] # None => ip2handle'[s] \in DOMAIN socks' /\ handle2ip'[ip2handle'[s]] = s
      BY <1>3, <1>4, <1>8, <2>2, <2>3
    <2> QED BY <2>1, <2>4, <2>5 DEF MapsInv
  <1>11. SendersInv'
    <2>1. \A s \in Sources : ip2handle[s] # None <=> (senders[s] # None \/ New(s))
      <3>1. stage # "panic" BY <1>1
      <3> QED BY <3>1 DEF DInv, SendersInv
    <2>2. \A s \in Sources : Accepted(s) \in Nat /\ (Accepted(s) # None <=> ip2handle[s] # None)
      BY <2>1, AcceptedLemma
    <2>3. senders' \in [Sources -> Nat] BY <1>1, <2>2 DEF None
    <2>4. newTcp' \in Seq(1 .. Len(apps')) BY <1>1
    <2>5. ~ \E id \in ToSet(newTcp') : TRUE BY <1>1 DEF ToSet
    <2>6. \A s \in Sources : ~New(s)' BY <2>5 DEF New
    <2>7. \A s \in Sources : ip2handle'[s] # None <=> senders'[s] # None BY <1>1, <2>2
    <2> QED BY <1>1, <2>3, <2>4, <2>6, <2>7 DEF SendersInv
  <1> QED BY <1>7, <1>10, <1>11 DEF DInv

\* A step that changes neither maps nor connections, but at most what sockets have
\* to send.
LEMMA SameMaps ==
    ASSUME DInv, apps' = apps, DOMAIN socks' = DOMAIN socks,
           \A h \in DOMAIN socks : socks'[h] \in SockOf(socks'[h], Len(apps)),
           ip2handle' = ip2handle, handle2ip' = handle2ip, newTcp' = newTcp, senders' = senders,
           stage' = stage \/ stage' = "panic" \/ (stage = "egress" /\ stage' = "net")
    PROVE  DInv'
  <1>1. AppsInv' /\ SocksInv' BY KeptSocks
  <1>2. MapsInv' BY DEF DInv, MapsInv
  <1>3. \A s : New(s)' <=> New(s) BY DEF New
  <1>4. SendersInv' BY <1>3 DEF DInv, SendersInv
  <1> QED BY <1>1, <1>2, <1>4 DEF DInv

LEMMA EgressStep ==
    ASSUME DInv, ProcessEgress
    PROVE  DInv'
  <1> DEFINE q(h) == Answers(handle2ip[h])
  <1>1. /\ stage = "egress" /\ stage' = "net" /\ apps' = apps
        /\ ip2handle' = ip2handle /\ handle2ip' = handle2ip /\ newTcp' = newTcp /\ senders' = senders
    BY DEF ProcessEgress
  <1>2. socks' = [h \in DOMAIN socks |-> IF ip2handle[handle2ip[h]] = h THEN Sent(socks[h], q(h)) ELSE socks[h]]
    BY DEF ProcessEgress
  <1> HIDE DEF q
  <1>3. \A h \in DOMAIN socks : socks'[h] \in SockOf(socks'[h], Len(apps))
    <2> SUFFICES ASSUME NEW h \in DOMAIN socks PROVE socks'[h] \in SockOf(socks'[h], Len(apps))
      OBVIOUS
    <2> DEFINE k == socks[h]
    <2> DEFINE m == Len(apps)
    <2> DEFINE r == q(h)
    <2>1. k \in SockOf(k, m) BY DEF DInv, SocksInv
    <2>2. socks'[h] = Sent(k, r) \/ socks'[h] = k BY <1>2
    <2> HIDE DEF k, m, r
    <2>3. Sent(k, r) \in SockOf(Sent(k, r), m) BY <2>1, SentLemma
    <2> QED BY <2>1, <2>2, <2>3 DEF m
  <1>4. DOMAIN socks' = DOMAIN socks BY <1>2
  <1> QED BY <1>1, <1>3, <1>4, SameMaps

LEMMA StillStep ==
    ASSUME DInv, apps' = apps, socks' = socks, stage' = stage \/ stage' = "panic",
           ip2handle' = ip2handle, handle2ip' = handle2ip, newTcp' = newTcp, senders' = senders
    PROVE  DInv'
  <1>1. \A h \in DOMAIN socks : socks'[h] \in SockOf(socks'[h], Len(apps)) BY DEF DInv, SocksInv
  <1> QED BY <1>1, SameMaps

-----------------------------------------------------------------------------
(* The device: the theorem *)

LEMMA InitInv ==
    ASSUME DInit
    PROVE  DInv
  <1>1. apps = <<>> /\ socks = <<>> /\ newTcp = <<>> /\ stage = "net" BY DEF DInit
  <1>2. Len(apps) = 0 /\ DOMAIN socks = {} BY <1>1
  <1>3. AppsInv
    <2> DEFINE E == {}
    <2>1. apps \in Seq(E) /\ \A a \in E : a \in AppOf(a) BY <1>1
    <2>2. Len(apps) <= NSyns BY <1>2, DeviceAssumption
    <2> HIDE DEF E
    <2>3. \E X : apps \in Seq(X) /\ \A a \in X : a \in AppOf(a) BY <2>1
    <2> QED BY <2>2, <2>3 DEF AppsInv
  <1>4. SocksInv BY <1>2 DEF SocksInv
  <1>5. MapsInv BY <1>2 DEF DInit, MapsInv
  <1>6. SendersInv
    <2>1. newTcp \in Seq(1 .. Len(apps)) /\ ToSet(newTcp) = {} BY <1>1 DEF ToSet
    <2>2. \A s \in Sources : ~New(s) BY <2>1 DEF New
    <2>3. senders \in [Sources -> Nat] /\ \A s \in Sources : senders[s] = None /\ ip2handle[s] = None
      BY DEF DInit, None
    <2> QED BY <1>1, <2>1, <2>2, <2>3 DEF SendersInv
  <1> QED BY <1>3, <1>4, <1>5, <1>6 DEF DInv

LEMMA NextInv ==
    ASSUME DInv, [DNext]_dvars
    PROVE  DInv'
  <1>1. CASE \E s \in Sources : Syn(s) BY <1>1, SynStep
  <1>2. CASE \E h \in DOMAIN socks :
                Ack(h) \/ AppSends(h) \/ AppCloses(h) \/ AppResets(h) \/ Egress(h) \/ EgressFin(h) \/ TimeWaitEnds(h)
    BY <1>2, NetStep
  <1>3. CASE ProcessIngress BY <1>3, IngressStep
  <1>4. CASE IngressPanics BY <1>4, StillStep DEF IngressPanics
  <1>5. CASE ProcessEgress BY <1>5, EgressStep
  <1>6. CASE \E id \in DOMAIN streams :
                ConnectFails(id) \/ ReadLocal(id) \/ ReadEnd(id) \/ ReadTimeout(id) \/ WriteFails(id) \/ ReadRemote(id) \/ RemoteEnd(id)
    <2>1. \E id, r : Task(id, r)
      BY <1>6 DEF ConnectFails, ReadLocal, ReadEnd, ReadTimeout, WriteFails, UpEnds, ReadRemote, RemoteEnd
    <2> QED BY <2>1, StillStep DEF Task
  <1>7. CASE UNCHANGED dvars BY <1>7, StillStep DEF dvars
  <1> QED BY <1>1, <1>2, <1>3, <1>4, <1>5, <1>6, <1>7 DEF DNext, Poll

\* For any number of sources and of SYNs, the maps of the device agree with its
\* sockets, although remove_tcp leaves tcp_handle2ip as it is and a handle is used
\* again: every socket in use is found by the one source that it was made for, and
\* the map of the sources names no socket that is gone; at the end of
\* process_ingress, a source has a channel if and only if it has a socket.
THEOREM DeviceMaps == DSpec => []DeviceMapsAgree
  <1>1. DInit => DInv BY InitInv
  <1>2. DInv /\ [DNext]_dvars => DInv' BY NextInv
  <1>3. DInv => DeviceMapsAgree
    <2> SUFFICES ASSUME DInv PROVE DeviceMapsAgree
      OBVIOUS
    <2>1. /\ \A h \in DOMAIN socks : handle2ip[h] \in Sources /\ ip2handle[handle2ip[h]] = h
          /\ \A s \in Sources : ip2handle[s] # None => ip2handle[s] \in DOMAIN socks
      BY DEF DInv, MapsInv
    <2>2. None \notin Sources BY DeviceAssumption
    <2>3. \A h \in DOMAIN socks : handle2ip[h] # None BY <2>1, <2>2
    <2>4. ASSUME stage = "egress" PROVE \A s \in Sources : (ip2handle[s] = None) <=> (senders[s] = None)
      <3>1. newTcp = <<>> /\ \A s \in Sources : ip2handle[s] # None <=> (senders[s] # None \/ New(s))
        BY <2>4 DEF DInv, SendersInv
      <3>2. ~ \E id \in ToSet(newTcp) : TRUE BY <3>1 DEF ToSet
      <3>3. \A s \in Sources : ~New(s) BY <3>2 DEF New
      <3> QED BY <3>1, <3>3
    <2> QED BY <2>1, <2>3, <2>4 DEF DeviceMapsAgree
  <1> QED BY <1>1, <1>2, <1>3, PTL DEF DSpec

-----------------------------------------------------------------------------
(* The ping backend: counting *)

Pos(s, e) == {k \in 1 .. Len(s) : s[k] = e}

\* The module that is instantiated counts as this one does.
LEMMA SameCardinality == \A T : S!Cardinality(T) = Cardinality(T)
BY DEF S!Cardinality, Cardinality, S!IsFiniteSet, IsFiniteSet

\* How often e occurs in s.
LEMMA CountType ==
    ASSUME NEW T, NEW s \in Seq(T), NEW e
    PROVE  IsFiniteSet(Pos(s, e)) /\ S!Occurrences(s, e) = Cardinality(Pos(s, e)) /\ S!Occurrences(s, e) \in Nat
<1>1. Len(s) \in Nat
  BY LenProperties
<1>2. IsFiniteSet(1 .. Len(s)) /\ Pos(s, e) \in SUBSET (1 .. Len(s))
  BY <1>1, FS_Interval DEF Pos
<1>3. IsFiniteSet(Pos(s, e))
  BY <1>2, FS_Subset
<1> QED BY <1>3, FS_CardinalityType, SameCardinality DEF Pos, S!Occurrences

LEMMA CountEmpty ==
    ASSUME NEW e
    PROVE  S!Occurrences(<< >>, e) = 0
<1>1. Pos(<< >>, e) = {}
  BY DEF Pos
<1> QED BY <1>1, FS_EmptySet, SameCardinality DEF Pos, S!Occurrences

\* Occurrences in two queues one after the other.
LEMMA CountConcat ==
    ASSUME NEW T, NEW s \in Seq(T), NEW t \in Seq(T), NEW e
    PROVE  S!Occurrences(s \o t, e) = S!Occurrences(s, e) + S!Occurrences(t, e)
<1>1. /\ s \o t \in Seq(T) /\ Len(s \o t) = Len(s) + Len(t) /\ Len(s) \in Nat /\ Len(t) \in Nat
      /\ \A i \in 1 .. Len(s) + Len(t) : (s \o t)[i] = IF i <= Len(s) THEN s[i] ELSE t[i - Len(s)]
  BY ConcatProperties
<1> DEFINE A == Pos(s, e)
           B == Pos(t, e)
           C == {k \in Len(s) + 1 .. Len(s) + Len(t) : t[k - Len(s)] = e}
           f == [k \in B |-> k + Len(s)]
<1>2. /\ IsFiniteSet(A) /\ IsFiniteSet(B) /\ S!Occurrences(s, e) = Cardinality(A) /\ S!Occurrences(t, e) = Cardinality(B)
      /\ S!Occurrences(s \o t, e) = Cardinality(Pos(s \o t, e)) /\ Cardinality(A) \in Nat /\ Cardinality(B) \in Nat
  BY <1>1, CountType
<1>3. ExistsBijection(B, C)
  <2>1. \A k \in B : k \in 1 .. Len(t) /\ t[k] = e /\ k + Len(s) - Len(s) = k
    BY <1>1 DEF Pos
  <2>2. f \in [B -> C]
    BY <1>1, <2>1
  <2>3. \A k, l \in B : f[k] = f[l] => k = l
    BY <1>1, <2>1
  <2>4. \A z \in C : \E k \in B : f[k] = z
    <3> SUFFICES ASSUME NEW z \in C PROVE \E k \in B : f[k] = z
      OBVIOUS
    <3>1. z - Len(s) \in B /\ z - Len(s) + Len(s) = z
      BY <1>1 DEF Pos
    <3> QED BY <3>1
  <2>5. f \in Bijection(B, C)
    BY <2>2, <2>3, <2>4 DEF Bijection, Injection, Surjection, IsInjective
  <2> QED BY <2>5 DEF ExistsBijection
<1>4. IsFiniteSet(C) /\ Cardinality(C) = Cardinality(B)
  BY <1>2, <1>3, FS_Bijection
<1>5. Pos(s \o t, e) = A \cup C /\ A \cap C = {}
  <2>1. \A k \in 1 .. Len(s) + Len(t) : (s \o t)[k] = e <=> k \in A \cup C
    BY <1>1 DEF Pos
  <2>2. A \cup C \subseteq 1 .. Len(s) + Len(t) /\ A \cap C = {}
    BY <1>1 DEF Pos
  <2> QED BY <1>1, <2>1, <2>2 DEF Pos
<1>6. Cardinality(A \cup C) = Cardinality(A) + Cardinality(C)
  <2> HIDE DEF A, B, C
  <2>1. Cardinality(A \cup C) = Cardinality(A) + Cardinality(C) - Cardinality(A \cap C)
    BY <1>2, <1>4, FS_Union
  <2>2. Cardinality(A \cap C) = 0
    BY <1>5, FS_EmptySet
  <2> QED BY <2>1, <2>2, <1>2, <1>4
<1> HIDE DEF A, B, C
<1> QED BY <1>2, <1>4, <1>5, <1>6

LEMMA CountOne ==
    ASSUME NEW v, NEW e
    PROVE  S!Occurrences(<<v>>, e) = IF v = e THEN 1 ELSE 0
<1>1. Pos(<<v>>, e) = IF v = e THEN {1} ELSE {}
  BY DEF Pos
<1> QED BY <1>1, FS_EmptySet, FS_Singleton, SameCardinality DEF Pos, S!Occurrences

\* Occurrences when an element joins a queue ...
LEMMA CountAppend ==
    ASSUME NEW T, NEW s \in Seq(T), NEW v \in T, NEW e
    PROVE  S!Occurrences(Append(s, v), e) = S!Occurrences(s, e) + IF v = e THEN 1 ELSE 0
<1>1. Append(s, v) = s \o <<v>> /\ <<v>> \in Seq(T)
  OBVIOUS
<1> DEFINE o == <<v>>
<1>2. S!Occurrences(o, e) = IF v = e THEN 1 ELSE 0
  BY CountOne
<1>3. o \in Seq(T) /\ Append(s, v) = s \o o
  BY <1>1
<1> HIDE DEF o
<1>4. S!Occurrences(s \o o, e) = S!Occurrences(s, e) + S!Occurrences(o, e)
  BY <1>3, CountConcat
<1> QED BY <1>2, <1>3, <1>4

\* ... and when the first one leaves it.
LEMMA CountHead ==
    ASSUME NEW T, NEW s \in Seq(T), s # << >>, NEW e
    PROVE  S!Occurrences(s, e) = S!Occurrences(Tail(s), e) + IF Head(s) = e THEN 1 ELSE 0
<1>0. /\ Tail(s) \in Seq(T) /\ Head(s) \in T /\ Len(Tail(s)) = Len(s) - 1 /\ Len(s) \in Nat /\ Len(s) # 0
      /\ \A i \in 1 .. Len(Tail(s)) : Tail(s)[i] = s[i + 1]
  BY HeadTailProperties, EmptySeq, LenProperties
<1> DEFINE o == <<Head(s)>>
           t == Tail(s)
<1>1. o \in Seq(T) /\ Len(o) = 1 /\ o[1] = s[1]
  BY <1>0
<1>1a. t \in Seq(T)
  BY <1>0
<1> HIDE DEF o, t
<1>2. /\ o \o t \in Seq(T) /\ Len(o \o t) = Len(o) + Len(t)
      /\ \A i \in 1 .. Len(o) + Len(t) : (o \o t)[i] = IF i <= Len(o) THEN o[i] ELSE t[i - Len(o)]
  BY <1>1, <1>1a, ConcatProperties
<1>3. Len(o \o t) = Len(s) /\ Len(t) = Len(s) - 1
  BY <1>0, <1>1, <1>2 DEF t
<1>4. \A i \in 1 .. Len(s) : (o \o t)[i] = s[i]
  <2> SUFFICES ASSUME NEW i \in 1 .. Len(s) PROVE (o \o t)[i] = s[i]
    OBVIOUS
  <2>1. CASE i = 1
    BY <1>0, <1>1, <1>2, <1>3, <2>1
  <2>2. CASE i # 1
    <3>1. i - 1 \in 1 .. Len(t) /\ ~(i <= 1) /\ i - 1 + 1 = i /\ i \in 1 .. Len(o) + Len(t)
      BY <1>0, <1>1, <1>3, <2>2
    <3>2. (o \o t)[i] = t[i - 1]
      BY <1>1, <1>2, <3>1
    <3>3. t[i - 1] = s[i - 1 + 1]
      BY <1>0, <3>1 DEF t
    <3> QED BY <3>1, <3>2, <3>3
  <2> QED BY <2>1, <2>2
<1>5. s = o \o t
  BY <1>2, <1>3, <1>4, SeqEqual
<1>6. S!Occurrences(o \o t, e) = S!Occurrences(o, e) + S!Occurrences(t, e)
  BY ZenonT(60), <1>0, <1>1, CountConcat DEF t
<1>7. S!Occurrences(o, e) = IF Head(s) = e THEN 1 ELSE 0
  BY CountOne DEF o
<1>8. S!Occurrences(t, e) \in Nat
  BY <1>0, CountType DEF t
<1>9. S!Occurrences(s, e) = S!Occurrences(t, e) + IF Head(s) = e THEN 1 ELSE 0
  <2> DEFINE x == S!Occurrences(t, e)
             y == S!Occurrences(o, e)
             z == S!Occurrences(s, e)
  <2>1. x \in Nat /\ z = y + x /\ y = IF Head(s) = e THEN 1 ELSE 0
    BY <1>5, <1>6, <1>7, <1>8
  <2> HIDE DEF x, y, z
  <2>2. z = x + IF Head(s) = e THEN 1 ELSE 0
    BY <2>1
  <2> QED BY <2>2 DEF x, z
<1> QED BY <1>9 DEF t

\* A part of a sequence in two pieces.
LEMMA SplitSeq ==
    ASSUME NEW T, NEW s \in Seq(T), NEW a \in Nat, NEW m \in Nat, NEW b \in Nat,
           1 <= a, a - 1 <= m, m <= b, b <= Len(s)
    PROVE  /\ SubSeq(s, a, b) \in Seq(T) /\ SubSeq(s, a, m) \in Seq(T) /\ SubSeq(s, m + 1, b) \in Seq(T)
           /\ SubSeq(s, a, b) = SubSeq(s, a, m) \o SubSeq(s, m + 1, b)
<1>1. Len(s) \in Nat /\ \A k \in 1 .. Len(s) : s[k] \in T
  BY LenProperties, ElementOfSeq
<1> DEFINE w == SubSeq(s, a, b)
           x == SubSeq(s, a, m)
           y == SubSeq(s, m + 1, b)
<1>2. w \in Seq(T) /\ Len(w) = b - a + 1 /\ \A k \in 1 .. b - a + 1 : w[k] = s[a + k - 1]
  <2>1. \A k \in a .. b : s[k] \in T
    BY <1>1
  <2>2. /\ w \in Seq(T) /\ Len(w) = IF a <= b THEN b - a + 1 ELSE 0
        /\ \A k \in 1 .. b - a + 1 : w[k] = s[a + k - 1]
    BY <2>1, SubSeqProperties
  <2> HIDE DEF w
  <2> QED BY <2>2
<1>3. x \in Seq(T) /\ Len(x) = m - a + 1 /\ \A k \in 1 .. m - a + 1 : x[k] = s[a + k - 1]
  <2>1. \A k \in a .. m : s[k] \in T
    BY <1>1
  <2>2. /\ x \in Seq(T) /\ Len(x) = IF a <= m THEN m - a + 1 ELSE 0
        /\ \A k \in 1 .. m - a + 1 : x[k] = s[a + k - 1]
    BY <2>1, SubSeqProperties
  <2> HIDE DEF x
  <2> QED BY <2>2
<1>4. y \in Seq(T) /\ Len(y) = b - m /\ \A k \in 1 .. b - m : y[k] = s[m + k]
  <2>1. (\A k \in m + 1 .. b : s[k] \in T) /\ m + 1 \in Int /\ b \in Int
    BY <1>1
  <2>2. /\ y \in Seq(T) /\ Len(y) = IF m + 1 <= b THEN b - (m + 1) + 1 ELSE 0
        /\ \A k \in 1 .. b - (m + 1) + 1 : y[k] = s[(m + 1) + k - 1]
    BY <2>1, SubSeqProperties
  <2>3. b - (m + 1) + 1 = b - m /\ \A k \in 1 .. b - m : (m + 1) + k - 1 = m + k
    OBVIOUS
  <2> HIDE DEF y
  <2>4. Len(y) = b - m
    BY <2>2
  <2> QED BY <2>2, <2>3, <2>4
<1> HIDE DEF w, x, y
<1>5. /\ x \o y \in Seq(T) /\ Len(x \o y) = Len(x) + Len(y)
      /\ \A i \in 1 .. Len(x) + Len(y) : (x \o y)[i] = IF i <= Len(x) THEN x[i] ELSE y[i - Len(x)]
  BY <1>3, <1>4, ConcatProperties
<1>6. Len(x \o y) = Len(w) /\ Len(w) = Len(x) + Len(y)
  BY <1>2, <1>3, <1>4, <1>5
<1>7. \A k \in 1 .. Len(w) : w[k] = (x \o y)[k]
  <2> SUFFICES ASSUME NEW k \in 1 .. Len(w) PROVE w[k] = (x \o y)[k]
    OBVIOUS
  <2>1. w[k] = s[a + k - 1] /\ k \in Int /\ k \in 1 .. Len(x) + Len(y)
    BY <1>2, <1>6
  <2>2. CASE k <= Len(x)
    BY <1>3, <1>5, <2>1, <2>2
  <2>3. CASE ~(k <= Len(x))
    <3>1. k - Len(x) \in 1 .. b - m /\ m + (k - Len(x)) = a + k - 1
      BY <1>2, <1>3, <1>4, <2>3
    <3>2. (x \o y)[k] = y[k - Len(x)]
      BY <1>5, <2>1, <2>3
    <3> QED BY <1>4, <2>1, <3>1, <3>2
  <2> QED BY <2>2, <2>3
<1>8. w = x \o y
  BY <1>2, <1>5, <1>6, <1>7, SeqEqual
<1> QED BY <1>2, <1>3, <1>4, <1>8 DEF w, x, y

LEMMA CountSplit ==
    ASSUME NEW T, NEW s \in Seq(T), NEW a \in Nat, NEW m \in Nat, NEW b \in Nat,
           1 <= a, a - 1 <= m, m <= b, b <= Len(s), NEW e
    PROVE  S!Occurrences(SubSeq(s, a, b), e) = S!Occurrences(SubSeq(s, a, m), e) + S!Occurrences(SubSeq(s, m + 1, b), e)
<1>1. /\ SubSeq(s, a, b) \in Seq(T) /\ SubSeq(s, a, m) \in Seq(T) /\ SubSeq(s, m + 1, b) \in Seq(T)
      /\ SubSeq(s, a, b) = SubSeq(s, a, m) \o SubSeq(s, m + 1, b)
  BY SplitSeq
<1> DEFINE w == SubSeq(s, a, b)
           x == SubSeq(s, a, m)
           y == SubSeq(s, m + 1, b)
<1>2. x \in Seq(T) /\ y \in Seq(T) /\ w = x \o y
  BY <1>1
<1> HIDE DEF w, x, y
<1>3. S!Occurrences(w, e) = S!Occurrences(x, e) + S!Occurrences(y, e)
  BY <1>2, CountConcat
<1> QED BY <1>3 DEF w, x, y

-----------------------------------------------------------------------------
(* The loop of dispatch *)

\* What the first k turns of the loop have picked.
Turn(q, these, f, k) ==
    IF k = 0 THEN <<>> ELSE IF q[k] \in these THEN Append(f[k - 1], q[k]) ELSE f[k - 1]

\* There is a function of all the turns: otherwise there would be a first turn without.
LEMMA PickedExists ==
    ASSUME NEW q, Len(q) \in Nat, NEW these
    PROVE  \E f : f = [k \in 0 .. Len(q) |-> Turn(q, these, f, k)]
<1> DEFINE n == Len(q)
           Good(m) == \E f : f = [k \in 0 .. m |-> Turn(q, these, f, k)]
           B == {m \in 0 .. n : ~Good(m)}
<1> SUFFICES ASSUME ~Good(n) PROVE FALSE
  OBVIOUS
<1>1. B \in SUBSET Nat /\ B # {}
  <2>1. n \in 0 .. n /\ 0 .. n \subseteq Nat
    OBVIOUS
  <2> HIDE DEF Good, n
  <2> QED BY <2>1
<1>2. PICK m \in B : \A i \in B : m <= i
  <2> HIDE DEF B
  <2> QED BY <1>1, LeastNat
<1>3. m \in 0 .. n /\ ~Good(m)
  <2> HIDE DEF Good
  <2> QED OBVIOUS
<1>4. m # 0
  <2> DEFINE f == [k \in 0 .. 0 |-> <<>>]
  <2>1. \A k \in 0 .. 0 : k = 0
    OBVIOUS
  <2>2. \A k \in 0 .. 0 : Turn(q, these, f, k) = <<>>
    BY <2>1 DEF Turn
  <2>3. f = [k \in 0 .. 0 |-> Turn(q, these, f, k)]
    BY <2>2
  <2> HIDE DEF f
  <2>4. Good(0)
    BY <2>3
  <2> HIDE DEF Good
  <2> QED BY <1>3, <2>4
<1> DEFINE p == m - 1
<1>5. p \in 0 .. n /\ ~(m <= p) /\ p + 1 = m
  BY <1>3, <1>4
<1>6. /\ \A k \in 0 .. m : k = m \/ (k \in 0 .. p /\ k # m)
      /\ \A k \in 0 .. p : k \in 0 .. m /\ k # m /\ (k # 0 => k - 1 \in 0 .. p)
      /\ m \in 0 .. m /\ m - 1 \in 0 .. p
  BY <1>3, <1>4
<1>7. Good(p)
  <2>1. p \notin B
    BY <1>2, <1>5
  <2> HIDE DEF Good, p
  <2> QED BY <1>5, <2>1
<1>8. PICK g : g = [k \in 0 .. p |-> Turn(q, these, g, k)]
  BY <1>7
<1> HIDE DEF p
<1> DEFINE f == [k \in 0 .. m |-> IF k = m THEN Turn(q, these, g, m) ELSE g[k]]
<1>9. \A k \in 0 .. p : f[k] = g[k]
  BY <1>6
<1>10. \A k \in 0 .. p : g[k] = Turn(q, these, g, k)
  <2> DEFINE h == [k \in 0 .. p |-> Turn(q, these, g, k)]
  <2>1. \A k \in 0 .. p : h[k] = Turn(q, these, g, k)
    OBVIOUS
  <2>2. g = h
    BY <1>8
  <2> HIDE DEF h
  <2> QED BY <2>1, <2>2
<1>11. f = [k \in 0 .. m |-> f[k]] /\ f[m] = Turn(q, these, g, m)
  BY <1>6
<1> HIDE DEF f
<1>12. \A k \in 0 .. p : Turn(q, these, f, k) = Turn(q, these, g, k)
  <2> TAKE k \in 0 .. p
  <2>1. k # 0 => f[k - 1] = g[k - 1]
    BY <1>6, <1>9
  <2> QED BY <2>1 DEF Turn
<1>13. Turn(q, these, f, m) = Turn(q, these, g, m)
  <2>1. f[m - 1] = g[m - 1]
    BY <1>6, <1>9
  <2> QED BY <2>1 DEF Turn
<1>14. \A k \in 0 .. m : f[k] = Turn(q, these, f, k)
  <2> TAKE k \in 0 .. m
  <2>1. CASE k = m
    BY <1>11, <1>13, <2>1
  <2>2. CASE k # m
    <3>1. k \in 0 .. p
      BY <1>6, <2>2
    <3> QED BY <1>9, <1>10, <1>12, <3>1
  <2> QED BY <2>1, <2>2
<1>15. f = [k \in 0 .. m |-> Turn(q, these, f, k)]
  BY <1>11, <1>14
<1>16. Good(m)
  BY <1>15
<1> HIDE DEF Good
<1> QED BY <1>3, <1>16

\* The addresses that are picked are those of q that are in these.
LEMMA PickedCounts ==
    ASSUME NEW T, NEW q \in Seq(T), NEW these, NEW e
    PROVE  /\ S!Picked(q, these) \in Seq(T)
           /\ S!Occurrences(S!Picked(q, these), e) = IF e \in these THEN S!Occurrences(q, e) ELSE 0
<1> DEFINE n == Len(q)
<1>1. n \in Nat /\ \A k \in 1 .. n : q[k] \in T
  BY LenProperties, ElementOfSeq
<1> DEFINE f == CHOOSE f : f = [k \in 0 .. n |-> Turn(q, these, f, k)]
<1>2. S!Picked(q, these) = f[n]
  BY ZenonT(60) DEF S!Picked, Turn
<1>3. f = [k \in 0 .. n |-> Turn(q, these, f, k)]
  <2>1. \E g : g = [k \in 0 .. n |-> Turn(q, these, g, k)]
    BY <1>1, PickedExists
  <2> QED BY ZenonT(60), <2>1
<1> HIDE DEF f
<1>4. \A k \in 0 .. n : f[k] = Turn(q, these, f, k)
  <2> DEFINE h == [k \in 0 .. n |-> Turn(q, these, f, k)]
  <2>1. \A k \in 0 .. n : h[k] = Turn(q, these, f, k)
    OBVIOUS
  <2>2. f = h
    BY <1>3
  <2> HIDE DEF h
  <2> QED BY <2>1, <2>2
<1> DEFINE o(k) == S!Occurrences(SubSeq(q, 1, k), e)
           Good(k) == f[k] \in Seq(T) /\ S!Occurrences(f[k], e) = IF e \in these THEN o(k) ELSE 0
           B == {k \in 0 .. n : ~Good(k)}
<1>5. SubSeq(q, 1, n) = q
  BY <1>1
<1> SUFFICES ASSUME ~Good(n) PROVE FALSE
  BY <1>2, <1>5
<1>6. B \in SUBSET Nat /\ B # {}
  <2>1. n \in 0 .. n /\ 0 .. n \subseteq Nat
    BY <1>1
  <2> HIDE DEF Good, n
  <2> QED BY <2>1
<1>7. PICK m \in B : \A i \in B : m <= i
  <2> HIDE DEF B
  <2> QED BY <1>6, LeastNat
<1>8. m \in 0 .. n /\ ~Good(m)
  <2> HIDE DEF Good
  <2> QED OBVIOUS
<1>9. m # 0
  <2>1. 0 \in 0 .. n
    BY <1>1
  <2>2. f[0] = <<>>
    BY <1>4, <2>1 DEF Turn
  <2>3. SubSeq(q, 1, 0) = <<>>
    OBVIOUS
  <2>4. S!Occurrences(<<>>, e) = 0 /\ <<>> \in Seq(T)
    BY CountEmpty
  <2>5. o(0) = 0 /\ S!Occurrences(f[0], e) = 0 /\ f[0] \in Seq(T)
    BY ZenonT(60), <2>2, <2>3, <2>4
  <2> HIDE DEF o
  <2>6. Good(0)
    BY <2>5
  <2> HIDE DEF Good
  <2> QED BY <1>8, <2>6
<1> DEFINE p == m - 1
           v == q[m]
           x == SubSeq(q, 1, p)
<1>10. p \in 0 .. n /\ ~(m <= p) /\ p \in Nat /\ m \in Nat /\ p + 1 = m /\ p <= m /\ m <= n /\ m \in 1 .. n /\ v \in T
  BY <1>1, <1>8, <1>9
<1>11. Good(p)
  <2>1. p \notin B
    BY <1>7, <1>10
  <2> HIDE DEF Good, p
  <2> QED BY <1>10, <2>1
<1>12. x \in Seq(T) /\ SubSeq(q, 1, m) = Append(x, v)
  <2>1. /\ SubSeq(q, 1, m) \in Seq(T) /\ SubSeq(q, 1, p) \in Seq(T) /\ SubSeq(q, p + 1, m) \in Seq(T)
        /\ SubSeq(q, 1, m) = SubSeq(q, 1, p) \o SubSeq(q, p + 1, m)
    <3> HIDE DEF p
    <3>1. 1 \in Nat /\ 1 <= 1 /\ 1 - 1 <= p
      BY <1>10
    <3> QED BY <1>10, <3>1, SplitSeq
  <2>2. SubSeq(q, m, m) = <<v>>
    <3> DEFINE y == SubSeq(q, m, m)
    <3>1. m \in Int /\ (\A k \in m .. m : q[k] \in T) /\ m <= m /\ m - m + 1 = 1 /\ m + 1 - 1 = m
      BY <1>1, <1>10
    <3>2. /\ y \in Seq(T) /\ Len(y) = IF m <= m THEN m - m + 1 ELSE 0
          /\ \A k \in 1 .. m - m + 1 : y[k] = q[m + k - 1]
      BY <3>1, SubSeqProperties
    <3> HIDE DEF y
    <3>3. Len(y) = 1 /\ y[1] = q[m]
      BY <3>1, <3>2
    <3>4. y = <<v>>
      BY <3>2, <3>3
    <3> QED BY <3>4 DEF y
  <2> QED BY <1>10, <2>1, <2>2
<1>13. f[m] = IF v \in these THEN Append(f[p], v) ELSE f[p]
  BY <1>4, <1>8, <1>9 DEF Turn
<1>14. o(m) = o(p) + IF v = e THEN 1 ELSE 0
  <2> HIDE DEF x, v
  <2>1. S!Occurrences(Append(x, v), e) = S!Occurrences(x, e) + IF v = e THEN 1 ELSE 0
    BY <1>10, <1>12, CountAppend
  <2> QED BY <1>12, <2>1 DEF x
<1>15. S!Occurrences(f[p], e) \in Nat /\ o(p) \in Nat
  BY <1>11, <1>12, CountType
<1>16. CASE v \in these
  <2> DEFINE y == f[p]
  <2>1. y \in Seq(T) /\ S!Occurrences(y, e) = IF e \in these THEN o(p) ELSE 0
    BY <1>11
  <2>2. f[m] = Append(y, v)
    BY <1>13, <1>16
  <2> HIDE DEF y, v, o
  <2>3. S!Occurrences(Append(y, v), e) = S!Occurrences(y, e) + IF v = e THEN 1 ELSE 0
    BY <1>10, <2>1, CountAppend
  <2>4. Append(y, v) \in Seq(T)
    BY <1>10, <2>1
  <2>5. Good(m)
    BY <1>14, <1>15, <1>16, <2>1, <2>2, <2>3, <2>4
  <2> QED BY <1>8, <2>5
<1>17. CASE v \notin these
  <2>1. f[m] = f[p] /\ (e \in these => v # e)
    BY <1>13, <1>17
  <2> HIDE DEF v, o
  <2>2. Good(m)
    BY <1>11, <1>14, <1>15, <2>1
  <2> QED BY <1>8, <2>2
<1> QED BY <1>16, <1>17

-----------------------------------------------------------------------------
(* The ping backend: the invariant *)

\* Both ends of the connection are open.
Both(s) == s.backend = "Established" /\ s.proxy = "Established"

\* The buffers, with the requests q of the client: none is parsed before it is sent.
Fine(s, q) == s \in S!ConnState /\ Len(s.out) <= SessLimit /\ s.parsed <= Len(q)

\* Every parsed request is in one place, with the checks k under way and the answers g read.
Places(s, k, g, i) ==
    S!Occurrences(s.queue, i) + k[i] + S!Occurrences(s.results, i)
        + S!Occurrences(s.sendBuffer, i) + S!Occurrences(s.out, i) + S!Occurrences(g, i)
Balanced(s, q, k, g) ==
    Both(s) => \A i \in Ips : S!Occurrences(SubSeq(q, 1, s.parsed), i) = Places(s, k, g, i)

\* The check thread in state r has ended or will read that it has to.
HasStop(q) == \E k \in 1 .. Len(q) : q[k] = "stop"
Told(s, r) == S!IsShutdown(s.backend) => r \notin {"start", "run"} \/ HasStop(s.queue)

Good(s) == Fine(s, asked) /\ Balanced(s, asked, checks, got) /\ Told(s, routine)

Around ==
    /\ asked \in Seq(S!Request) /\ cend \in {"open", "fin", "rst"}
    /\ edge \in BOOLEAN /\ turn \in {"poll", "end"} /\ gone \in BOOLEAN
    /\ routine \in {"start", "run", "stopped", "dead"}
    /\ checks \in [Ips -> Nat] /\ got \in Seq(Ips)

\* A connection that is removed is closed, so that a result may be lost with it.
PInv == Good(c) /\ Around /\ (gone => ~Both(c))

-----------------------------------------------------------------------------
(* The statuses *)

LEMMA Statuses ==
    ASSUME NEW st \in S!Status, NEW b \in BOOLEAN
    PROVE  /\ S!Shutdown(st) \in S!Status /\ S!Shutdown(st) # "Established" /\ S!IsShutdown(S!Shutdown(st))
           /\ S!PeerClosed(st) \in S!Status /\ S!PeerClosed(st) # "Established"
           /\ S!IsShutdown(S!PeerClosed(st)) => S!IsShutdown(st)
           /\ S!CheckStatus(st, b) \in S!Status /\ (S!CheckStatus(st, b) = "Established" => st = "Established")
           /\ S!IsShutdown(S!CheckStatus(st, FALSE)) => S!IsShutdown(st)
BY DEF S!Status, S!Shutdown, S!PeerClosed, S!CheckStatus, S!IsShutdown

LEMMA Fields ==
    ASSUME NEW s \in S!ConnState
    PROVE  /\ s.proxy \in S!Status /\ s.backend \in S!Status /\ s.cin \in Nat /\ s.recv \in Nat /\ s.parsed \in Nat
           /\ s.sendBuffer \in Seq(Ips) /\ s.out \in Seq(Ips) /\ s.queue \in Seq(Ips \cup {"stop"})
           /\ s.results \in Seq(Ips) /\ s.fresh \in SUBSET Ips
BY DEF S!ConnState

\* A closer status of the endpoint.
LEMMA ProxyMoves ==
    ASSUME NEW s, Good(s), NEW st \in S!Status, st = "Established" => s.proxy = "Established"
    PROVE  Good([s EXCEPT !.proxy = st])
<1> DEFINE t == [s EXCEPT !.proxy = st]
<1>1. s \in S!ConnState
  BY DEF Good, Fine
<1>2. /\ t \in S!ConnState /\ t.proxy = st /\ t.backend = s.backend /\ t.parsed = s.parsed
      /\ t.sendBuffer = s.sendBuffer /\ t.out = s.out /\ t.queue = s.queue /\ t.results = s.results
  BY <1>1 DEF S!ConnState
<1> HIDE DEF t
<1>3. Both(t) => Both(s)
  BY <1>2 DEF Both
<1>4. \A i : Places(t, checks, got, i) = Places(s, checks, got, i)
  BY <1>2 DEF Places
<1>5. Good(t)
  BY <1>2, <1>3, <1>4 DEF Good, Fine, Balanced, Told
<1> QED BY <1>5 DEF t

\* A closer status of the backend, other than shut down.
LEMMA BackendMoves ==
    ASSUME NEW s, Good(s), NEW st \in S!Status, st = "Established" => s.backend = "Established",
           S!IsShutdown(st) => S!IsShutdown(s.backend)
    PROVE  Good([s EXCEPT !.backend = st])
<1> DEFINE t == [s EXCEPT !.backend = st]
<1>1. s \in S!ConnState
  BY DEF Good, Fine
<1>2. /\ t \in S!ConnState /\ t.backend = st /\ t.proxy = s.proxy /\ t.parsed = s.parsed
      /\ t.sendBuffer = s.sendBuffer /\ t.out = s.out /\ t.queue = s.queue /\ t.results = s.results
  BY <1>1 DEF S!ConnState
<1> HIDE DEF t
<1>3. (Both(t) => Both(s)) /\ (S!IsShutdown(t.backend) => S!IsShutdown(s.backend))
  BY <1>2 DEF Both
<1>4. \A i : Places(t, checks, got, i) = Places(s, checks, got, i)
  BY <1>2 DEF Places
<1>5. Good(t)
  BY <1>2, <1>3, <1>4 DEF Good, Fine, Balanced, Told
<1> QED BY <1>5 DEF t

\* set_status(Shutdown) tells the thread; nothing is accounted for any more.
LEMMA ShutdownTells ==
    ASSUME NEW s, Fine(s, asked)
    PROVE  Good(S!SetShutdown(s)) /\ ~Both(S!SetShutdown(s))
<1> DEFINE q == IF S!Listening THEN Append(s.queue, "stop") ELSE s.queue
           t == [s EXCEPT !.backend = "Shutdown", !.queue = q]
<1>1. s \in S!ConnState /\ s.queue \in Seq(Ips \cup {"stop"})
  BY Fields DEF Fine
<1>2. q \in Seq(Ips \cup {"stop"}) /\ (S!Listening => HasStop(q))
  <2>1. CASE S!Listening
    <3>1. q = Append(s.queue, "stop")
      BY <2>1
    <3>2. Append(s.queue, "stop") \in Seq(Ips \cup {"stop"}) /\ Len(Append(s.queue, "stop")) = Len(s.queue) + 1
          /\ Append(s.queue, "stop")[Len(s.queue) + 1] = "stop" /\ Len(s.queue) \in Nat
      BY <1>1, AppendProperties
    <3> QED BY <3>1, <3>2 DEF HasStop
  <2>2. CASE ~S!Listening
    BY <1>1, <2>2
  <2> QED BY <2>1, <2>2
<1>3. S!SetShutdown(s) = t
  BY DEF S!SetShutdown
<1> HIDE DEF q
<1>4. /\ t \in S!ConnState /\ t.backend = "Shutdown" /\ t.out = s.out /\ t.parsed = s.parsed /\ t.queue = q
  BY <1>1, <1>2 DEF S!ConnState, S!Status
<1> HIDE DEF t
<1>5. Good(t) /\ ~Both(t)
  BY <1>2, <1>4 DEF Good, Fine, Balanced, Both, Told, S!Listening
<1> QED BY <1>3, <1>5

LEMMA ShutdownTold ==
    ASSUME NEW s, Good(s)
    PROVE  Good(S!ShutdownBackend(s))
BY ShutdownTells DEF Good, S!ShutdownBackend

-----------------------------------------------------------------------------
(* dispatch *)

\* What dispatch leaves when it has taken the requests up to the one numbered last.
Taken(s, n, last) ==
    LET new == SubSeq(asked, s.parsed + 1, last)
    IN [s EXCEPT !.recv = (2 * s.parsed + s.recv + n) - 2 * last, !.parsed = last,
                 !.sendBuffer = @ \o S!Picked(new, s.fresh),
                 !.queue = @ \o S!Picked(new, Ips \ s.fresh)]

\* The valid requests are the first ones, however many pieces of the next have come.
LEMMA DispatchTakes ==
    ASSUME NEW s, Fine(s, asked), NEW n \in Nat, asked \in Seq(S!Request)
    PROVE  \E last \in Nat :
             /\ s.parsed <= last /\ last <= Len(asked) /\ 2 * last <= 2 * s.parsed + s.recv + n
             /\ \A k \in s.parsed + 1 .. last : asked[k] \in Ips
             /\ S!Dispatch(s, n) \in {Taken(s, n, last), S!ShutdownBackend(Taken(s, n, last))}
<1> DEFINE p == s.parsed
           L == Len(asked)
           have == 2 * s.parsed + s.recv + n
           whole == { i \in s.parsed + 1 .. Len(asked) : S!Needed(i) <= have }
           usable(i) == asked[i] \in Ips /\ (S!Listening \/ asked[i] \in s.fresh)
           valid == { i \in whole : \A j \in s.parsed + 1 .. i : usable(j) }
           last == s.parsed + S!Cardinality(valid)
           N == { k \in p + 1 .. L + 1 : k \notin valid }
<1>1. p \in Nat /\ s.recv \in Nat /\ L \in Nat /\ p <= L /\ have \in Nat /\ p + s.recv >= p /\ 2 * p <= have
  BY Fields, LenProperties DEF Fine
<1>2. \A i \in valid : i \in p + 1 .. L /\ asked[i] \in Ips /\ 2 * i <= have
  <2> SUFFICES ASSUME NEW i \in valid PROVE i \in p + 1 .. L /\ asked[i] \in Ips /\ 2 * i <= have
    OBVIOUS
  <2>1. i \in p + 1 .. L /\ S!Needed(i) <= have /\ \A j \in p + 1 .. i : usable(j)
    OBVIOUS
  <2>2. i \in p + 1 .. i
    BY <1>1, <2>1
  <2>3. asked[i] \in Ips
    BY <2>1, <2>2
  <2>4. asked[i] # "badType"
    BY <2>3, BoundsAssumption
  <2>5. S!Needed(i) = 2 * i
    BY <2>4 DEF S!Needed
  <2> QED BY <2>1, <2>3, <2>5
<1>3. \A i \in valid, j \in p + 1 .. L : j <= i => j \in valid
  <2> SUFFICES ASSUME NEW i \in valid, NEW j \in p + 1 .. L, j <= i PROVE j \in valid
    OBVIOUS
  <2>1. i \in p + 1 .. L /\ \A k \in p + 1 .. i : usable(k)
    OBVIOUS
  <2>2. j \in p + 1 .. i /\ \A k \in p + 1 .. j : k \in p + 1 .. i
    BY <1>1, <2>1
  <2>3. \A k \in p + 1 .. j : usable(k)
    BY <2>1, <2>2
  <2>4. asked[j] \in Ips
    BY <2>1, <2>2
  <2>5. asked[j] # "badType"
    BY <2>4, BoundsAssumption
  <2>6. S!Needed(j) = 2 * j
    BY <2>5 DEF S!Needed
  <2>7. 2 * i <= have
    BY <1>2
  <2>8. S!Needed(j) <= have
    <3> HIDE DEF have
    <3> QED BY <1>1, <2>1, <2>6, <2>7
  <2>9. j \in whole
    BY <2>8
  <2> HIDE DEF usable, whole
  <2> QED BY <2>3, <2>9
<1> HIDE DEF valid
<1>4. N \in SUBSET Nat /\ L + 1 \in N
  BY <1>1, <1>2
<1>5. PICK m \in N : \A k \in N : m <= k
  <2> HIDE DEF N
  <2> QED BY <1>4, LeastNat
<1>6. m \in p + 1 .. L + 1 /\ m \notin valid
  OBVIOUS
<1>7. valid = p + 1 .. m - 1
  <2>1. \A i \in p + 1 .. m - 1 : i \in valid
    BY <1>1, <1>5, <1>6
  <2>2. \A i \in valid : i \in p + 1 .. m - 1
    <3> TAKE i \in valid
    <3>1. i \in p + 1 .. L
      BY <1>2
    <3>2. ~(m <= i)
      BY <1>1, <1>3, <1>6, <3>1
    <3> QED BY <1>1, <1>6, <3>1, <3>2
  <2> QED BY <2>1, <2>2
<1>8. last = m - 1
  <2>1. p + 1 \in Int /\ m - 1 \in Int
    BY <1>1, <1>6
  <2>2. Cardinality(p + 1 .. m - 1) = IF p + 1 > m - 1 THEN 0 ELSE m - 1 - (p + 1) + 1
    BY <2>1, FS_Interval
  <2>3. Cardinality(valid) = m - 1 - p
    <3> DEFINE z == Cardinality(valid)
    <3>1. z = IF p + 1 > m - 1 THEN 0 ELSE m - 1 - (p + 1) + 1
      BY ZenonT(60), <1>7, <2>2
    <3>2. p \in Int /\ m \in Int /\ p + 1 <= m
      BY <1>1, <1>6
    <3> HIDE DEF z, p
    <3>3. z = m - 1 - p
      BY <3>1, <3>2
    <3> QED BY <3>3 DEF z
  <2> QED BY <1>1, <1>6, <2>3, SameCardinality
<1>9. last \in Nat /\ p <= last /\ last <= L /\ 2 * last <= have
  <2>1. m - 1 \in Nat /\ p <= m - 1 /\ m - 1 <= L
    BY <1>1, <1>6
  <2>2. 2 * (m - 1) <= have
    <3>1. CASE m - 1 = p
      BY <1>1, <3>1
    <3>2. CASE m - 1 # p
      <4>1. m - 1 \in valid
        BY <1>1, <1>6, <1>7, <3>2
      <4> QED BY <1>2, <4>1
    <3> QED BY <3>1, <3>2
  <2> HIDE DEF last, have
  <2> QED BY <1>8, <2>1, <2>2
<1>10. \A k \in p + 1 .. last : asked[k] \in Ips
  <2> HIDE DEF last
  <2> QED BY <1>2, <1>7, <1>8
<1>11. S!Dispatch(s, n) = IF whole # valid THEN S!ShutdownBackend(Taken(s, n, last)) ELSE Taken(s, n, last)
  BY ZenonT(60) DEF S!Dispatch, Taken, valid
<1> HIDE DEF last, whole
<1>12. S!Dispatch(s, n) \in {Taken(s, n, last), S!ShutdownBackend(Taken(s, n, last))}
  BY <1>11
<1> QED BY <1>9, <1>10, <1>12

\* The stop request stays in the channel when requests follow it.
LEMMA StopStays ==
    ASSUME NEW T, NEW q \in Seq(T), NEW r \in Seq(T), HasStop(q)
    PROVE  HasStop(q \o r)
<1>1. PICK k \in 1 .. Len(q) : q[k] = "stop"
  BY DEF HasStop
<1>2. Len(q) \in Nat /\ Len(r) \in Nat /\ Len(q \o r) = Len(q) + Len(r)
      /\ \A i \in 1 .. Len(q) + Len(r) : (q \o r)[i] = IF i <= Len(q) THEN q[i] ELSE r[i - Len(q)]
  BY ConcatProperties, LenProperties
<1>3. k \in 1 .. Len(q \o r) /\ (q \o r)[k] = "stop"
  BY <1>1, <1>2
<1> QED BY <1>3 DEF HasStop

\* The same for addresses, quantified.
LEMMA PickedIps ==
    \A q \in Seq(Ips) : \A these, i :
        /\ S!Picked(q, these) \in Seq(Ips)
        /\ S!Occurrences(S!Picked(q, these), i) = IF i \in these THEN S!Occurrences(q, i) ELSE 0
BY ZenonT(60), PickedCounts

\* Every new request is answered from the cache or handed to the thread, never both.
LEMMA TakenGood ==
    ASSUME NEW s, Good(s), Around, NEW n \in Nat, NEW last \in Nat,
           s.parsed <= last, last <= Len(asked), 2 * last <= 2 * s.parsed + s.recv + n,
           \A k \in s.parsed + 1 .. last : asked[k] \in Ips
    PROVE  Good(Taken(s, n, last)) /\ Taken(s, n, last).backend = s.backend
<1> DEFINE new == SubSeq(asked, s.parsed + 1, last)
           a == S!Picked(new, s.fresh)
           b == S!Picked(new, Ips \ s.fresh)
           rest == (2 * s.parsed + s.recv + n) - 2 * last
           u == s.sendBuffer \o a
           w == s.queue \o b
           t == [s EXCEPT !.recv = rest, !.parsed = last, !.sendBuffer = u, !.queue = w]
<1>1. s \in S!ConnState /\ asked \in Seq(S!Request) /\ checks \in [Ips -> Nat] /\ got \in Seq(Ips)
      /\ Len(s.out) <= SessLimit
  BY DEF Good, Fine, Around
<1>2. /\ s.recv \in Nat /\ s.parsed \in Nat /\ s.sendBuffer \in Seq(Ips) /\ s.out \in Seq(Ips)
      /\ s.queue \in Seq(Ips \cup {"stop"}) /\ s.results \in Seq(Ips) /\ s.fresh \in SUBSET Ips
  BY <1>1, Fields
<1>3. new \in Seq(Ips)
  <2>1. s.parsed + 1 \in Int /\ last \in Int
    BY <1>2
  <2> QED BY <2>1, SubSeqProperties
<1>4. /\ a \in Seq(Ips) /\ b \in Seq(Ips)
      /\ \A i \in Ips : S!Occurrences(a, i) = IF i \in s.fresh THEN S!Occurrences(new, i) ELSE 0
      /\ \A i \in Ips : S!Occurrences(b, i) = IF i \in Ips \ s.fresh THEN S!Occurrences(new, i) ELSE 0
  <2> HIDE DEF new
  <2>1. ASSUME NEW these, NEW i
        PROVE  /\ S!Picked(new, these) \in Seq(Ips)
               /\ S!Occurrences(S!Picked(new, these), i) = IF i \in these THEN S!Occurrences(new, i) ELSE 0
    BY ZenonT(60), <1>3, PickedIps
  <2> QED BY ZenonT(60), <2>1
<1>5. rest \in Nat
  BY <1>2
<1>6. Taken(s, n, last) = t
  BY ZenonT(60) DEF Taken
<1> HIDE DEF new, a, b
<1>7. Seq(Ips) \subseteq Seq(Ips \cup {"stop"})
  OBVIOUS
<1>8. u \in Seq(Ips) /\ w \in Seq(Ips \cup {"stop"})
  BY <1>2, <1>4, <1>7, ConcatProperties
<1>9. \A i \in Ips : /\ S!Occurrences(u, i) = S!Occurrences(s.sendBuffer, i) + S!Occurrences(a, i)
                     /\ S!Occurrences(w, i) = S!Occurrences(s.queue, i) + S!Occurrences(b, i)
                     /\ S!Occurrences(s.sendBuffer, i) \in Nat /\ S!Occurrences(s.queue, i) \in Nat
                     /\ S!Occurrences(s.results, i) \in Nat /\ S!Occurrences(s.out, i) \in Nat
                     /\ S!Occurrences(got, i) \in Nat /\ S!Occurrences(new, i) \in Nat
  <2> SUFFICES ASSUME NEW i \in Ips
               PROVE  /\ S!Occurrences(u, i) = S!Occurrences(s.sendBuffer, i) + S!Occurrences(a, i)
                      /\ S!Occurrences(w, i) = S!Occurrences(s.queue, i) + S!Occurrences(b, i)
                      /\ S!Occurrences(s.sendBuffer, i) \in Nat /\ S!Occurrences(s.queue, i) \in Nat
                      /\ S!Occurrences(s.results, i) \in Nat /\ S!Occurrences(s.out, i) \in Nat
                      /\ S!Occurrences(got, i) \in Nat /\ S!Occurrences(new, i) \in Nat
    OBVIOUS
  <2>1. S!Occurrences(u, i) = S!Occurrences(s.sendBuffer, i) + S!Occurrences(a, i)
    BY <1>2, <1>4, CountConcat
  <2>2. b \in Seq(Ips \cup {"stop"})
    BY <1>4, <1>7
  <2>3. S!Occurrences(w, i) = S!Occurrences(s.queue, i) + S!Occurrences(b, i)
    BY <1>2, <2>2, CountConcat
  <2>4. S!Occurrences(s.sendBuffer, i) \in Nat /\ S!Occurrences(s.results, i) \in Nat /\ S!Occurrences(s.out, i) \in Nat
    BY <1>2, CountType
  <2>5. S!Occurrences(s.queue, i) \in Nat
    BY <1>2, CountType
  <2>6. S!Occurrences(got, i) \in Nat /\ S!Occurrences(new, i) \in Nat
    BY <1>1, <1>3, CountType
  <2> QED BY <2>1, <2>3, <2>4, <2>5, <2>6
<1>10. \A i : S!Occurrences(SubSeq(asked, 1, last), i)
                = S!Occurrences(SubSeq(asked, 1, s.parsed), i) + S!Occurrences(new, i)
  <2>1. 1 \in Nat /\ 1 <= 1 /\ 1 - 1 <= s.parsed
    BY <1>2
  <2> QED BY <1>1, <1>2, <2>1, CountSplit DEF new
<1>11. HasStop(s.queue) => HasStop(w)
  <2>1. b \in Seq(Ips \cup {"stop"})
    BY <1>4, <1>7
  <2> QED BY <1>2, <2>1, StopStays
<1> HIDE DEF u, w, rest
<1>12. /\ t \in S!ConnState /\ t.parsed = last /\ t.sendBuffer = u /\ t.queue = w /\ t.out = s.out
       /\ t.results = s.results /\ t.proxy = s.proxy /\ t.backend = s.backend
  BY <1>1, <1>5, <1>8 DEF S!ConnState
<1> HIDE DEF t
<1>13. Fine(t, asked) /\ Told(t, routine)
  BY <1>1, <1>11, <1>12 DEF Good, Fine, Told
<1>14. ASSUME Both(t), NEW i \in Ips
       PROVE  S!Occurrences(SubSeq(asked, 1, t.parsed), i) = Places(t, checks, got, i)
  <2>1. Both(s)
    BY <1>12, <1>14 DEF Both
  <2>2. S!Occurrences(SubSeq(asked, 1, s.parsed), i) = Places(s, checks, got, i)
    BY <2>1 DEF Good, Balanced
  <2>3. checks[i] \in Nat
    BY <1>1
  <2>4. Places(t, checks, got, i) = Places(s, checks, got, i) + S!Occurrences(new, i)
    <3>1. S!Occurrences(a, i) + S!Occurrences(b, i) = S!Occurrences(new, i) /\ S!Occurrences(a, i) \in Nat /\ S!Occurrences(b, i) \in Nat
      <4>1. CASE i \in s.fresh
        <5>1. i \notin Ips \ s.fresh
          BY <4>1
        <5>2. S!Occurrences(a, i) = S!Occurrences(new, i) /\ S!Occurrences(b, i) = 0
          BY ZenonT(60), <1>4, <4>1, <5>1
        <5> QED BY <1>9, <5>2
      <4>2. CASE i \notin s.fresh
        <5>1. i \in Ips \ s.fresh
          BY <4>2
        <5>2. S!Occurrences(a, i) = 0 /\ S!Occurrences(b, i) = S!Occurrences(new, i)
          BY ZenonT(60), <1>4, <4>2, <5>1
        <5> QED BY <1>9, <5>2
      <4> QED BY <4>1, <4>2
    <3> DEFINE oq == S!Occurrences(s.queue, i)
               os == S!Occurrences(s.sendBuffer, i)
               oo == S!Occurrences(s.out, i)
               or == S!Occurrences(s.results, i)
               og == S!Occurrences(got, i)
               k == checks[i]
               oa == S!Occurrences(a, i)
               ob == S!Occurrences(b, i)
               on == S!Occurrences(new, i)
    <3>2. Places(t, checks, got, i) = (oq + ob) + k + or + (os + oa) + oo + og
      BY <1>9, <1>12 DEF Places
    <3>3. Places(s, checks, got, i) = oq + k + or + os + oo + og
      BY DEF Places
    <3>4. /\ oq \in Nat /\ os \in Nat /\ oo \in Nat /\ or \in Nat /\ og \in Nat /\ k \in Nat
          /\ oa \in Nat /\ ob \in Nat /\ oa + ob = on
      BY <1>9, <2>3, <3>1
    <3> HIDE DEF oq, os, oo, or, og, k, oa, ob, on
    <3>5. Places(t, checks, got, i) = Places(s, checks, got, i) + on
      BY <3>2, <3>3, <3>4
    <3> QED BY <3>5 DEF on
  <2> QED BY <1>10, <1>12, <2>2, <2>4
<1>15. Good(t)
  BY <1>13, <1>14 DEF Good, Balanced
<1> QED BY <1>6, <1>12, <1>15

\* dispatch keeps the account, whichever request stops it.
LEMMA DispatchGood ==
    ASSUME NEW s, Good(s), Around, NEW n \in Nat
    PROVE  Good(S!Dispatch(s, n))
<1>1. PICK last \in Nat :
             /\ s.parsed <= last /\ last <= Len(asked) /\ 2 * last <= 2 * s.parsed + s.recv + n
             /\ \A k \in s.parsed + 1 .. last : asked[k] \in Ips
             /\ S!Dispatch(s, n) \in {Taken(s, n, last), S!ShutdownBackend(Taken(s, n, last))}
  BY DispatchTakes DEF Good, Around
<1>2. Good(Taken(s, n, last))
  BY <1>1, TakenGood
<1>3. Good(S!ShutdownBackend(Taken(s, n, last)))
  BY <1>2, ShutdownTold
<1> QED BY <1>1, <1>2, <1>3

-----------------------------------------------------------------------------
(* do_read *)

\* do_send of the endpoint only changes its status.
LEMMA DoSendGood ==
    ASSUME NEW s, Good(s)
    PROVE  Good(S!DoSend(s))
<1>1. s.proxy \in S!Status
  BY Fields DEF Good, Fine
<1>2. S!Shutdown(s.proxy) \in S!Status /\ S!Shutdown(s.proxy) # "Established"
  BY <1>1, Statuses
<1>3. Good([s EXCEPT !.proxy = S!Shutdown(s.proxy)])
  BY <1>2, ProxyMoves
<1> QED BY <1>3 DEF S!DoSend

\* The results move from the channel to the send buffer.
LEMMA CollectGood ==
    ASSUME NEW s, Good(s), Around
    PROVE  Good(S!Collect(s))
<1> DEFINE u == s.sendBuffer \o s.results
           f == s.fresh \cup { s.results[i] : i \in 1 .. Len(s.results) }
           e == <<>>
           t == [s EXCEPT !.sendBuffer = u, !.results = e, !.fresh = f]
<1>1. s \in S!ConnState /\ checks \in [Ips -> Nat] /\ got \in Seq(Ips)
  BY DEF Good, Fine, Around
<1>2. /\ s.sendBuffer \in Seq(Ips) /\ s.out \in Seq(Ips)
      /\ s.queue \in Seq(Ips \cup {"stop"}) /\ s.results \in Seq(Ips) /\ s.fresh \in SUBSET Ips
  BY <1>1, Fields
<1>3. u \in Seq(Ips) /\ f \in SUBSET Ips /\ e \in Seq(Ips)
  BY <1>2
<1>4. \A i : S!Occurrences(u, i) = S!Occurrences(s.sendBuffer, i) + S!Occurrences(s.results, i)
  BY <1>2, CountConcat
<1>5. S!Collect(s) = t
  BY DEF S!Collect
<1> HIDE DEF u, f, e
<1>6. /\ t \in S!ConnState /\ t.parsed = s.parsed /\ t.sendBuffer = u /\ t.queue = s.queue /\ t.out = s.out
      /\ t.results = e /\ t.proxy = s.proxy /\ t.backend = s.backend
  BY <1>1, <1>3 DEF S!ConnState
<1> HIDE DEF t
<1>7. \A i \in Ips : Places(t, checks, got, i) = Places(s, checks, got, i)
  <2> TAKE i \in Ips
  <2>1. S!Occurrences(s.sendBuffer, i) \in Nat /\ S!Occurrences(s.results, i) \in Nat /\ S!Occurrences(s.out, i) \in Nat
    BY <1>2, CountType
  <2>2. S!Occurrences(s.queue, i) \in Nat
    BY <1>2, CountType
  <2>3. S!Occurrences(got, i) \in Nat /\ checks[i] \in Nat /\ S!Occurrences(t.results, i) = 0
    BY <1>1, <1>6, CountType, CountEmpty DEF e
  <2> QED BY <1>4, <1>6, <2>1, <2>2, <2>3 DEF Places
<1>8. Good(t)
  BY <1>6, <1>7 DEF Good, Fine, Balanced, Told, Both
<1> QED BY <1>5, <1>8

\* The send buffer goes to the session in one piece, or the connection is given up.
LEMMA DoReadGood ==
    ASSUME NEW s, Good(s), Around
    PROVE  Good(S!DoRead(s))
<1> DEFINE t == S!Collect(s)
           v == t.out \o t.sendBuffer
           e == <<>>
           p == S!Shutdown(t.proxy)
           x == [t EXCEPT !.sendBuffer = e, !.proxy = p, !.backend = "PeerClosed"]
           y == [t EXCEPT !.out = v, !.sendBuffer = e]
<1>1. Good(t)
  BY CollectGood
<1> HIDE DEF t
<1>2. t \in S!ConnState /\ checks \in [Ips -> Nat] /\ got \in Seq(Ips) /\ Len(t.out) <= SessLimit
  BY <1>1 DEF Good, Fine, Around
<1>3. /\ t.sendBuffer \in Seq(Ips) /\ t.out \in Seq(Ips) /\ t.proxy \in S!Status
      /\ t.queue \in Seq(Ips \cup {"stop"}) /\ t.results \in Seq(Ips)
  BY <1>2, Fields
<1>3a. e \in Seq(Ips)
  OBVIOUS
<1>4. Good(x)
  <2>1. p \in S!Status /\ "PeerClosed" \in S!Status /\ ~S!IsShutdown("PeerClosed")
    BY <1>3, Statuses DEF S!Status, S!IsShutdown
  <2> HIDE DEF p, e
  <2>2. x \in S!ConnState /\ x.out = t.out /\ x.parsed = t.parsed /\ x.backend = "PeerClosed"
    BY <1>2, <1>3a, <2>1 DEF S!ConnState
  <2> HIDE DEF x
  <2> QED BY <1>1, <2>1, <2>2 DEF Good, Fine, Balanced, Told, Both
<1>5. ASSUME Len(t.out) + Len(t.sendBuffer) <= SessLimit
      PROVE  Good(y)
  <2>1. v \in Seq(Ips) /\ Len(v) = Len(t.out) + Len(t.sendBuffer)
    BY <1>3, ConcatProperties
  <2>2. \A i : S!Occurrences(v, i) = S!Occurrences(t.out, i) + S!Occurrences(t.sendBuffer, i)
    BY <1>3, CountConcat
  <2> HIDE DEF v, e
  <2>3. /\ y \in S!ConnState /\ y.parsed = t.parsed /\ y.sendBuffer = e /\ y.queue = t.queue /\ y.out = v
        /\ y.results = t.results /\ y.proxy = t.proxy /\ y.backend = t.backend
    BY <1>2, <1>3a, <2>1 DEF S!ConnState
  <2> HIDE DEF y
  <2>4. \A i \in Ips : Places(y, checks, got, i) = Places(t, checks, got, i)
    <3> TAKE i \in Ips
    <3>1. S!Occurrences(t.sendBuffer, i) \in Nat /\ S!Occurrences(t.results, i) \in Nat /\ S!Occurrences(t.out, i) \in Nat
      BY <1>3, CountType
    <3>2. S!Occurrences(t.queue, i) \in Nat
      BY <1>3, CountType
    <3>3. S!Occurrences(got, i) \in Nat /\ checks[i] \in Nat /\ S!Occurrences(y.sendBuffer, i) = 0
      BY <1>2, <2>3, CountType, CountEmpty DEF e
    <3> QED BY <2>2, <2>3, <3>1, <3>2, <3>3 DEF Places
  <2> QED BY <1>1, <1>5, <2>1, <2>3, <2>4 DEF Good, Fine, Balanced, Told, Both
<1>6. Len(t.out) + Len(t.sendBuffer) > SessLimit \/ Len(t.out) + Len(t.sendBuffer) <= SessLimit
  <2>1. Len(t.out) \in Nat /\ Len(t.sendBuffer) \in Nat
    BY <1>3, LenProperties
  <2>2. SessLimit \in Nat
    BY ConstAssumption
  <2> DEFINE a == Len(t.out)
             b == Len(t.sendBuffer)
  <2>3. a \in Nat /\ b \in Nat
    BY <2>1
  <2> HIDE DEF a, b
  <2>4. a + b > SessLimit \/ a + b <= SessLimit
    BY <2>2, <2>3
  <2> QED BY ZenonT(60), <2>4 DEF a, b
<1>7. S!DoRead(s) \in {t, x} \/ (Len(t.out) + Len(t.sendBuffer) <= SessLimit /\ S!DoRead(s) = S!DoSend(y))
  BY ZenonT(60), <1>6 DEF S!DoRead, t
<1> HIDE DEF x, y
<1>8. CASE S!DoRead(s) \in {t, x}
  BY <1>1, <1>4, <1>8
<1>9. CASE Len(t.out) + Len(t.sendBuffer) <= SessLimit /\ S!DoRead(s) = S!DoSend(y)
  BY <1>5, <1>9, DoSendGood
<1> QED BY <1>7, <1>8, <1>9

-----------------------------------------------------------------------------
(* Connection::ready *)

LEMMA CheckBackendGood ==
    ASSUME NEW s, Good(s)
    PROVE  Good(S!CheckBackend(s))
<1> DEFINE t == IF s.backend = "PeerClosed" /\ s.sendBuffer = <<>> THEN S!SetShutdown(s) ELSE s
           st == S!CheckStatus(t.backend, FALSE)
<1>1. Good(t)
  BY ShutdownTells DEF Good
<1>2. S!CheckBackend(s) = [t EXCEPT !.backend = st]
  BY DEF S!CheckBackend
<1> HIDE DEF t
<1>3. t.backend \in S!Status
  BY <1>1, Fields DEF Good, Fine
<1>4. st \in S!Status /\ (st = "Established" => t.backend = "Established") /\ (S!IsShutdown(st) => S!IsShutdown(t.backend))
  BY <1>3, Statuses
<1> HIDE DEF st
<1> QED BY <1>1, <1>2, <1>4, BackendMoves

LEMMA SettleGood ==
    ASSUME NEW s, Good(s)
    PROVE  Good(S!Settle(s))
<1> DEFINE t == IF S!IsShutdown(s.proxy) THEN [s EXCEPT !.backend = S!PeerClosed(s.backend)] ELSE s
           u == IF S!IsShutdown(t.backend) THEN [t EXCEPT !.proxy = S!PeerClosed(t.proxy)] ELSE t
           st == S!CheckStatus(u.proxy, S!SessionEmpty(u))
           w == [u EXCEPT !.proxy = st]
<1>1. Good(t)
  <2>1. s.backend \in S!Status
    BY Fields DEF Good, Fine
  <2>2. /\ S!PeerClosed(s.backend) \in S!Status /\ S!PeerClosed(s.backend) # "Established"
        /\ S!IsShutdown(S!PeerClosed(s.backend)) => S!IsShutdown(s.backend)
    BY <2>1, Statuses
  <2>3. Good([s EXCEPT !.backend = S!PeerClosed(s.backend)])
    BY <2>2, BackendMoves
  <2> QED BY <2>3
<1>2. S!Settle(s) = S!CheckBackend(w)
  BY ZenonT(60) DEF S!Settle
<1> HIDE DEF t
<1>3. Good(u)
  <2>1. t.proxy \in S!Status
    BY <1>1, Fields DEF Good, Fine
  <2>2. S!PeerClosed(t.proxy) \in S!Status /\ S!PeerClosed(t.proxy) # "Established"
    BY <2>1, Statuses
  <2>3. Good([t EXCEPT !.proxy = S!PeerClosed(t.proxy)])
    BY <1>1, <2>2, ProxyMoves
  <2> QED BY <1>1, <2>3
<1> HIDE DEF u
<1>4. st \in S!Status /\ (st = "Established" => u.proxy = "Established")
  <2>1. u.proxy \in S!Status /\ S!SessionEmpty(u) \in BOOLEAN
    BY <1>3, Fields DEF Good, Fine, S!SessionEmpty
  <2> QED BY <2>1, Statuses
<1> HIDE DEF st
<1>5. Good(w)
  BY <1>3, <1>4, ProxyMoves
<1> HIDE DEF w
<1> QED BY <1>2, <1>5, CheckBackendGood

LEMMA ReadGood ==
    ASSUME NEW s, Good(s), Around
    PROVE  Good(S!Read(s))
<1> DEFINE st == IF cend # "open" THEN S!Shutdown(s.proxy) ELSE s.proxy
           t == [s EXCEPT !.cin = 0, !.proxy = st]
           u == [s EXCEPT !.cin = 0]
<1>1. s \in S!ConnState /\ s.proxy \in S!Status /\ s.cin \in Nat
  BY Fields DEF Good, Fine
<1>2. st \in S!Status /\ (st = "Established" => s.proxy = "Established")
  BY <1>1, Statuses
<1>3. S!Read(s) \in {s, t, S!Dispatch(t, s.cin)}
  BY ZenonT(60) DEF S!Read
<1> HIDE DEF st
<1>4. /\ t \in S!ConnState /\ t.proxy = st /\ t.backend = s.backend /\ t.parsed = s.parsed
      /\ t.sendBuffer = s.sendBuffer /\ t.out = s.out /\ t.queue = s.queue /\ t.results = s.results
  BY <1>1, <1>2 DEF S!ConnState
<1> HIDE DEF t
<1>5. Both(t) => Both(s)
  BY <1>2, <1>4 DEF Both
<1>6. \A i : Places(t, checks, got, i) = Places(s, checks, got, i)
  BY <1>4 DEF Places
<1>7. Good(t)
  BY <1>4, <1>5, <1>6 DEF Good, Fine, Balanced, Told
<1>8. Good(S!Dispatch(t, s.cin))
  BY <1>1, <1>7, DispatchGood
<1> QED BY <1>3, <1>7, <1>8

LEMMA ReadyGood ==
    ASSUME NEW s, Good(s), Around
    PROVE  Good(S!Ready(s))
BY ReadGood, DoSendGood, SettleGood DEF S!Ready

-----------------------------------------------------------------------------
(* The steps *)

\* The steps of the loop, which work on the connection alone.
LEMMA StepKeeps ==
    ASSUME Around, Good(c'), UNCHANGED <<asked, cend, routine, checks, got>>,
           edge' \in BOOLEAN, turn' \in {"poll", "end"}, gone' \in BOOLEAN, gone' => ~Both(c')
    PROVE  PInv'
<1>1. Around'
  BY DEF Around
<1>2. Good(c)'
  BY DEF Good
<1> QED BY <1>1, <1>2 DEF PInv

LEMMA HandleEventKeeps ==
    ASSUME PInv, S!HandleEvent
    PROVE  PInv'
<1>1. Good(S!Ready(c))
  BY ReadyGood DEF PInv
<1>2. /\ c' = S!Ready(c) /\ UNCHANGED <<asked, cend, routine, checks, got>>
      /\ edge' = FALSE /\ turn' = "end" /\ gone' = gone /\ ~gone
  BY DEF S!HandleEvent
<1>3. Good(c') /\ Around /\ edge' \in BOOLEAN /\ turn' \in {"poll", "end"} /\ gone' \in BOOLEAN /\ (gone' => ~Both(c'))
  BY <1>1, <1>2 DEF PInv, Around
<1> QED BY <1>2, <1>3, StepKeeps

LEMMA EndOfBodyKeeps ==
    ASSUME PInv, S!EndOfBody
    PROVE  PInv'
<1>1. Good(S!DoRead(c)) /\ Good(c) /\ Around
  BY DoReadGood DEF PInv
<1>2. UNCHANGED <<asked, cend, routine, checks, got>> /\ turn' = "poll" /\ gone = FALSE
  BY <1>1 DEF S!EndOfBody, Around
<1>3. CASE S!Destroyed(c)
  <2>1. gone' = TRUE /\ c' = c /\ edge' = edge
    BY <1>3 DEF S!EndOfBody
  <2>2. ~Both(c)
    BY <1>3 DEF S!Destroyed, Both
  <2>3. edge' \in BOOLEAN
    BY <1>1, <2>1 DEF Around
  <2> QED BY <1>1, <1>2, <2>1, <2>2, <2>3, StepKeeps
<1>4. CASE ~S!Destroyed(c)
  <2>1. c' = S!DoRead(c) /\ gone' = gone /\ edge' \in BOOLEAN
    BY <1>4 DEF S!EndOfBody
  <2> QED BY <1>1, <1>2, <2>1, StepKeeps
<1> QED BY <1>3, <1>4

\* The check thread takes a request, or the stop request.
LEMMA TakeRequestKeeps ==
    ASSUME PInv, S!TakeRequest
    PROVE  PInv'
<1> DEFINE q == c.queue
           h == Head(q)
           r == Tail(q)
           t == [c EXCEPT !.queue = r]
<1>1. /\ c \in S!ConnState /\ asked \in Seq(S!Request) /\ checks \in [Ips -> Nat] /\ got \in Seq(Ips)
      /\ q \in Seq(Ips \cup {"stop"}) /\ q # <<>> /\ c' = t
  BY Fields DEF PInv, Good, Fine, Around, S!TakeRequest
<1>2. h \in Ips \cup {"stop"} /\ r \in Seq(Ips \cup {"stop"}) /\ Len(r) = Len(q) - 1 /\ Len(q) \in Nat
      /\ (\A i \in 1 .. Len(r) : r[i] = q[i + 1]) /\ h = q[1]
  BY <1>1, HeadTailProperties, LenProperties
<1>3. UNCHANGED <<asked, cend, edge, turn, gone, got>> /\ routine = "run"
  BY DEF S!TakeRequest
<1>4. \/ h = "stop" /\ routine' = "stopped" /\ checks' = checks
      \/ h \in Ips /\ h # "stop" /\ routine' = routine /\ checks' = [checks EXCEPT ![h] = checks[h] + 1]
  BY <1>2 DEF S!TakeRequest
<1>5. \A i : S!Occurrences(q, i) = S!Occurrences(r, i) + IF h = i THEN 1 ELSE 0
  BY <1>1, CountHead
<1>6. \A i : S!Occurrences(r, i) \in Nat
  BY <1>2, CountType
<1>7. h # "stop" => (HasStop(q) => HasStop(r))
  <2> SUFFICES ASSUME h # "stop", NEW k \in 1 .. Len(q), q[k] = "stop" PROVE HasStop(r)
    BY DEF HasStop
  <2>1. k # 1
    BY <1>2
  <2>2. k - 1 \in 1 .. Len(r) /\ k - 1 + 1 = k
    BY <1>2, <2>1
  <2>3. r[k - 1] = "stop"
    BY <1>2, <2>2
  <2> QED BY <2>2, <2>3 DEF HasStop
<1>8. "stop" \notin Ips
  BY BoundsAssumption
<1> HIDE DEF r
<1>9. /\ t \in S!ConnState /\ t.queue = r /\ t.proxy = c.proxy /\ t.backend = c.backend /\ t.parsed = c.parsed
      /\ t.sendBuffer = c.sendBuffer /\ t.out = c.out /\ t.results = c.results
  BY <1>1, <1>2 DEF S!ConnState
<1> HIDE DEF t, h
<1>10. checks' \in [Ips -> Nat] /\ \A i \in Ips : checks'[i] = checks[i] + IF h = i THEN 1 ELSE 0
  <2>1. CASE h = "stop" /\ checks' = checks
    <3>1. \A i \in Ips : h # i /\ checks[i] \in Nat
      BY <1>1, <1>8, <2>1
    <3> QED BY <1>1, <2>1, <3>1
  <2>2. CASE h \in Ips /\ checks' = [checks EXCEPT ![h] = checks[h] + 1]
    <3>1. \A i \in Ips : checks[i] \in Nat /\ checks'[i] = IF h = i THEN checks[i] + 1 ELSE checks[i]
      BY <1>1, <2>2
    <3>2. checks[h] + 1 \in Nat
      BY <2>2, <3>1
    <3>3. checks' \in [Ips -> Nat]
      BY <1>1, <2>2, <3>2
    <3> QED BY <3>1, <3>3
  <2> QED BY <1>4, <2>1, <2>2
<1>11. \A i \in Ips : Places(t, checks', got, i) = Places(c, checks, got, i)
  <2> TAKE i \in Ips
  <2> DEFINE d == IF h = i THEN 1 ELSE 0
  <2>1. S!Occurrences(c.results, i) \in Nat /\ S!Occurrences(c.sendBuffer, i) \in Nat
        /\ S!Occurrences(c.out, i) \in Nat /\ S!Occurrences(got, i) \in Nat
    BY <1>1, Fields, CountType
  <2>2. S!Occurrences(q, i) = S!Occurrences(r, i) + d /\ S!Occurrences(r, i) \in Nat
    BY <1>5, <1>6
  <2>3. checks'[i] = checks[i] + d /\ checks[i] \in Nat /\ d \in Nat
    BY <1>1, <1>10
  <2> HIDE DEF d
  <2> QED BY <1>9, <2>1, <2>2, <2>3 DEF Places
<1>12. Fine(t, asked) /\ Balanced(t, asked, checks', got) /\ (Both(t) => Both(c))
  BY <1>9, <1>11 DEF PInv, Good, Fine, Balanced, Both
<1>13. Told(t, routine')
  BY <1>3, <1>4, <1>7, <1>9 DEF PInv, Good, Told
<1>14. Around'
  BY <1>3, <1>4, <1>10 DEF PInv, Around
<1>15. Good(c)'
  BY <1>1, <1>3, <1>12, <1>13 DEF Good
<1> QED BY <1>1, <1>3, <1>12, <1>14, <1>15 DEF PInv

\* A check ends; its result is lost only with the connection.
LEMMA FinishCheckKeeps ==
    ASSUME PInv, S!FinishCheck
    PROVE  PInv'
<1>1. PICK ip \in Ips :
        /\ checks[ip] > 0
        /\ checks' = [checks EXCEPT ![ip] = checks[ip] - 1]
        /\ c' = IF gone \/ S!IsShutdown(c.backend) THEN c
                ELSE [c EXCEPT !.results = Append(c.results, ip)]
        /\ UNCHANGED <<asked, cend, edge, turn, gone, routine, got>>
  BY DEF S!FinishCheck
<1>2. /\ c \in S!ConnState /\ checks \in [Ips -> Nat] /\ got \in Seq(Ips)
      /\ c.results \in Seq(Ips)
  BY Fields DEF PInv, Good, Fine, Around
<1>3. checks' \in [Ips -> Nat] /\ checks[ip] \in Nat
      /\ \A i \in Ips : checks'[i] + (IF ip = i THEN 1 ELSE 0) = checks[i] /\ checks'[i] \in Nat
  BY <1>1, <1>2
<1>4. Around'
  BY <1>1, <1>3 DEF PInv, Around
<1>5. CASE gone \/ S!IsShutdown(c.backend)
  <2>1. ~Both(c) /\ c' = c
    BY <1>1, <1>5 DEF PInv, Both, S!IsShutdown
  <2> QED BY <1>1, <1>4, <2>1 DEF PInv, Good, Balanced
<1>6. CASE ~(gone \/ S!IsShutdown(c.backend))
  <2> DEFINE r == Append(c.results, ip)
             t == [c EXCEPT !.results = r]
  <2>1. r \in Seq(Ips) /\ c' = t
    BY <1>1, <1>2, <1>6
  <2>2. \A i : S!Occurrences(r, i) = S!Occurrences(c.results, i) + IF ip = i THEN 1 ELSE 0
    BY <1>2, CountAppend
  <2> HIDE DEF r
  <2>3. /\ t \in S!ConnState /\ t.results = r /\ t.proxy = c.proxy /\ t.backend = c.backend /\ t.parsed = c.parsed
        /\ t.sendBuffer = c.sendBuffer /\ t.out = c.out /\ t.queue = c.queue
    BY <1>2, <2>1 DEF S!ConnState
  <2> HIDE DEF t
  <2>4. \A i \in Ips : Places(t, checks', got, i) = Places(c, checks, got, i)
    <3> TAKE i \in Ips
    <3> DEFINE d == IF ip = i THEN 1 ELSE 0
    <3>1. S!Occurrences(c.results, i) \in Nat /\ S!Occurrences(c.sendBuffer, i) \in Nat
          /\ S!Occurrences(c.out, i) \in Nat /\ S!Occurrences(got, i) \in Nat
      BY <1>2, Fields, CountType
    <3>2. S!Occurrences(c.queue, i) \in Nat
      BY <1>2, Fields, CountType
    <3>3. S!Occurrences(r, i) = S!Occurrences(c.results, i) + d
      BY <2>2
    <3>4. checks'[i] + d = checks[i] /\ checks'[i] \in Nat /\ d \in Nat
      BY <1>3
    <3> HIDE DEF d
    <3> QED BY <2>3, <3>1, <3>2, <3>3, <3>4 DEF Places
  <2>5. Fine(t, asked) /\ Balanced(t, asked, checks', got) /\ (Both(t) => Both(c)) /\ Told(t, routine)
    BY <2>3, <2>4 DEF PInv, Good, Fine, Balanced, Both, Told
  <2>6. Good(c)'
    BY <1>1, <2>1, <2>5 DEF Good
  <2> QED BY <1>1, <1>4, <2>1, <2>5, <2>6 DEF PInv
<1> QED BY <1>5, <1>6

LEMMA RoutineStartsKeeps ==
    ASSUME PInv, S!RoutineStarts
    PROVE  PInv'
<1>1. /\ UNCHANGED <<c, asked, cend, edge, turn, gone, checks, got>>
      /\ routine = "start" /\ routine' \in {"run", "dead"}
  BY DEF S!RoutineStarts
<1>2. Around'
  BY <1>1 DEF PInv, Around
<1>3. Told(c, routine) => Told(c, routine')
  BY <1>1 DEF Told
<1>4. Good(c)'
  BY <1>1, <1>3 DEF PInv, Good
<1> QED BY <1>1, <1>2, <1>4 DEF PInv

\* Fields that the invariant does not speak of.
LEMMA Alike ==
    ASSUME Good(c), NEW t \in S!ConnState, t.proxy = c.proxy, t.backend = c.backend, t.parsed = c.parsed,
           t.sendBuffer = c.sendBuffer, t.out = c.out, t.queue = c.queue, t.results = c.results
    PROVE  Good(t) /\ (Both(t) => Both(c))
<1>1. \A i : Places(t, checks, got, i) = Places(c, checks, got, i)
  BY DEF Places
<1> QED BY <1>1 DEF Good, Fine, Balanced, Both, Told

LEMMA CacheExpiresKeeps ==
    ASSUME PInv, S!CacheExpires
    PROVE  PInv'
<1>1. PICK ip \in c.fresh :
        c' = [c EXCEPT !.fresh = c.fresh \ {ip}] /\ UNCHANGED <<asked, cend, edge, turn, gone, routine, checks, got>>
  BY DEF S!CacheExpires
<1> DEFINE f == c.fresh \ {ip}
           t == [c EXCEPT !.fresh = f]
<1>2. c \in S!ConnState /\ c.fresh \in SUBSET Ips
  BY Fields DEF PInv, Good, Fine
<1>3. f \in SUBSET Ips /\ c' = t
  BY <1>1, <1>2
<1> HIDE DEF f
<1>4. /\ t \in S!ConnState /\ t.proxy = c.proxy /\ t.backend = c.backend /\ t.parsed = c.parsed
      /\ t.sendBuffer = c.sendBuffer /\ t.out = c.out /\ t.queue = c.queue /\ t.results = c.results
  BY <1>2, <1>3 DEF S!ConnState
<1> HIDE DEF t
<1>5. Good(t) /\ (Both(t) => Both(c))
  BY <1>4, Alike DEF PInv
<1> QED BY <1>1, <1>3, <1>5, StepKeeps DEF PInv, Around

\* What the client sends is not parsed yet.
LEMMA ClientAskKeeps ==
    ASSUME PInv, S!ClientAsk
    PROVE  PInv'
<1> DEFINE n == c.cin + 1
           t == [c EXCEPT !.cin = n]
<1>1. c \in S!ConnState /\ c.cin \in Nat /\ asked \in Seq(S!Request) /\ c.parsed \in Nat /\ c.parsed <= Len(asked)
  BY Fields DEF PInv, Good, Fine, Around
<1>2. n \in Nat /\ c' = t /\ edge' = TRUE /\ UNCHANGED <<cend, turn, gone, routine, checks, got>>
  BY <1>1 DEF S!ClientAsk
<1> HIDE DEF n
<1>3. /\ t \in S!ConnState /\ t.proxy = c.proxy /\ t.backend = c.backend /\ t.parsed = c.parsed
      /\ t.sendBuffer = c.sendBuffer /\ t.out = c.out /\ t.queue = c.queue /\ t.results = c.results
  BY <1>1, <1>2 DEF S!ConnState
<1> HIDE DEF t
<1>4. Good(t) /\ (Both(t) => Both(c))
  BY <1>3, Alike DEF PInv
<1>5. asked' = asked \/ \E r \in S!Request : asked' = Append(asked, r)
  BY DEF S!ClientAsk
<1>6. asked' \in Seq(S!Request) /\ c.parsed <= Len(asked') /\ SubSeq(asked', 1, c.parsed) = SubSeq(asked, 1, c.parsed)
  <2>1. CASE asked' = asked
    BY <1>1, <2>1
  <2>2. ASSUME NEW r \in S!Request, asked' = Append(asked, r)
        PROVE  asked' \in Seq(S!Request) /\ c.parsed <= Len(asked') /\ SubSeq(asked', 1, c.parsed) = SubSeq(asked, 1, c.parsed)
    <3> DEFINE a == Append(asked, r)
               p == c.parsed
               x == SubSeq(a, 1, p)
               y == SubSeq(asked, 1, p)
    <3>1. a \in Seq(S!Request) /\ Len(a) = Len(asked) + 1 /\ Len(asked) \in Nat
          /\ \A i \in 1 .. Len(asked) : a[i] = asked[i]
      BY <1>1, AppendProperties, LenProperties
    <3> HIDE DEF a
    <3>2. p \in Int /\ 1 \in Int /\ \A k \in 1 .. p : k \in 1 .. Len(asked) /\ k \in 1 .. Len(a)
      BY <1>1, <3>1
    <3>3. \A k \in 1 .. p : a[k] = asked[k] /\ a[k] \in S!Request /\ asked[k] \in S!Request
      BY <1>1, <3>1, <3>2, ElementOfSeq
    <3> HIDE DEF p
    <3>4. x \in Seq(S!Request) /\ Len(x) = (IF 1 <= p THEN p - 1 + 1 ELSE 0) /\ \A k \in 1 .. p - 1 + 1 : x[k] = a[1 + k - 1]
      BY <3>2, <3>3, SubSeqProperties
    <3>5. y \in Seq(S!Request) /\ Len(y) = (IF 1 <= p THEN p - 1 + 1 ELSE 0) /\ \A k \in 1 .. p - 1 + 1 : y[k] = asked[1 + k - 1]
      BY <3>2, <3>3, SubSeqProperties
    <3> HIDE DEF x, y
    <3>6. \A k \in 1 .. Len(x) : k \in 1 .. p /\ k \in 1 .. p - 1 + 1 /\ 1 + k - 1 = k
      BY <3>2, <3>4
    <3>7. \A k \in 1 .. Len(x) : x[k] = y[k]
      BY <3>3, <3>4, <3>5, <3>6
    <3>8. x = y
      BY <3>4, <3>5, <3>7, SeqEqual
    <3>9. p <= Len(a)
      BY <1>1, <3>1 DEF p
    <3> QED BY <2>2, <3>1, <3>8, <3>9 DEF a, p, x, y
  <2> QED BY <1>5, <2>1, <2>2
<1>7. Fine(t, asked') /\ Balanced(t, asked', checks, got) /\ Told(t, routine)
  BY <1>3, <1>4, <1>6 DEF Good, Fine, Balanced
<1>8. Good(c)'
  BY <1>2, <1>7 DEF Good
<1>9. Around'
  BY <1>2, <1>6 DEF PInv, Around
<1> QED BY <1>2, <1>4, <1>8, <1>9 DEF PInv

LEMMA ClientCloseKeeps ==
    ASSUME PInv, S!ClientClose
    PROVE  PInv'
<1>1. UNCHANGED <<c, asked, turn, gone, routine, checks, got>> /\ cend' \in {"fin", "rst"} /\ edge' = TRUE
  BY DEF S!ClientClose
<1>2. Around'
  BY <1>1 DEF PInv, Around
<1>3. Good(c)'
  BY <1>1 DEF PInv, Good
<1> QED BY <1>1, <1>2, <1>3 DEF PInv

\* The client reads an answer.
LEMMA ClientReadKeeps ==
    ASSUME PInv, S!ClientRead
    PROVE  PInv'
<1> DEFINE q == c.out
           h == Head(q)
           r == Tail(q)
           t == [c EXCEPT !.out = r]
           g == Append(got, h)
<1>1. /\ c \in S!ConnState /\ checks \in [Ips -> Nat] /\ got \in Seq(Ips) /\ q \in Seq(Ips) /\ q # <<>>
      /\ Len(q) <= SessLimit
      /\ c' = t /\ got' = g /\ edge' \in BOOLEAN /\ UNCHANGED <<asked, cend, turn, gone, routine, checks>>
  BY Fields DEF PInv, Good, Fine, Around, S!ClientRead
<1>2. h \in Ips /\ r \in Seq(Ips) /\ Len(r) = Len(q) - 1 /\ Len(q) \in Nat
  BY <1>1, HeadTailProperties, LenProperties
<1>3. \A i : S!Occurrences(q, i) = S!Occurrences(r, i) + IF h = i THEN 1 ELSE 0
  BY <1>1, CountHead
<1>4. \A i : S!Occurrences(r, i) \in Nat
  BY <1>2, CountType
<1> HIDE DEF r, h
<1>5. g \in Seq(Ips) /\ \A i : S!Occurrences(g, i) = S!Occurrences(got, i) + IF h = i THEN 1 ELSE 0
  BY <1>1, <1>2, CountAppend
<1> HIDE DEF g
<1>6. /\ t \in S!ConnState /\ t.queue = c.queue /\ t.proxy = c.proxy /\ t.backend = c.backend /\ t.parsed = c.parsed
      /\ t.sendBuffer = c.sendBuffer /\ t.out = r /\ t.results = c.results
  BY <1>1, <1>2 DEF S!ConnState
<1> HIDE DEF t
<1>7. \A i \in Ips : Places(t, checks, g, i) = Places(c, checks, got, i)
  <2> TAKE i \in Ips
  <2> DEFINE d == IF h = i THEN 1 ELSE 0
  <2>1. S!Occurrences(c.results, i) \in Nat /\ S!Occurrences(c.sendBuffer, i) \in Nat
        /\ S!Occurrences(got, i) \in Nat
    BY <1>1, Fields, CountType
  <2>2. S!Occurrences(c.queue, i) \in Nat
    BY <1>1, Fields, CountType
  <2>3. S!Occurrences(q, i) = S!Occurrences(r, i) + d /\ S!Occurrences(r, i) \in Nat
    BY <1>3, <1>4
  <2>4. S!Occurrences(g, i) = S!Occurrences(got, i) + d /\ checks[i] \in Nat /\ d \in Nat
    BY <1>1, <1>5
  <2> HIDE DEF d
  <2> QED BY <1>6, <2>1, <2>2, <2>3, <2>4 DEF Places
<1>8. Len(r) <= SessLimit
  BY <1>1, <1>2, ConstAssumption
<1>9. Fine(t, asked) /\ Balanced(t, asked, checks, g) /\ (Both(t) => Both(c)) /\ Told(t, routine)
  BY <1>6, <1>7, <1>8 DEF PInv, Good, Fine, Balanced, Both, Told
<1>10. Good(c)'
  BY <1>1, <1>9 DEF Good
<1>11. Around'
  BY <1>1, <1>5 DEF PInv, Around
<1> QED BY <1>1, <1>9, <1>10, <1>11 DEF PInv

-----------------------------------------------------------------------------
(* The ping backend: the theorem *)

LEMMA PInvInit ==
    ASSUME S!Init
    PROVE  PInv
<1>1. c \in S!ConnState /\ c.out = <<>> /\ c.queue = <<>> /\ c.results = <<>> /\ c.sendBuffer = <<>>
      /\ c.parsed = 0 /\ c.backend = "Established"
  BY DEF S!Init, S!ConnState, S!Status
<1>2. asked = <<>> /\ got = <<>> /\ gone = FALSE /\ checks = [i \in Ips |-> 0]
  BY DEF S!Init
<1>3. Around
  <2>1. /\ asked \in Seq(S!Request) /\ got \in Seq(Ips) /\ checks \in [Ips -> Nat]
    BY <1>2
  <2> QED BY <2>1 DEF S!Init, Around
<1>4. Fine(c, asked)
  <2>1. Len(<<>>) = 0 /\ 0 <= SessLimit
    BY ConstAssumption
  <2> QED BY <1>1, <1>2, <2>1 DEF Fine
<1>5. SubSeq(asked, 1, c.parsed) = <<>>
  BY <1>1, <1>2
<1>6. Balanced(c, asked, checks, got)
  <2> DEFINE e == <<>>
  <2>1. \A i : S!Occurrences(e, i) = 0
    BY CountEmpty
  <2> HIDE DEF e
  <2>2. c.out = e /\ c.queue = e /\ c.results = e /\ c.sendBuffer = e /\ got = e /\ SubSeq(asked, 1, c.parsed) = e
    BY <1>1, <1>2, <1>5 DEF e
  <2>3. \A i \in Ips : Places(c, checks, got, i) = 0
    <3> TAKE i \in Ips
    <3>1. checks[i] = 0 /\ S!Occurrences(e, i) = 0
      BY <1>2, <2>1
    <3>2. Places(c, checks, got, i) = 0 + 0 + 0 + 0 + 0 + 0
      BY ZenonT(60), <2>2, <3>1 DEF Places
    <3> QED BY <3>2
  <2> QED BY <2>1, <2>2, <2>3 DEF Balanced
<1>7. Told(c, routine)
  BY <1>1 DEF Told, S!IsShutdown
<1> QED BY <1>2, <1>3, <1>4, <1>6, <1>7 DEF PInv, Good

LEMMA PInvGives ==
    ASSUME PInv
    PROVE  PingAccounted
<1>1. S!TypeOK
  BY DEF PInv, Good, Fine, Around, S!TypeOK
<1>2. S!EveryRequestAccounted
  BY <1>1 DEF PInv, Good, Balanced, Both, Places, S!EveryRequestAccounted
<1>3. S!RoutineTold
  BY DEF PInv, Good, Told, HasStop, S!RoutineTold, S!Listening
<1> QED BY <1>2, <1>3 DEF PingAccounted

LEMMA PInvNext ==
    ASSUME PInv, [MCNext]_all
    PROVE  PInv'
<1>1. CASE UNCHANGED server
  <2>1. UNCHANGED <<c, asked, cend, edge, turn, gone, routine, checks, got>>
    BY <1>1 DEF server
  <2> QED BY <2>1 DEF PInv, Good, Around
<1>2. CASE S!Next
  BY <1>2, HandleEventKeeps, EndOfBodyKeeps, TakeRequestKeeps, FinishCheckKeeps, RoutineStartsKeeps, CacheExpiresKeeps,
     ClientAskKeeps, ClientCloseKeeps, ClientReadKeeps DEF S!Next, S!Loop, S!Routine
<1>3. UNCHANGED server \/ S!Next
  BY DEF MCNext, all, ServerTurn, NetTurn, server
<1> QED BY <1>1, <1>2, <1>3

\* PingBackend: while both ends are open every request that dispatch took is in one
\* place, the channel, a check, the channel back, send_buffer, the session or the
\* client, whatever the cache held; the buffers keep their limits, and a backend that
\* is shut down has told its thread to stop.
THEOREM EveryRequestOnce == MCSpec => []PingAccounted
<1>1. MCInit => PInv
  BY PInvInit DEF MCInit
<1>2. PInv /\ [MCNext]_all => PInv'
  BY PInvNext
<1>3. PInv => PingAccounted
  BY PInvGives
<1> QED BY <1>1, <1>2, <1>3, PTL DEF MCSpec
=============================================================================
