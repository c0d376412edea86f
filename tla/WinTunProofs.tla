---------------------------- MODULE WinTunProofs ----------------------------
(***************************************************************************)
(* Proofs about the wintun proxy, for every value of its constants.        *)
(*                                                                         *)
(* TCP: both directions of a relayed connection are pipes, and neither an  *)
(* event nor a connection outlives its socket.  Every buffer on the way    *)
(* holds a run of consecutive units; the invariant says where each run     *)
(* begins, and when the runs together hold all that was sent.  A method is *)
(* an operator from record to record, so one lemma for each method says    *)
(* that it keeps what is true of the record in a handler, InHandler.       *)
(* Beside it, Awake says what wakes a connection that has something to do. *)
(*                                                                         *)
(* UDP: a socket outlives the connections that it counts, and both maps of *)
(* connections agree.  No method of a connection touches its source and    *)
(* its socket; the rest is counting.                                       *)
(***************************************************************************)
EXTENDS MCWinTun, SequenceTheorems, FiniteSetTheorems, TLAPS

\* Lengths and the empty buffer, by names that the arithmetic below need not
\* look behind.
Size(q) == Len(q)
Nil == <<>>

\* The part of TypeOK that is about k.
Good(s) ==
    /\ s \in Relay
    /\ Size(s.rbuf) <= 1 /\ Size(s.lbuf) <= 1 /\ Size(s.sess) <= SessLimit /\ Size(s.sock) <= SockCap
    /\ Size(s.rx) <= RxCap /\ Size(s.tx) <= TxCap

\* The types of the application and of the server.
Peers(a, v) ==
    /\ a \in [out: Nat, fin: {"open", "fin", "rst"}, got: Seq(Nat), end: {"open", "eof", "cut"}]
    /\ v \in [out: Nat, fin: BOOLEAN, got: Seq(Nat)]

\* q holds the units from n on.
Run(q, n) == \A i \in 1 .. Size(q) : q[i] = n + i - 1

\* The socket may still send what it is given.
Live(s) == s.st \in {"synrcvd", "est", "closewait"}

\* What the states of the socket mean for its owner.
Sides(s) ==
    /\ s.lcl => ~Live(s) /\ s.st # "none"
    /\ s.st \in {"finwait", "lastack", "timewait"} => s.lcl /\ s.cause # "none"
    /\ s.rcl => s.in = Nil

\* Before the request is written, and before the handshake is done.
Early(s, v) ==
    /\ ~s.est => s.sess = Nil /\ s.sock = Nil /\ s.rbuf = Nil /\ v.got = Nil
    /\ ~s.hs => /\ s.sock = Nil /\ v.got = Nil /\ v.out = 0
                /\ s.tx = Nil /\ s.lbuf = Nil /\ s.in \in {Nil, <<Hello>>}

\* Towards the server: what has left the session, and what has not.
UpSent(s, a, v) ==
    /\ Run(v.got, 0) /\ Size(v.got) <= a.out + 1
    /\ s.rend # "rst" => Run(s.sock, Size(v.got)) /\ Size(v.got) + Size(s.sock) <= a.out + 1
    /\ ~s.est /\ s.st # "gone" => Run(s.rx, 1) /\ Size(s.rx) = a.out

UpLine(s, a, v) ==
    /\ Run(s.sess, Size(v.got) + Size(s.sock))
    /\ Run(s.rbuf, Size(v.got) + Size(s.sock) + Size(s.sess))
    /\ Run(s.rx, Size(v.got) + Size(s.sock) + Size(s.sess) + Size(s.rbuf))
    /\ Size(v.got) + Size(s.sock) + Size(s.sess) + Size(s.rbuf) + Size(s.rx) = a.out + 1
UpWhole(s, a, v) == s.est /\ ~s.rcl /\ s.rend # "rst" => UpLine(s, a, v)

\* Towards the application.  Before the handshake is done no data have arrived.
Data(s) == IF s.hs THEN s.in ELSE Nil
DownSent(s, a, v) ==
    /\ Run(a.got, 1) /\ Run(s.tx, 1 + Size(a.got)) /\ Size(a.got) + Size(s.tx) <= v.out
    /\ v.out <= NDown
    /\ a.end # "open" => s.tx = Nil /\ ~Live(s)
    /\ s.st \in {"listen", "closed"} /\ ~s.lcl => a.end # "open"
    /\ s.st = "none" => a.end = "open"
    /\ v.fin = (s.rend # "open")

DownLine(s, a, v) ==
    /\ Run(s.lbuf, 1 + Size(a.got) + Size(s.tx))
    /\ Run(Data(s), 1 + Size(a.got) + Size(s.tx) + Size(s.lbuf))
    /\ Size(a.got) + Size(s.tx) + Size(s.lbuf) + Size(Data(s)) <= v.out
    /\ s.rend # "rst" => Size(a.got) + Size(s.tx) + Size(s.lbuf) + Size(Data(s)) = v.out
DownWhole(s, a, v) == Live(s) => DownLine(s, a, v)

\* An end of stream that stands for the server's comes after all of its data.
AllSent(s, a, v) ==
    /\ s.rend # "open"
    /\ a.end = "open" /\ s.st # "gone" => Size(a.got) + Size(s.tx) = v.out
EndWhole(s, a, v) == s.cause = "eof" => s.lcl /\ AllSent(s, a, v)

Flow(s, a, v) ==
    /\ Early(s, v) /\ UpSent(s, a, v)
    /\ DownSent(s, a, v) /\ DownWhole(s, a, v) /\ EndWhole(s, a, v)

\* The loop: a connection is there between its first event and its removal, no
\* event is left for a socket that is removed, and removal follows the close.
Shape(p, s) ==
    /\ s.st = "none" => s.ev = {} /\ ~s.on
    /\ s.st = "gone" => s.ev = {} /\ ~s.on /\ s.wakers = {} /\ p = "net"
    /\ ~s.on => s.edge = {}
    /\ ~s.on /\ s.st # "gone" => ~s.hs /\ s.in = Nil /\ ~s.est /\ ~s.rcl /\ ~s.lcl /\ s.rend = "open"
    /\ p = "poll" => s.ev = {}
    /\ s.removed => p = "poll" /\ (s.rcl \/ ~s.on)

\* The record between two handlers, while the loop is at p.
Valid(s, a, v) == Good(s) /\ Peers(a, v) /\ Sides(s) /\ Flow(s, a, v) /\ UpWhole(s, a, v)
Between(p, s, a, v) == Valid(s, a, v) /\ Shape(p, s)
WInv == pc \in {"net", "poll"} /\ Between(pc, k, app, srv)

\* The record that a handler works on, also when units that the session did not
\* take are dropped, just before the connection to the server is closed.
Handling(s, a, v) ==
    /\ Good(s) /\ Peers(a, v) /\ Sides(s) /\ Flow(s, a, v)
    /\ s.on /\ s.st \notin {"none", "gone"} /\ (s.removed => s.rcl)
InHandler(s, a, v) == Handling(s, a, v) /\ UpWhole(s, a, v)

\* What a handler leaves alone: what the server still gets, and later events.
Kept(s, t) == (s.rcl => t.rcl /\ t.sock = s.sock) /\ t.ev = s.ev

-----------------------------------------------------------------------------
(* Runs *)

LEMMA EmptySeqNat == Nil \in Seq(Nat) /\ Size(Nil) = 0 /\ \A n : Run(Nil, n)
  <1> USE DEF Size, Nil
  <1>1. <<>> \in Seq(Nat) /\ Len(<<>>) = 0 OBVIOUS
  <1> QED BY <1>1 DEF Run

LEMMA LenNat ==
    ASSUME NEW q \in Seq(Nat)
    PROVE  Size(q) \in Nat /\ (q = Nil <=> Size(q) = 0)
  BY EmptySeq, LenProperties DEF Size, Nil

LEMMA SplitLemma ==
    ASSUME NEW q \in Seq(Nat), NEW n \in 0 .. Size(q)
    PROVE  /\ Take(q, n) \in Seq(Nat) /\ Size(Take(q, n)) = n
           /\ \A i \in 1 .. n : Take(q, n)[i] = q[i]
           /\ Rest(q, n) \in Seq(Nat) /\ Size(Rest(q, n)) = Size(q) - n
           /\ \A i \in 1 .. Size(q) - n : Rest(q, n)[i] = q[n + i]
  <1> USE DEF Size, Nil
  <1> DEFINE m == Len(q)
  <1>0. m \in Nat BY LenProperties
  <1>1. \A i \in 1 .. m : q[i] \in Nat BY ElementOfSeq
  <1>2. /\ Take(q, n) \in Seq(Nat) /\ Len(Take(q, n)) = n
        /\ \A i \in 1 .. n : Take(q, n)[i] = q[i]
    <2>1. \A i \in 1 .. n : q[i] \in Nat BY <1>0, <1>1
    <2>2. /\ SubSeq(q, 1, n) \in Seq(Nat)
          /\ Len(SubSeq(q, 1, n)) = IF 1 <= n THEN n - 1 + 1 ELSE 0
          /\ \A i \in 1 .. n - 1 + 1 : SubSeq(q, 1, n)[i] = q[1 + i - 1]
      BY SMTT(30), <1>0, <2>1, SubSeqProperties
    <2>3. n - 1 + 1 = n /\ (~(1 <= n) => n = 0) BY <1>0
    <2>4. \A i \in 1 .. n : 1 + i - 1 = i BY <1>0
    <2> QED BY <2>2, <2>3, <2>4 DEF Take
  <1>3. /\ Rest(q, n) \in Seq(Nat) /\ Len(Rest(q, n)) = m - n
        /\ \A i \in 1 .. m - n : Rest(q, n)[i] = q[n + i]
    <2>1. \A i \in n + 1 .. m : q[i] \in Nat BY <1>0, <1>1
    <2>2. /\ SubSeq(q, n + 1, m) \in Seq(Nat)
          /\ Len(SubSeq(q, n + 1, m)) = IF n + 1 <= m THEN m - (n + 1) + 1 ELSE 0
          /\ \A i \in 1 .. m - (n + 1) + 1 : SubSeq(q, n + 1, m)[i] = q[n + 1 + i - 1]
      BY SMTT(30), <1>0, <2>1, SubSeqProperties
    <2>3. m - (n + 1) + 1 = m - n /\ (~(n + 1 <= m) => m - n = 0) BY <1>0
    <2>4. \A i \in 1 .. m - n : n + 1 + i - 1 = n + i BY <1>0
    <2> QED BY <2>2, <2>3, <2>4 DEF Rest
  <1> QED BY <1>2, <1>3

LEMMA RunSplit ==
    ASSUME NEW q \in Seq(Nat), NEW n \in 0 .. Size(q), NEW a \in Nat, Run(q, a)
    PROVE  Run(Take(q, n), a) /\ Run(Rest(q, n), a + n)
  <1> USE DEF Size, Nil
  <1> DEFINE m == Len(q)
  <1> DEFINE t == Take(q, n)
  <1> DEFINE d == Rest(q, n)
  <1>0. /\ m \in Nat /\ n \in 0 .. m /\ Len(t) = n /\ Len(d) = m - n
        /\ \A i \in 1 .. n : t[i] = q[i]
        /\ \A i \in 1 .. m - n : d[i] = q[n + i]
        /\ \A i \in 1 .. m : q[i] = a + i - 1
    BY SplitLemma, LenProperties DEF Run
  <1> HIDE DEF m, t, d
  <1>1. \A i \in 1 .. Len(t) : t[i] = a + i - 1 BY <1>0
  <1>2. ASSUME NEW i \in 1 .. Len(d) PROVE d[i] = (a + n) + i - 1
    <2>1. i \in 1 .. m - n /\ n + i \in 1 .. m BY <1>0
    <2>2. d[i] = q[n + i] /\ q[n + i] = a + (n + i) - 1 BY <1>0, <2>1
    <2> QED BY <1>0, <2>1, <2>2
  <1> QED BY <1>1, <1>2 DEF Run, t, d

LEMMA RunConcat ==
    ASSUME NEW p \in Seq(Nat), NEW q \in Seq(Nat), NEW a \in Nat, Run(p, a), Run(q, a + Size(p))
    PROVE  Run(p \o q, a)
  <1> USE DEF Size, Nil
  <1> DEFINE m == Len(p)
  <1> DEFINE n == Len(q)
  <1> DEFINE c == p \o q
  <1>1. /\ m \in Nat /\ n \in Nat /\ Len(c) = m + n
        /\ \A i \in 1 .. m + n : c[i] = IF i <= m THEN p[i] ELSE q[i - m]
        /\ \A i \in 1 .. m : p[i] = a + i - 1
        /\ \A i \in 1 .. n : q[i] = (a + m) + i - 1
    BY ConcatProperties, LenProperties DEF Run
  <1> HIDE DEF m, n, c
  <1>2. ASSUME NEW i \in 1 .. m + n PROVE c[i] = a + i - 1
    <2>1. CASE i <= m BY <1>1, <2>1
    <2>2. CASE ~(i <= m)
      <3>1. i - m \in 1 .. n BY <1>1, <2>2
      <3>2. c[i] = q[i - m] /\ q[i - m] = (a + m) + (i - m) - 1 BY <1>1, <2>2, <3>1
      <3> QED BY <1>1, <3>1, <3>2
    <2> QED BY <2>1, <2>2
  <1> QED BY <1>1, <1>2 DEF Run, c

LEMMA ConcatNat ==
    ASSUME NEW p \in Seq(Nat), NEW q \in Seq(Nat)
    PROVE  /\ p \o q \in Seq(Nat) /\ Size(p \o q) = Size(p) + Size(q)
           /\ p \o Nil = p /\ Nil \o p = p
  BY ConcatProperties, ConcatEmptySeq DEF Size, Nil

LEMMA RunAppend ==
    ASSUME NEW q \in Seq(Nat), NEW a \in Nat, NEW n \in Nat, Run(q, a), n = a + Size(q)
    PROVE  /\ Append(q, n) \in Seq(Nat) /\ Size(Append(q, n)) = Size(q) + 1
           /\ Run(Append(q, n), a)
  <1> USE DEF Size, Nil
  <1> DEFINE m == Len(q)
  <1> DEFINE c == Append(q, n)
  <1>1. /\ c \in Seq(Nat) /\ Len(c) = m + 1 /\ m \in Nat /\ n = a + m
        /\ \A i \in 1 .. m : c[i] = q[i]
        /\ c[m + 1] = n
        /\ \A i \in 1 .. m : q[i] = a + i - 1
    BY AppendProperties, LenProperties DEF Run
  <1> HIDE DEF m, c
  <1>2. ASSUME NEW i \in 1 .. m + 1 PROVE c[i] = a + i - 1
    <2>1. CASE i = m + 1 BY <1>1, <2>1
    <2>2. CASE i # m + 1
      <3>1. i \in 1 .. m BY <1>1, <2>2
      <3> QED BY <1>1, <3>1
    <2> QED BY <2>1, <2>2
  <1> QED BY <1>1, <1>2 DEF Run, c, m

\* The first unit of a run that is not empty, and the others.
LEMMA RunHead ==
    ASSUME NEW q \in Seq(Nat), q # Nil, NEW a \in Nat, Run(q, a)
    PROVE  /\ Head(q) = a /\ Size(q) \in Nat \ {0}
           /\ Tail(q) \in Seq(Nat) /\ Size(Tail(q)) = Size(q) - 1 /\ Run(Tail(q), a + 1)
  <1> USE DEF Size, Nil
  <1> DEFINE m == Len(q)
  <1> DEFINE t == Tail(q)
  <1>1. /\ t \in Seq(Nat) /\ Len(t) = m - 1 /\ m \in Nat /\ m # 0
        /\ \A i \in 1 .. m - 1 : t[i] = q[i + 1]
        /\ Head(q) = q[1]
    BY HeadTailProperties, LenProperties, EmptySeq
  <1>2. \A i \in 1 .. m : q[i] = a + i - 1 BY DEF Run
  <1> HIDE DEF m, t
  <1>3. ASSUME NEW i \in 1 .. m - 1 PROVE t[i] = (a + 1) + i - 1
    <2>1. i + 1 \in 1 .. m BY <1>1
    <2> QED BY <1>1, <1>2, <2>1
  <1>4. q[1] = a BY <1>1, <1>2
  <1> QED BY <1>1, <1>3, <1>4 DEF Run, m, t

\* The unit in hand, and what follows it.
LEMMA RunHand ==
    ASSUME NEW q \in Seq(Nat), NEW n \in 0 .. Size(q), n < Size(q), NEW a \in Nat
    PROVE  /\ <<q[n + 1]>> \in Seq(Nat) /\ Size(<<q[n + 1]>>) = 1
           /\ Rest(q, n + 1) \in Seq(Nat) /\ Size(Rest(q, n + 1)) = Size(q) - (n + 1)
           /\ Run(q, a) => Run(<<q[n + 1]>>, a + n) /\ Run(Rest(q, n + 1), a + n + 1)
  <1> USE DEF Size, Nil
  <1> DEFINE m == Len(q)
  <1>0. m \in Nat /\ n \in Nat /\ n + 1 \in 1 .. m /\ n + 1 \in 0 .. m BY LenProperties
  <1>1. q[n + 1] \in Nat BY <1>0, ElementOfSeq
  <1>2. /\ <<q[n + 1]>> \in Seq(Nat) /\ Len(<<q[n + 1]>>) = 1 /\ <<q[n + 1]>>[1] = q[n + 1]
    BY <1>1
  <1>3. Rest(q, n + 1) \in Seq(Nat) /\ Len(Rest(q, n + 1)) = Len(q) - (n + 1)
    BY <1>0, SplitLemma
  <1>4. ASSUME Run(q, a) PROVE Run(<<q[n + 1]>>, a + n) /\ Run(Rest(q, n + 1), a + n + 1)
    <2>1. q[n + 1] = a + n BY <1>0, <1>4 DEF Run
    <2>2. \A i \in 1 .. 1 : <<q[n + 1]>>[i] = (a + n) + i - 1
      <3>1. SUFFICES ASSUME NEW i \in 1 .. 1 PROVE <<q[n + 1]>>[i] = (a + n) + i - 1 OBVIOUS
      <3>2. i = 1 /\ (a + n) + i - 1 = a + n BY <1>0
      <3> QED BY <1>2, <2>1, <3>2
    <2>3. Run(<<q[n + 1]>>, a + n) BY <1>2, <2>2 DEF Run
    <2>4. Run(Rest(q, n + 1), a + (n + 1)) BY <1>0, <1>4, RunSplit
    <2>5. a + (n + 1) = a + n + 1 BY <1>0
    <2> QED BY <2>3, <2>4, <2>5
  <1> QED BY <1>2, <1>3, <1>4

-----------------------------------------------------------------------------
(* The fields that a method leaves alone *)

SameUp(s, t) ==
    /\ t.sock = s.sock /\ t.sess = s.sess /\ t.rbuf = s.rbuf /\ t.rx = s.rx
    /\ t.est = s.est /\ t.rend = s.rend /\ t.rcl = s.rcl /\ t.cold = s.cold
SameDown(s, t) == t.tx = s.tx /\ t.lbuf = s.lbuf /\ t.hs = s.hs /\ t.in = s.in
SameSide(s, t) == t.st = s.st /\ t.lcl = s.lcl /\ t.cause = s.cause
SameLoop(s, t) == t.on = s.on /\ t.ev = s.ev /\ t.removed = s.removed

States == {"none", "listen", "synrcvd", "est", "closewait", "finwait", "lastack", "timewait", "closed", "gone"}

PutWakers(s, w) == [s EXCEPT !.wakers = w]
LEMMA SetWakers ==
    ASSUME NEW s \in Relay, NEW w \in SUBSET {"rx", "tx"}, NEW t, t = PutWakers(s, w)
    PROVE  /\ t \in Relay /\ t.wakers = w /\ t.edge = s.edge
           /\ SameUp(s, t) /\ SameDown(s, t) /\ SameSide(s, t) /\ SameLoop(s, t)
  BY DEF PutWakers, Relay, SameUp, SameDown, SameSide, SameLoop

PutSt(s, x) == [s EXCEPT !.st = x]
LEMMA SetSt ==
    ASSUME NEW s \in Relay, NEW x \in States, NEW t, t = PutSt(s, x)
    PROVE  /\ t \in Relay /\ t.st = x /\ t.wakers = s.wakers /\ t.edge = s.edge
           /\ t.lcl = s.lcl /\ t.cause = s.cause
           /\ SameUp(s, t) /\ SameDown(s, t) /\ SameLoop(s, t)
  BY DEF PutSt, Relay, States, SameUp, SameDown, SameLoop

PutEvents(s, e, w) == [s EXCEPT !.ev = e, !.wakers = w]
LEMMA SetEvents ==
    ASSUME NEW s \in Relay, NEW w \in SUBSET {"rx", "tx"}, NEW e \in SUBSET {"rx", "tx"},
           NEW t, t = PutEvents(s, e, w)
    PROVE  /\ t \in Relay /\ t.wakers = w /\ t.ev = e /\ t.on = s.on /\ t.removed = s.removed
           /\ t.edge = s.edge /\ SameUp(s, t) /\ SameDown(s, t) /\ SameSide(s, t)
  BY DEF PutEvents, Relay, SameUp, SameDown, SameSide

PutEnd(s, b, c) == [s EXCEPT !.lcl = b, !.cause = c]
LEMMA SetEnd ==
    ASSUME NEW s \in Relay, NEW b \in BOOLEAN, NEW c \in {"none", "eof", "cut"},
           NEW t, t = PutEnd(s, b, c)
    PROVE  /\ t \in Relay /\ t.lcl = b /\ t.cause = c /\ t.st = s.st /\ t.wakers = s.wakers
           /\ t.edge = s.edge /\ SameUp(s, t) /\ SameDown(s, t) /\ SameLoop(s, t)
  BY DEF PutEnd, Relay, SameUp, SameDown, SameLoop

\* Wakers turn into events, once.
LEMMA WakeFields ==
    ASSUME NEW s \in Relay, NEW w \in SUBSET {"rx", "tx"}, NEW t, t = Wake(s, w)
    PROVE  /\ t \in Relay /\ t.wakers = s.wakers \ w /\ t.ev = s.ev \cup (w \cap s.wakers)
           /\ t.on = s.on /\ t.removed = s.removed
           /\ t.edge = s.edge /\ SameUp(s, t) /\ SameDown(s, t) /\ SameSide(s, t)
  <1>1. s.wakers \ w \in SUBSET {"rx", "tx"} /\ s.ev \cup (w \cap s.wakers) \in SUBSET {"rx", "tx"}
    BY DEF Relay
  <1>2. t = PutEvents(s, s.ev \cup (w \cap s.wakers), s.wakers \ w) BY DEF Wake, PutEvents
  <1> QED BY <1>1, <1>2, SetEvents

LEMMA SetStateFields ==
    ASSUME NEW s \in Relay, NEW x \in States, NEW t, t = SetState(s, x)
    PROVE  /\ t \in Relay /\ t.st = x /\ t.lcl = s.lcl /\ t.cause = s.cause
           /\ s.wakers = {} => t.wakers = {} /\ t.ev = s.ev
           /\ t = s \/ (t.ev = s.ev \cup s.wakers /\ s.st # x)
           /\ t.on = s.on /\ t.removed = s.removed
           /\ t.edge = s.edge /\ SameUp(s, t) /\ SameDown(s, t)
  <1>1. CASE s.st = x
    <2>1. t = s BY <1>1 DEF SetState
    <2> QED BY <1>1, <2>1 DEF SameUp, SameDown
  <1>2. CASE s.st # x
    <2> DEFINE r == PutSt(s, x)
    <2>1. t = Wake(r, {"rx", "tx"}) BY <1>2 DEF SetState, PutSt
    <2>2. /\ r \in Relay /\ r.st = x /\ r.wakers = s.wakers /\ r.edge = s.edge
          /\ r.lcl = s.lcl /\ r.cause = s.cause
          /\ SameUp(s, r) /\ SameDown(s, r) /\ SameLoop(s, r)
      BY SetSt
    <2> HIDE DEF r
    <2>3. /\ t \in Relay /\ t.wakers = r.wakers \ {"rx", "tx"}
          /\ t.ev = r.ev \cup ({"rx", "tx"} \cap r.wakers)
          /\ t.on = r.on /\ t.removed = r.removed
          /\ t.edge = r.edge /\ SameUp(r, t) /\ SameDown(r, t) /\ SameSide(r, t)
      BY <2>1, <2>2, WakeFields
    <2>4. t.ev = s.ev \cup s.wakers
      <3>1. s.wakers \subseteq {"rx", "tx"} /\ r.ev = s.ev BY <2>2 DEF Relay, SameLoop
      <3> QED BY <2>2, <2>3, <3>1
    <2>5. t.st = x /\ t.lcl = s.lcl /\ t.cause = s.cause /\ t.on = s.on /\ t.removed = s.removed
          /\ t.edge = s.edge /\ SameUp(s, t) /\ SameDown(s, t)
      BY <2>2, <2>3 DEF SameUp, SameDown, SameSide, SameLoop
    <2>6. s.wakers = {} => t.wakers = {} /\ t.ev = s.ev BY <2>2, <2>3, <2>4
    <2> QED BY <1>2, <2>3, <2>4, <2>5, <2>6
  <1> QED BY <1>1, <1>2

LEMMA ClosingState ==
    ASSUME NEW s \in Relay
    PROVE  /\ Closing(s.st) \in {"none", "finwait", "lastack", "timewait", "closed", "gone"}
           /\ Closing(s.st) \in States
           /\ s.st \notin {"none", "gone"} => Closing(s.st) \notin {"none", "gone"}
  BY DEF Relay, Closing, States

LEMMA CloseLocalFields ==
    ASSUME NEW s \in Relay, NEW c \in {"eof", "cut"}, ~s.lcl, NEW t, t = CloseLocal(s, c)
    PROVE  /\ t \in Relay /\ t.st = Closing(s.st) /\ t.lcl = TRUE /\ t.cause = c
           /\ t.wakers = {} /\ t.edge = s.edge
           /\ SameUp(s, t) /\ SameDown(s, t) /\ SameLoop(s, t)
  <1> DEFINE none == {}
  <1> DEFINE r == PutWakers(s, none)
  <1> DEFINE u == SetState(r, Closing(s.st))
  <1> DEFINE b == TRUE
  <1>1. t = PutEnd(u, b, c) /\ b \in BOOLEAN /\ c \in {"none", "eof", "cut"}
    BY DEF CloseLocal, PutEnd, PutWakers
  <1>2. none \in SUBSET {"rx", "tx"} OBVIOUS
  <1> HIDE DEF none, b
  <1>3. /\ r \in Relay /\ r.wakers = none /\ r.edge = s.edge
        /\ SameUp(s, r) /\ SameDown(s, r) /\ SameSide(s, r) /\ SameLoop(s, r)
    BY <1>2, SetWakers
  <1> HIDE DEF r
  <1>4. /\ u \in Relay /\ u.st = Closing(s.st) /\ u.lcl = r.lcl /\ u.cause = r.cause
        /\ r.wakers = {} => u.wakers = {} /\ u.ev = r.ev
        /\ u.on = r.on /\ u.removed = r.removed
        /\ u.edge = r.edge /\ SameUp(r, u) /\ SameDown(r, u)
    <2> DEFINE x == Closing(s.st)
    <2>1. r \in Relay /\ x \in States BY <1>3, ClosingState
    <2> HIDE DEF x
    <2>2. u = SetState(r, x) BY DEF x
    <2>3. u.st = x BY <2>1, <2>2, SetStateFields
    <2> QED BY <2>1, <2>2, SetStateFields DEF x
  <1> HIDE DEF u
  <1>5. /\ t \in Relay /\ t.lcl = b /\ t.cause = c /\ t.st = u.st /\ t.wakers = u.wakers
        /\ t.edge = u.edge /\ SameUp(u, t) /\ SameDown(u, t) /\ SameLoop(u, t)
    BY <1>1, <1>4, SetEnd
  <1>6. none = {} /\ b = TRUE BY DEF none, b
  <1> QED BY <1>3, <1>4, <1>5, <1>6 DEF SameUp, SameDown, SameSide, SameLoop

PutRemote(s, b, e, q) == [s EXCEPT !.rcl = b, !.edge = e, !.in = q]
LEMMA SetRemote ==
    ASSUME NEW s \in Relay, NEW b \in BOOLEAN, NEW e \in SUBSET {"r", "w"}, NEW q \in Seq(Nat),
           NEW t, t = PutRemote(s, b, e, q)
    PROVE  /\ t \in Relay /\ t.rcl = b /\ t.sess = s.sess /\ t.in = q /\ t.edge = e
           /\ t.sock = s.sock /\ t.rbuf = s.rbuf /\ t.rx = s.rx /\ t.est = s.est /\ t.rend = s.rend
           /\ t.tx = s.tx /\ t.lbuf = s.lbuf /\ t.hs = s.hs /\ t.wakers = s.wakers
           /\ SameSide(s, t) /\ SameLoop(s, t)
  BY DEF PutRemote, Relay, SameSide, SameLoop

LEMMA CloseRemoteFields ==
    ASSUME NEW s \in Relay, ~s.rcl, NEW t, t = CloseRemote(s)
    PROVE  /\ t \in Relay /\ t.rcl = TRUE /\ t.sess = s.sess /\ t.in = Nil /\ t.edge = {}
           /\ t.sock = s.sock /\ t.rbuf = s.rbuf /\ t.rx = s.rx /\ t.est = s.est /\ t.rend = s.rend
           /\ t.tx = s.tx /\ t.lbuf = s.lbuf /\ t.hs = s.hs /\ t.wakers = s.wakers
           /\ SameSide(s, t) /\ SameLoop(s, t)
  <1> DEFINE b == TRUE
  <1> DEFINE e == {}
  <1> DEFINE q == Nil
  <1>1. t = PutRemote(s, b, e, q) BY DEF CloseRemote, PutRemote, Nil
  <1>2. b \in BOOLEAN /\ e \in SUBSET {"r", "w"} /\ q \in Seq(Nat) BY EmptySeqNat
  <1>3. b = TRUE /\ e = {} /\ q = Nil OBVIOUS
  <1> HIDE DEF b, e, q
  <1>4. /\ t \in Relay /\ t.rcl = b /\ t.sess = s.sess /\ t.in = q /\ t.edge = e
        /\ t.sock = s.sock /\ t.rbuf = s.rbuf /\ t.rx = s.rx /\ t.est = s.est /\ t.rend = s.rend
        /\ t.tx = s.tx /\ t.lbuf = s.lbuf /\ t.hs = s.hs /\ t.wakers = s.wakers
        /\ SameSide(s, t) /\ SameLoop(s, t)
    BY <1>1, <1>2, SetRemote
  <1> QED BY <1>3, <1>4

-----------------------------------------------------------------------------
(* Closing *)

LEMMA Fields ==
    ASSUME NEW s, Good(s)
    PROVE  /\ s \in Relay /\ s.st \in States /\ s.wakers \in SUBSET {"rx", "tx"} /\ s.ev \in SUBSET {"rx", "tx"}
           /\ s.rx \in Seq(Nat) /\ s.tx \in Seq(Nat) /\ s.lbuf \in Seq(Nat) /\ s.rbuf \in Seq(Nat)
           /\ s.sess \in Seq(Nat) /\ s.sock \in Seq(Nat) /\ s.in \in Seq(Nat)
           /\ s.on \in BOOLEAN /\ s.lcl \in BOOLEAN /\ s.rcl \in BOOLEAN /\ s.est \in BOOLEAN
           /\ s.hs \in BOOLEAN /\ s.removed \in BOOLEAN /\ s.cold \in BOOLEAN
           /\ s.rend \in {"open", "fin", "rst"} /\ s.edge \in SUBSET {"r", "w"}
           /\ s.cause \in {"none", "eof", "cut"} /\ s.age \in 0 .. 2
  BY DEF Good, Relay, States

LEMMA Lengths ==
    ASSUME NEW s, Good(s)
    PROVE  /\ Size(s.rx) \in Nat /\ Size(s.rx) <= RxCap /\ Size(s.tx) \in Nat /\ Size(s.tx) <= TxCap
           /\ Size(s.lbuf) \in Nat /\ Size(s.lbuf) <= 1 /\ Size(s.rbuf) \in Nat /\ Size(s.rbuf) <= 1
           /\ Size(s.sess) \in Nat /\ Size(s.sess) <= SessLimit
           /\ Size(s.sock) \in Nat /\ Size(s.sock) <= SockCap /\ Size(s.in) \in Nat
           /\ RxCap \in Nat /\ TxCap \in Nat \ {0} /\ SessLimit \in Nat \ {0} /\ SockCap \in Nat
           /\ NDown \in Nat /\ NUp \in Nat
  <1>1. /\ s.rx \in Seq(Nat) /\ s.tx \in Seq(Nat) /\ s.lbuf \in Seq(Nat) /\ s.rbuf \in Seq(Nat)
        /\ s.sess \in Seq(Nat) /\ s.sock \in Seq(Nat) /\ s.in \in Seq(Nat)
    BY Fields
  <1> QED BY <1>1, LenNat, TcpAssumption DEF Good

LEMMA PeerFields ==
    ASSUME NEW a, NEW v, Peers(a, v)
    PROVE  /\ a.out \in Nat /\ a.fin \in {"open", "fin", "rst"} /\ a.got \in Seq(Nat)
           /\ a.end \in {"open", "eof", "cut"} /\ Size(a.got) \in Nat
           /\ v.out \in Nat /\ v.fin \in BOOLEAN /\ v.got \in Seq(Nat) /\ Size(v.got) \in Nat
  <1>1. a.got \in Seq(Nat) /\ v.got \in Seq(Nat) BY DEF Peers
  <1> QED BY <1>1, LenNat DEF Peers

\* The application's side is closed with an end of stream that stands for the
\* server's only if all of its data are on their way.
LEMMA CloseLocalLemma ==
    ASSUME NEW s, NEW a, NEW v, Handling(s, a, v), NEW c \in {"eof", "cut"},
           c = "eof" => AllSent(s, a, v), NEW t, t = CloseLocal(s, c)
    PROVE  /\ Handling(t, a, v) /\ t.lcl /\ SameUp(s, t) /\ SameDown(s, t) /\ SameLoop(s, t)
           /\ UpWhole(s, a, v) => UpWhole(t, a, v)
  <1>0. /\ Good(s) /\ Peers(a, v) /\ Sides(s) /\ Flow(s, a, v) /\ s \in Relay
        /\ s.on /\ s.st \notin {"none", "gone"} /\ (s.removed => s.rcl)
    BY Fields DEF Handling
  <1>1. CASE s.lcl
    <2>1. t = s BY <1>1 DEF CloseLocal
    <2> QED BY <1>1, <2>1 DEF SameUp, SameDown, SameLoop
  <1>2. CASE ~s.lcl
    <2>1. /\ t \in Relay /\ t.st = Closing(s.st) /\ t.lcl = TRUE /\ t.cause = c
          /\ SameUp(s, t) /\ SameDown(s, t) /\ SameLoop(s, t)
      BY <1>0, <1>2, CloseLocalFields
    <2>2. t.st \notin {"none", "gone"} /\ ~Live(t) /\ ~MaySend(t)
      BY <1>0, <2>1, ClosingState DEF Live, MaySend
    <2>3. Good(t) BY <1>0, <2>1 DEF Good, SameUp, SameDown
    <2>4. Sides(t) BY <1>0, <2>1, <2>2 DEF Sides, SameUp, SameDown
    <2>5. Early(t, v) BY <1>0, <2>1 DEF Flow, Early, SameUp, SameDown
    <2>6. UpSent(t, a, v) BY <1>0, <2>1, <2>2 DEF Flow, UpSent, SameUp
    <2>7. DownSent(t, a, v) BY <1>0, <2>1, <2>2 DEF Flow, DownSent, SameUp, SameDown
    <2>8. DownWhole(t, a, v) BY <2>2 DEF DownWhole
    <2>9. EndWhole(t, a, v) BY <1>0, <2>1, <2>2 DEF EndWhole, AllSent, SameUp, SameDown
    <2>10. UpWhole(s, a, v) => UpWhole(t, a, v) BY <2>1 DEF UpWhole, UpLine, SameUp
    <2>11. t.on /\ (t.removed => t.rcl) BY <1>0, <2>1 DEF SameLoop, SameUp
    <2> QED BY <1>0, <2>1, <2>2, <2>3, <2>4, <2>5, <2>6, <2>7, <2>8, <2>9, <2>10, <2>11 DEF Handling, Flow
  <1> QED BY <1>1, <1>2

\* The connection to the server is closed only when no data of it are left, or
\* when they cannot go on.
NoneLeft(s) == Live(s) /\ s.rend # "rst" => s.rcl \/ Data(s) = Nil
LEMMA CloseRemoteLemma ==
    ASSUME NEW s, NEW a, NEW v, Handling(s, a, v), NEW t, t = CloseRemote(s), NoneLeft(s)
    PROVE  InHandler(t, a, v) /\ t.rcl /\ Kept(s, t) /\ t.lcl = s.lcl /\ t.est = s.est
  <1>0. /\ Good(s) /\ Peers(a, v) /\ Sides(s) /\ Flow(s, a, v) /\ s \in Relay
        /\ s.on /\ s.st \notin {"none", "gone"} /\ (s.removed => s.rcl)
    BY Fields DEF Handling
  <1>1. CASE s.rcl
    <2>1. t = s BY <1>1 DEF CloseRemote
    <2>2. UpWhole(t, a, v) BY <1>1, <2>1 DEF UpWhole
    <2> QED BY <1>1, <2>1, <2>2 DEF InHandler, Kept
  <1>2. CASE ~s.rcl
    <2>1. /\ t \in Relay /\ t.rcl = TRUE /\ t.sess = s.sess /\ t.in = Nil
          /\ t.sock = s.sock /\ t.rbuf = s.rbuf /\ t.rx = s.rx /\ t.est = s.est /\ t.rend = s.rend
          /\ t.tx = s.tx /\ t.lbuf = s.lbuf /\ t.hs = s.hs
          /\ SameSide(s, t) /\ SameLoop(s, t)
      BY ZenonT(60), <1>0, <1>2, CloseRemoteFields
    <2>2. t.st = s.st /\ (Live(t) <=> Live(s)) BY <2>1 DEF Live, SameSide
    <2>3. Good(t) BY <1>0, <2>1, EmptySeqNat, Lengths DEF Good
    <2>4. Sides(t) BY <1>0, <2>1, <2>2 DEF Sides, SameSide
    <2>5. Early(t, v) BY <1>0, <2>1 DEF Flow, Early
    <2>6. UpSent(t, a, v) BY <1>0, <2>1, <2>2 DEF Flow, UpSent
    <2>7. DownSent(t, a, v) BY <1>0, <2>1, <2>2 DEF Flow, DownSent, SameSide
    <2>8. DownWhole(t, a, v)
      <3> SUFFICES ASSUME Live(s) PROVE DownLine(t, a, v) BY <2>2 DEF DownWhole
      <3>1. DownLine(s, a, v) BY <1>0 DEF Flow, DownWhole
      <3>2. Data(t) = Nil /\ (s.rend # "rst" => Data(s) = Nil) BY <1>2, <2>1 DEF Data, NoneLeft
      <3>3. Size(a.got) \in Nat /\ Size(s.tx) \in Nat /\ Size(s.lbuf) \in Nat /\ v.out \in Nat
        BY <1>0, Lengths, PeerFields
      <3>4. Size(Data(s)) \in Nat BY <1>0, Fields, LenNat, EmptySeqNat DEF Data
      <3>5. Size(Data(t)) = 0 /\ \A n : Run(Data(t), n) BY <3>2, EmptySeqNat
      <3>6. s.rend # "rst" => Size(Data(s)) = 0 BY <3>2, EmptySeqNat
      <3> DEFINE n == Size(a.got) + Size(s.tx) + Size(s.lbuf)
      <3>7. n \in Nat /\ n + Size(Data(s)) <= v.out /\ (s.rend # "rst" => n + Size(Data(s)) = v.out)
        <4>1. n + Size(Data(s)) <= v.out /\ (s.rend # "rst" => n + Size(Data(s)) = v.out)
          BY <3>1 DEF DownLine
        <4>2. n \in Nat BY <3>3
        <4> HIDE DEF n
        <4> QED BY <4>1, <4>2
      <3> HIDE DEF n
      <3>8. n + 0 <= v.out /\ (s.rend # "rst" => n + 0 = v.out) BY <3>3, <3>4, <3>6, <3>7
      <3>9. /\ n + Size(Data(t)) <= v.out /\ (t.rend # "rst" => n + Size(Data(t)) = v.out)
            /\ Run(s.lbuf, 1 + Size(a.got) + Size(s.tx))
        BY <2>1, <3>1, <3>5, <3>8 DEF DownLine
      <3> QED BY <2>1, <3>5, <3>9 DEF DownLine, n
    <2>9. EndWhole(t, a, v) BY <1>0, <2>1, <2>2 DEF Flow, EndWhole, AllSent, SameSide
    <2>10. UpWhole(t, a, v) BY <2>1 DEF UpWhole
    <2>11. t.on /\ (t.removed => t.rcl) BY <1>0, <2>1 DEF SameLoop
    <2>12. Handling(t, a, v)
      BY <1>0, <2>2, <2>3, <2>4, <2>5, <2>6, <2>7, <2>8, <2>9, <2>11 DEF Handling, Flow
    <2> QED BY <1>2, <2>1, <2>10, <2>12 DEF InHandler, Kept, SameSide, SameLoop
  <1> QED BY <1>1, <1>2

-----------------------------------------------------------------------------
(* Towards the server *)

\* All but the four buffers on the way to the server.
SameBut(s, t) ==
    /\ SameDown(s, t) /\ SameSide(s, t) /\ SameLoop(s, t)
    /\ t.est = s.est /\ t.rend = s.rend /\ t.rcl = s.rcl /\ t.cold = s.cold

PutSess(s, q) == [s EXCEPT !.sess = q]
LEMMA SetSess ==
    ASSUME NEW s \in Relay, NEW q \in Seq(Nat), NEW t, t = PutSess(s, q)
    PROVE  /\ t \in Relay /\ t.wakers = s.wakers /\ t.edge = s.edge
           /\ t.sess = q /\ t.sock = s.sock /\ t.rbuf = s.rbuf /\ t.rx = s.rx
           /\ SameBut(s, t)
  BY DEF PutSess, Relay, SameBut, SameDown, SameSide, SameLoop

PutSent(s, p, q) == [s EXCEPT !.sock = p, !.sess = q]
LEMMA SetSent ==
    ASSUME NEW s \in Relay, NEW p \in Seq(Nat), NEW q \in Seq(Nat), NEW t, t = PutSent(s, p, q)
    PROVE  /\ t \in Relay /\ t.wakers = s.wakers /\ t.edge = s.edge
           /\ t.sock = p /\ t.sess = q /\ t.rbuf = s.rbuf /\ t.rx = s.rx
           /\ SameBut(s, t)
  BY DEF PutSent, Relay, SameBut, SameDown, SameSide, SameLoop

PutRead(s, p, q) == [s EXCEPT !.rbuf = p, !.rx = q]
LEMMA SetRead ==
    ASSUME NEW s \in Relay, NEW p \in Seq(Nat), NEW q \in Seq(Nat), NEW t, t = PutRead(s, p, q)
    PROVE  /\ t \in Relay /\ t.wakers = s.wakers /\ t.edge = s.edge
           /\ t.rbuf = p /\ t.rx = q /\ t.sock = s.sock /\ t.sess = s.sess
           /\ SameBut(s, t)
  BY DEF PutRead, Relay, SameBut, SameDown, SameSide, SameLoop

PutRbuf(s, p) == [s EXCEPT !.rbuf = p]
LEMMA SetRbuf ==
    ASSUME NEW s \in Relay, NEW p \in Seq(Nat), NEW t, t = PutRbuf(s, p)
    PROVE  /\ t \in Relay /\ t.wakers = s.wakers /\ t.edge = s.edge
           /\ t.rbuf = p /\ t.rx = s.rx /\ t.sock = s.sock /\ t.sess = s.sess
           /\ SameBut(s, t)
  BY DEF PutRbuf, Relay, SameBut, SameDown, SameSide, SameLoop

LEMMA SameButTrans ==
    ASSUME NEW s, NEW t, NEW u, SameBut(s, t), SameBut(t, u) PROVE SameBut(s, u)
  BY DEF SameBut, SameDown, SameSide, SameLoop

LEMMA TakeNone ==
    ASSUME NEW p \in Seq(Nat), NEW q \in Seq(Nat)
    PROVE  p \o Take(q, 0) = p
  <1>1. Size(q) \in Nat BY LenNat
  <1>2. Take(q, 0) \in Seq(Nat) /\ Size(Take(q, 0)) = 0 BY <1>1, SplitLemma
  <1>3. Take(q, 0) = Nil BY <1>2, LenNat
  <1> QED BY <1>3, ConcatNat

\* What a session passes on to the kernel.
LEMMA Passed ==
    ASSUME NEW p \in Seq(Nat), NEW q \in Seq(Nat), NEW n \in 0 .. Size(q)
    PROVE  /\ p \o Take(q, n) \in Seq(Nat) /\ Size(p \o Take(q, n)) = Size(p) + n
           /\ Rest(q, n) \in Seq(Nat) /\ Size(Rest(q, n)) = Size(q) - n
           /\ \A a \in Nat : Run(p, a) /\ Run(q, a + Size(p))
                => Run(p \o Take(q, n), a) /\ Run(Rest(q, n), a + Size(p) + n)
  <1>0. Size(p) \in Nat /\ Size(q) \in Nat BY LenNat
  <1>1. /\ Take(q, n) \in Seq(Nat) /\ Size(Take(q, n)) = n
        /\ Rest(q, n) \in Seq(Nat) /\ Size(Rest(q, n)) = Size(q) - n
    BY SplitLemma
  <1>2. p \o Take(q, n) \in Seq(Nat) /\ Size(p \o Take(q, n)) = Size(p) + Size(Take(q, n))
    BY <1>1, ConcatNat
  <1>3. ASSUME NEW a \in Nat, Run(p, a), Run(q, a + Size(p))
        PROVE  Run(p \o Take(q, n), a) /\ Run(Rest(q, n), a + Size(p) + n)
    <2>1. a + Size(p) \in Nat BY <1>0
    <2>2. Run(Take(q, n), a + Size(p)) /\ Run(Rest(q, n), a + Size(p) + n)
      BY <1>3, <2>1, RunSplit
    <2> QED BY <1>1, <1>3, <2>2, RunConcat
  <1> QED BY <1>1, <1>2, <1>3

\* write_tls hands m units on: none while the handshake lasts, otherwise as many
\* as the kernel takes.
HandedOn(s, t, m) ==
    /\ t \in Relay /\ t.sock = s.sock \o Take(s.sess, m) /\ t.sess = Rest(s.sess, m)
    /\ t.edge = s.edge /\ t.rbuf = s.rbuf /\ t.rx = s.rx /\ SameBut(s, t)
    /\ Size(s.sock) + m <= SockCap
    /\ ~s.hs \/ s.rcl => m = 0
    /\ s.hs /\ ~s.rcl => m = Size(s.sess) \/ Size(s.sock) + m = SockCap
LEMMA FlushedFields ==
    ASSUME NEW s \in Relay, Size(s.sock) <= SockCap, NEW t, t = Flushed(s)
    PROVE  \E m \in 0 .. Size(s.sess) : HandedOn(s, t, m)
  <1> DEFINE x == Size(s.sock)
  <1> DEFINE y == Size(s.sess)
  <1> DEFINE m == IF s.hs /\ ~s.rcl THEN Least(SockCap - x, y) ELSE 0
  <1>1. s.sock \in Seq(Nat) /\ s.sess \in Seq(Nat) BY DEF Relay
  <1>2. x \in Nat /\ y \in Nat /\ SockCap \in Nat /\ x <= SockCap BY <1>1, LenNat, TcpAssumption
  <1>3. t = PutSent(s, s.sock \o Take(s.sess, m), Rest(s.sess, m))
    BY DEF Flushed, PutSent, Size
  <1> HIDE DEF x, y
  <1>4. /\ m \in 0 .. y /\ x + m <= SockCap /\ (~s.hs \/ s.rcl => m = 0)
        /\ s.hs /\ ~s.rcl => m = y \/ x + m = SockCap
    BY <1>2 DEF Least
  <1> HIDE DEF m
  <1>5. m \in 0 .. Size(s.sess) /\ Size(s.sock) + m <= SockCap
        /\ (s.hs /\ ~s.rcl => m = Size(s.sess) \/ Size(s.sock) + m = SockCap)
    BY <1>4 DEF x, y
  <1> DEFINE p == s.sock \o Take(s.sess, m)
  <1> DEFINE q == Rest(s.sess, m)
  <1>6. p \in Seq(Nat) /\ q \in Seq(Nat) BY <1>1, <1>5, Passed
  <1>7. t = PutSent(s, p, q) BY <1>3
  <1> HIDE DEF p, q
  <1>8. t \in Relay /\ t.edge = s.edge /\ t.sock = p /\ t.sess = q /\ t.rbuf = s.rbuf /\ t.rx = s.rx /\ SameBut(s, t)
    BY <1>6, <1>7, SetSent
  <1>9. HandedOn(s, t, m) BY <1>4, <1>5, <1>8 DEF p, q, HandedOn
  <1> QED BY <1>5, <1>9

\* Nothing that is said of the way to the application changes with the buffers on
\* the way to the server.
LEMMA UpChanged ==
    ASSUME NEW s, NEW a, NEW v, Handling(s, a, v), NEW t, Good(t), SameBut(s, t),
           s.rend # "rst" => Run(t.sock, Size(v.got)) /\ Size(v.got) + Size(t.sock) <= a.out + 1,
           ~s.est => t.sess = Nil /\ t.sock = Nil /\ t.rbuf = Nil /\ t.rx = s.rx,
           ~s.hs => t.sock = Nil
    PROVE  Handling(t, a, v)
  <1>0. /\ Peers(a, v) /\ Sides(s) /\ Flow(s, a, v)
        /\ s.on /\ s.st \notin {"none", "gone"} /\ (s.removed => s.rcl)
    BY DEF Handling
  <1>1. t.on /\ t.st = s.st /\ (t.removed => t.rcl) /\ (Live(t) <=> Live(s))
    BY <1>0 DEF SameBut, SameLoop, SameSide, Live
  <1>2. Sides(t) BY <1>0, <1>1 DEF Sides, SameBut, SameSide, SameDown
  <1>3. Early(t, v) BY <1>0 DEF Flow, Early, SameBut, SameDown
  <1>4. UpSent(t, a, v) BY <1>0, <1>1 DEF Flow, UpSent, SameBut
  <1>5. DownSent(t, a, v) BY <1>0, <1>1 DEF Flow, DownSent, SameBut, SameDown, SameSide
  <1>6. DownWhole(t, a, v) BY <1>0, <1>1 DEF Flow, DownWhole, DownLine, Data, SameBut, SameDown
  <1>7. EndWhole(t, a, v) BY <1>0, <1>1 DEF Flow, EndWhole, AllSent, SameBut, SameDown, SameSide
  <1> QED BY <1>0, <1>1, <1>2, <1>3, <1>4, <1>5, <1>6, <1>7 DEF Handling, Flow

LEMMA FlushedLemma ==
    ASSUME NEW s, NEW a, NEW v, InHandler(s, a, v), NEW t, t = Flushed(s)
    PROVE  InHandler(t, a, v) /\ Kept(s, t) /\ SameBut(s, t)
  <1> DEFINE g == Size(v.got)
  <1> DEFINE x == Size(s.sock)
  <1> DEFINE y == Size(s.sess)
  <1>0. /\ Handling(s, a, v) /\ Good(s) /\ s \in Relay /\ Peers(a, v) /\ Flow(s, a, v) /\ UpWhole(s, a, v)
        /\ s.sock \in Seq(Nat) /\ s.sess \in Seq(Nat) /\ s.est \in BOOLEAN /\ s.rcl \in BOOLEAN
        /\ s.hs \in BOOLEAN
    BY Fields DEF InHandler, Handling
  <1>1. /\ g \in Nat /\ x \in Nat /\ y \in Nat /\ a.out \in Nat /\ SockCap \in Nat /\ SessLimit \in Nat
        /\ x <= SockCap /\ y <= SessLimit /\ Size(s.rbuf) \in Nat /\ Size(s.rx) \in Nat
    BY <1>0, Lengths, PeerFields
  <1>a. PICK m \in 0 .. y : HandedOn(s, t, m) BY <1>0, <1>1, FlushedFields
  <1>2. /\ t \in Relay /\ t.sock = s.sock \o Take(s.sess, m) /\ t.sess = Rest(s.sess, m)
        /\ t.rbuf = s.rbuf /\ t.rx = s.rx /\ SameBut(s, t)
        /\ x + m <= SockCap
        /\ ~s.hs \/ s.rcl => m = 0
    BY <1>a DEF HandedOn
  <1>3. /\ t.sock \in Seq(Nat) /\ Size(t.sock) = x + m
        /\ t.sess \in Seq(Nat) /\ Size(t.sess) = y - m
        /\ Run(s.sock, g) /\ Run(s.sess, g + x) => Run(t.sock, g) /\ Run(t.sess, g + x + m)
    <2>1. m \in 0 .. Size(s.sess) BY <1>2
    <2>2. /\ s.sock \o Take(s.sess, m) \in Seq(Nat) /\ Size(s.sock \o Take(s.sess, m)) = Size(s.sock) + m
          /\ Rest(s.sess, m) \in Seq(Nat) /\ Size(Rest(s.sess, m)) = Size(s.sess) - m
          /\ \A n \in Nat : Run(s.sock, n) /\ Run(s.sess, n + Size(s.sock))
                => Run(s.sock \o Take(s.sess, m), n) /\ Run(Rest(s.sess, m), n + Size(s.sock) + m)
      BY <1>0, <2>1, Passed
    <2> QED BY <1>1, <1>2, <2>2
  <1>4. m = 0 => t.sock = s.sock BY <1>0, <1>2, TakeNone
  <1>5. Good(t)
    <2>1. Size(t.sock) <= SockCap /\ Size(t.sess) <= SessLimit BY <1>1, <1>2, <1>3
    <2> QED BY <1>0, <1>2, <2>1 DEF Good, SameBut, SameDown
  <1>6. ~s.est => m = 0 /\ t.sess = Nil
    <2>1. ~s.est => y = 0 BY <1>0, EmptySeqNat DEF Flow, Early
    <2>2. ~s.est => Size(t.sess) = 0 /\ m = 0 BY <1>1, <1>3, <2>1
    <2> QED BY <1>3, <2>2, LenNat
  <1>7. s.rend # "rst" => Run(t.sock, g) /\ g + Size(t.sock) <= a.out + 1
    <2> SUFFICES ASSUME s.rend # "rst" PROVE Run(t.sock, g) /\ g + Size(t.sock) <= a.out + 1 OBVIOUS
    <2>1. Run(s.sock, g) /\ g + x <= a.out + 1 BY <1>0 DEF Flow, UpSent
    <2>2. CASE m = 0 BY <1>4, <2>1, <2>2
    <2>3. CASE m # 0
      <3>1. s.est /\ ~s.rcl BY <1>0, <1>2, <1>6, <2>3
      <3>2. UpLine(s, a, v) BY <1>0, <3>1 DEF UpWhole
      <3>3. Run(s.sess, g + x) /\ g + x + y + Size(s.rbuf) + Size(s.rx) = a.out + 1 BY <3>2 DEF UpLine
      <3>4. Run(t.sock, g) BY <1>3, <2>1, <3>3
      <3> HIDE DEF g, x, y
      <3>5. g + (x + m) <= a.out + 1 BY <1>1, <1>2, <3>3
      <3> QED BY <1>3, <3>4, <3>5
    <2> QED BY <2>2, <2>3
  <1>8. ~s.hs => t.sock = Nil BY <1>0, <1>2, <1>4 DEF Flow, Early
  <1>9. ~s.est => t.sess = Nil /\ t.sock = Nil /\ t.rbuf = Nil /\ t.rx = s.rx
    BY <1>0, <1>2, <1>4, <1>6 DEF Flow, Early
  <1>10. Handling(t, a, v) BY <1>0, <1>2, <1>5, <1>7, <1>8, <1>9, UpChanged
  <1>11. UpWhole(t, a, v)
    <2> SUFFICES ASSUME t.est, ~t.rcl, t.rend # "rst" PROVE UpLine(t, a, v) BY DEF UpWhole
    <2>1. s.est /\ ~s.rcl /\ s.rend # "rst" BY <1>2 DEF SameBut
    <2>2. UpLine(s, a, v) /\ Run(s.sock, g) BY <1>0, <2>1 DEF UpWhole, Flow, UpSent
    <2>3. /\ Run(s.sess, g + x) /\ Run(s.rbuf, g + x + y) /\ Run(s.rx, g + x + y + Size(s.rbuf))
          /\ g + x + y + Size(s.rbuf) + Size(s.rx) = a.out + 1
      BY <2>2 DEF UpLine
    <2>4. Run(t.sess, g + x + m) BY <1>3, <2>2, <2>3
    <2>5. g + (x + m) = g + x + m /\ g + (x + m) + (y - m) = g + x + y
      <3> HIDE DEF g, x, y
      <3> QED BY <1>1, <1>2
    <2> QED BY <1>2, <1>3, <2>3, <2>4, <2>5 DEF UpLine
  <1>12. Kept(s, t) BY <1>2, <1>4 DEF Kept, SameBut, SameLoop
  <1> QED BY <1>2, <1>10, <1>11, <1>12 DEF InHandler

LEMMA FlushRemoteLemma ==
    ASSUME NEW s, NEW a, NEW v, InHandler(s, a, v), NEW t, t = FlushRemote(s)
    PROVE  InHandler(t, a, v) /\ Kept(s, t)
  <1>1. CASE s.rend = "rst"
    <2>1. t = CloseRemote(s) BY <1>1 DEF FlushRemote
    <2>2. Handling(s, a, v) /\ NoneLeft(s) BY <1>1 DEF InHandler, NoneLeft
    <2> QED BY <2>1, <2>2, CloseRemoteLemma
  <1>2. CASE s.rend # "rst"
    <2>1. t = Flushed(s) BY <1>2 DEF FlushRemote
    <2> QED BY <2>1, FlushedLemma
  <1> QED BY <1>1, <1>2

\* The sizes of what copy_stream takes, and of what the session keeps of it.
FitCount(x, y, z, hs, shut) ==
    Least(z, (SessLimit - y) + (IF hs /\ ~shut THEN SockCap - x ELSE 0))
LEMMA Fitting ==
    ASSUME NEW x \in Nat, NEW y \in Nat, NEW z \in Nat, x <= SockCap, y <= SessLimit,
           NEW hs \in BOOLEAN, NEW shut \in BOOLEAN, NEW n,
           n = FitCount(x, y, z, hs, shut)
    PROVE  /\ n \in 0 .. z
           /\ \A m \in 0 .. y + n :
                /\ ~hs \/ shut => m = 0
                /\ hs /\ ~shut => m = y + n \/ x + m = SockCap
                => (y + n) - m <= SessLimit
  <1>0. SessLimit \in Nat /\ SockCap \in Nat BY TcpAssumption
  <1> DEFINE room == (SessLimit - y) + (IF hs /\ ~shut THEN SockCap - x ELSE 0)
  <1>1. room \in Nat BY <1>0
  <1>2. n \in 0 .. z /\ n <= room
    <2> HIDE DEF room
    <2>1. n = Least(z, room) BY DEF room, FitCount
    <2> QED BY <1>1, <2>1 DEF Least
  <1>3. ASSUME NEW m \in 0 .. y + n, ~hs \/ shut => m = 0,
               hs /\ ~shut => m = y + n \/ x + m = SockCap
        PROVE  (y + n) - m <= SessLimit
    <2>0. n \in Nat /\ m \in Nat /\ m <= y + n BY <1>2, <1>3
    <2>2. CASE shut \/ ~hs
      <3>1. n <= SessLimit - y BY <1>0, <1>2, <2>2
      <3>2. m = 0 BY <1>3, <2>2
      <3> QED BY <1>0, <2>0, <3>1, <3>2
    <2>3. CASE ~shut /\ hs
      <3>1. n <= (SessLimit - y) + (SockCap - x) BY <1>2, <2>3
      <3>2. m = y + n \/ x + m = SockCap BY <1>3, <2>3
      <3> QED BY <1>0, <2>0, <3>1, <3>2
    <2> QED BY <2>2, <2>3
  <1> QED BY <1>2, <1>3

\* How many of the units h.
Copied(s, h) == FitCount(Size(s.sock), Size(s.sess), Size(h), s.hs, s.rcl)

\* copy_stream up to its result: n units of those that the connection holds are
\* written to the session, which hands on what the kernel takes.
UpTaken(s, a, v, h, n, f) ==
    /\ h \in Seq(Nat) /\ Size(h) \in Nat /\ Size(h) = Size(s.rbuf) + Size(s.rx) /\ n \in 0 .. Size(h)
    /\ f \in Relay /\ SameBut(s, f) /\ Size(f.sock) <= SockCap /\ Size(f.sess) <= SessLimit
    /\ f.sock \in Seq(Nat) /\ f.sess \in Seq(Nat)
    /\ ~s.hs \/ s.rcl => f.sock = s.sock
    /\ s.est /\ ~s.rcl /\ s.rend # "rst" =>
         /\ Run(f.sock, Size(v.got)) /\ Run(f.sess, Size(v.got) + Size(f.sock))
         /\ Run(h, Size(v.got) + Size(s.sock) + Size(s.sess))
         /\ Size(f.sock) + Size(f.sess) = Size(s.sock) + Size(s.sess) + n
         /\ Size(v.got) + Size(s.sock) + Size(s.sess) + Size(h) = a.out + 1
LEMMA CopyUpFields ==
    ASSUME NEW s, NEW a, NEW v, InHandler(s, a, v), NEW u, NEW f, NEW n, NEW h, h = s.rbuf \o s.rx, n = Copied(s, h),
           u = PutSess(s, s.sess \o Take(h, n)), f = Flushed(u)
    PROVE  UpTaken(s, a, v, h, n, f)
  <1> DEFINE g == Size(v.got)
  <1> DEFINE x == Size(s.sock)
  <1> DEFINE y == Size(s.sess)
  <1> DEFINE z == Size(h)
  <1>0. /\ Handling(s, a, v) /\ Good(s) /\ s \in Relay /\ Peers(a, v) /\ Flow(s, a, v) /\ UpWhole(s, a, v)
        /\ s.sock \in Seq(Nat) /\ s.sess \in Seq(Nat) /\ s.rbuf \in Seq(Nat) /\ s.rx \in Seq(Nat)
        /\ s.est \in BOOLEAN /\ s.rcl \in BOOLEAN /\ s.hs \in BOOLEAN
    BY Fields DEF InHandler, Handling
  <1>1. /\ g \in Nat /\ x \in Nat /\ y \in Nat /\ a.out \in Nat /\ SockCap \in Nat /\ SessLimit \in Nat
        /\ x <= SockCap /\ y <= SessLimit /\ Size(s.rbuf) \in Nat /\ Size(s.rx) \in Nat
    BY <1>0, Lengths, PeerFields
  <1>2. h \in Seq(Nat) /\ z = Size(s.rbuf) + Size(s.rx) /\ z \in Nat
    BY <1>0, ConcatNat, LenNat
  <1>3. /\ n \in 0 .. z
        /\ \A m \in 0 .. y + n :
             /\ ~s.hs \/ s.rcl => m = 0
             /\ s.hs /\ ~s.rcl => m = y + n \/ x + m = SockCap
             => (y + n) - m <= SessLimit
    <2> HIDE DEF x, y, z
    <2>1. n = FitCount(x, y, z, s.hs, s.rcl)
      BY DEF x, y, z, Copied
    <2>2. s.hs \in BOOLEAN /\ s.rcl \in BOOLEAN BY <1>0
    <2>3. x \in Nat /\ y \in Nat /\ z \in Nat /\ x <= SockCap /\ y <= SessLimit BY <1>1, <1>2
    <2> QED BY ZenonT(60), <2>1, <2>2, <2>3, Fitting
  <1>4. n \in 0 .. Size(h) BY <1>3
  <1> DEFINE q == s.sess \o Take(h, n)
  <1>5. /\ q \in Seq(Nat) /\ Size(q) = y + n
        /\ \A e \in Nat : Run(s.sess, e) /\ Run(h, e + y) => Run(q, e)
    <2>1. /\ s.sess \o Take(h, n) \in Seq(Nat) /\ Size(s.sess \o Take(h, n)) = Size(s.sess) + n
          /\ \A e \in Nat : Run(s.sess, e) /\ Run(h, e + Size(s.sess))
                => Run(s.sess \o Take(h, n), e) /\ Run(Rest(h, n), e + Size(s.sess) + n)
      BY ZenonT(60), <1>0, <1>2, <1>4, Passed
    <2> QED BY <2>1
  <1>6. u = PutSess(s, q) OBVIOUS
  <1> HIDE DEF q
  <1>7. /\ u \in Relay /\ u.sess = q /\ u.sock = s.sock /\ u.rbuf = s.rbuf /\ u.rx = s.rx
        /\ SameBut(s, u)
    <2>1. s \in Relay /\ q \in Seq(Nat) BY <1>0, <1>5
    <2> QED BY <1>6, <2>1, SetSess
  <1>8. u.hs = s.hs /\ u.rcl = s.rcl BY <1>7 DEF SameBut, SameDown
  <1>9. Size(u.sock) <= SockCap BY <1>1, <1>7
  <1>a. PICK m \in 0 .. Size(u.sess) : HandedOn(u, f, m) BY <1>7, <1>9, FlushedFields
  <1>10. /\ f \in Relay /\ f.sock = u.sock \o Take(u.sess, m) /\ f.sess = Rest(u.sess, m)
         /\ f.rbuf = u.rbuf /\ f.rx = u.rx /\ SameBut(u, f)
         /\ Size(u.sock) + m <= SockCap
         /\ ~u.hs \/ u.rcl => m = 0
         /\ u.hs /\ ~u.rcl => m = Size(u.sess) \/ Size(u.sock) + m = SockCap
    BY <1>a DEF HandedOn
  <1>11. m \in 0 .. y + n /\ m \in 0 .. Size(q) BY <1>5, <1>7, <1>10
  <1>12. /\ f.sock \in Seq(Nat) /\ Size(f.sock) = x + m
         /\ f.sess \in Seq(Nat) /\ Size(f.sess) = (y + n) - m
         /\ Run(s.sock, g) /\ Run(q, g + x) => Run(f.sock, g) /\ Run(f.sess, g + x + m)
    <2>1. /\ s.sock \o Take(q, m) \in Seq(Nat) /\ Size(s.sock \o Take(q, m)) = Size(s.sock) + m
          /\ Rest(q, m) \in Seq(Nat) /\ Size(Rest(q, m)) = Size(q) - m
          /\ \A e \in Nat : Run(s.sock, e) /\ Run(q, e + Size(s.sock))
                => Run(s.sock \o Take(q, m), e) /\ Run(Rest(q, m), e + Size(s.sock) + m)
      BY <1>0, <1>5, <1>11, Passed
    <2> QED BY <1>1, <1>5, <1>7, <1>10, <2>1
  <1>13. Size(f.sock) <= SockCap BY <1>7, <1>10, <1>12
  <1>14. Size(f.sess) <= SessLimit BY <1>3, <1>5, <1>7, <1>8, <1>10, <1>11, <1>12
  <1>15. ~s.hs \/ s.rcl => f.sock = s.sock
    <2>1. s.sock \o Take(q, 0) = s.sock BY <1>0, <1>5, TakeNone
    <2> QED BY <1>7, <1>8, <1>10, <2>1
  <1>16. SameBut(s, f) BY <1>7, <1>10, SameButTrans
  <1>17. ASSUME s.est, ~s.rcl, s.rend # "rst"
         PROVE  /\ Run(f.sock, g) /\ Run(f.sess, g + Size(f.sock)) /\ Run(h, g + x + y)
                /\ Size(f.sock) + Size(f.sess) = x + y + n
                /\ g + x + y + z = a.out + 1
    <2>1. UpLine(s, a, v) /\ Run(s.sock, g) BY <1>0, <1>17 DEF UpWhole, Flow, UpSent
    <2>2. /\ Run(s.sess, g + x) /\ Run(s.rbuf, g + x + y) /\ Run(s.rx, g + x + y + Size(s.rbuf))
          /\ g + x + y + Size(s.rbuf) + Size(s.rx) = a.out + 1
      BY <2>1 DEF UpLine
    <2>3. g + x \in Nat /\ g + x + y \in Nat BY <1>1
    <2>4. Run(h, g + x + y) BY <1>0, <2>2, <2>3, RunConcat
    <2>5. Run(q, g + x) BY <1>5, <2>2, <2>3, <2>4
    <2>6. Run(f.sock, g) /\ Run(f.sess, g + x + m) BY <1>12, <2>1, <2>5
    <2>7. /\ g + (x + m) = g + x + m /\ (x + m) + ((y + n) - m) = x + y + n
          /\ g + x + y + z = a.out + 1
      <3> HIDE DEF g, x, y, z
      <3>1. n \in Nat /\ m \in Nat BY <1>3, <1>11
      <3> QED BY SMTT(60), <1>1, <1>2, <2>2, <3>1
    <2> QED BY <1>12, <2>4, <2>6, <2>7
  <1> QED BY <1>2, <1>3, <1>10, <1>12, <1>13, <1>14, <1>15, <1>16, <1>17 DEF UpTaken

\* What copy_stream has read but not written is put back, or dropped.
LEMMA CopyUpLemma ==
    ASSUME NEW s, NEW a, NEW v, InHandler(s, a, v), s.est, NEW t, t = CopyUp(s)
    PROVE  InHandler(t, a, v) /\ Kept(s, t) /\ t.est = s.est
  <1> DEFINE h == s.rbuf \o s.rx
  <1> DEFINE n == Copied(s, h)
  <1> DEFINE u == PutSess(s, s.sess \o Take(h, n))
  <1> DEFINE f == Flushed(u)
  <1> DEFINE hand == <<h[n + 1]>>
  <1> DEFINE b == PutRead(f, hand, Rest(h, n + 1))
  <1> DEFINE c == PutRbuf(b, Nil)
  <1> DEFINE d == PutRead(f, Nil, Nil)
  <1>1. t = IF n < Size(h)
            THEN IF s.hs /\ ~s.rcl /\ s.rend # "rst" THEN b ELSE CloseRemote(c)
            ELSE IF d.st \in {"est", "finwait"} THEN d ELSE CloseLocal(d, "cut")
    BY DEF CopyUp, PutRead, PutRbuf, Copied, FitCount, PutSess, Size, Nil
  <1> DEFINE g == Size(v.got)
  <1>0. /\ Handling(s, a, v) /\ Good(s) /\ Peers(a, v) /\ Flow(s, a, v) /\ UpWhole(s, a, v)
        /\ s.est \in BOOLEAN /\ s.rcl \in BOOLEAN /\ s.hs \in BOOLEAN
    BY Fields DEF InHandler, Handling
  <1>2. /\ g \in Nat /\ Size(s.sock) \in Nat /\ Size(s.sess) \in Nat /\ a.out \in Nat
        /\ Size(s.rbuf) \in Nat /\ Size(s.rbuf) <= 1 /\ Size(s.rx) \in Nat
        /\ Size(s.rx) <= RxCap /\ RxCap \in Nat
    BY <1>0, Lengths, PeerFields
  <1>b. h = s.rbuf \o s.rx /\ n = Copied(s, h) /\ u = PutSess(s, s.sess \o Take(h, n)) /\ f = Flushed(u)
    OBVIOUS
  <1> HIDE DEF h, n, u, f
  <1>3. /\ h \in Seq(Nat) /\ Size(h) \in Nat /\ Size(h) = Size(s.rbuf) + Size(s.rx) /\ n \in 0 .. Size(h)
        /\ f \in Relay /\ SameBut(s, f) /\ Size(f.sock) <= SockCap /\ Size(f.sess) <= SessLimit
        /\ f.sock \in Seq(Nat) /\ f.sess \in Seq(Nat)
        /\ ~s.hs \/ s.rcl => f.sock = s.sock
        /\ s.est /\ ~s.rcl /\ s.rend # "rst" =>
             /\ Run(f.sock, Size(v.got)) /\ Run(f.sess, Size(v.got) + Size(f.sock))
             /\ Run(h, Size(v.got) + Size(s.sock) + Size(s.sess))
             /\ Size(f.sock) + Size(f.sess) = Size(s.sock) + Size(s.sess) + n
             /\ Size(v.got) + Size(s.sock) + Size(s.sess) + Size(h) = a.out + 1
    <2>1. UpTaken(s, a, v, h, n, f) BY <1>b, CopyUpFields
    <2> QED BY <2>1 DEF UpTaken
  <1>c. Size(h) \in Nat /\ n \in Nat /\ n <= Size(h) /\ Size(h) = Size(s.rbuf) + Size(s.rx) /\ f \in Relay
    BY <1>3
  <1>4. Size(f.sock) \in Nat /\ Size(f.sess) \in Nat BY <1>3, LenNat
  <1>a. Nil \in Seq(Nat) /\ Size(Nil) = 0 /\ \A e : Run(Nil, e) BY EmptySeqNat
  \* What is said of the kernel's buffer holds of every record that has f's.
  <1>5. ASSUME NEW r, Good(r), SameBut(s, r), r.sock = f.sock PROVE Handling(r, a, v)
    <2>1. s.rend # "rst" => Run(r.sock, g) /\ g + Size(r.sock) <= a.out + 1
      <3> SUFFICES ASSUME s.rend # "rst" PROVE Run(f.sock, g) /\ g + Size(f.sock) <= a.out + 1 BY <1>5
      <3>1. CASE s.rcl
        <4>1. f.sock = s.sock BY <1>3, <3>1
        <4> QED BY <1>0, <4>1 DEF Flow, UpSent
      <3>2. CASE ~s.rcl
        <4>1. /\ Run(f.sock, g) /\ Size(f.sock) + Size(f.sess) = Size(s.sock) + Size(s.sess) + n
              /\ g + Size(s.sock) + Size(s.sess) + Size(h) = a.out + 1
          BY <1>3, <3>2
        <4> HIDE DEF g
        <4>2. g + Size(f.sock) <= a.out + 1 BY <1>2, <1>c, <1>4, <4>1
        <4> QED BY <4>1, <4>2
      <3> QED BY <3>1, <3>2
    <2>2. ~s.hs => r.sock = Nil BY <1>0, <1>3, <1>5 DEF Flow, Early
    <2> QED BY <1>0, <1>5, <2>1, <2>2, UpChanged
  <1>6. ASSUME NEW r, SameBut(s, r), r.sock = f.sock PROVE Kept(s, r)
    BY <1>3, <1>6 DEF Kept, SameBut, SameLoop
  <1>7. CASE n < Size(h)
    <2>1. /\ hand \in Seq(Nat) /\ Size(hand) = 1
          /\ Rest(h, n + 1) \in Seq(Nat) /\ Size(Rest(h, n + 1)) = Size(h) - (n + 1)
          /\ \A e \in Nat : Run(h, e) => Run(hand, e + n) /\ Run(Rest(h, n + 1), e + n + 1)
      BY <1>3, <1>7, RunHand
    <2> DEFINE q == Rest(h, n + 1)
    <2> HIDE DEF hand, q
    <2>2. /\ b \in Relay /\ b.rbuf = hand /\ b.rx = q /\ b.sock = f.sock /\ b.sess = f.sess /\ SameBut(f, b)
      <3>1. b = PutRead(f, hand, q) /\ hand \in Seq(Nat) /\ q \in Seq(Nat) BY <2>1 DEF q
      <3> HIDE DEF b
      <3> QED BY <1>c, <3>1, SetRead
    <2> HIDE DEF b
    <2>3. SameBut(s, b) BY <1>3, <2>2, SameButTrans
    <2>4. Size(q) = Size(h) - (n + 1) /\ Size(q) <= RxCap BY <1>2, <1>3, <1>7, <2>1 DEF q
    <2>5. /\ c \in Relay /\ c.rbuf = Nil /\ c.rx = b.rx /\ c.sock = b.sock /\ c.sess = b.sess /\ SameBut(b, c)
      BY <1>a, <2>2, SetRbuf
    <2> HIDE DEF c
    <2>6. SameBut(s, c) BY <2>3, <2>5, SameButTrans
    <2>7. Good(b) BY <1>0, <1>3, <2>1, <2>2, <2>3, <2>4 DEF Good, SameBut, SameDown
    <2>8. Good(c) BY <1>0, <1>3, <1>a, <2>2, <2>4, <2>5, <2>6 DEF Good, SameBut, SameDown
    <2>9. CASE s.hs /\ ~s.rcl /\ s.rend # "rst"
      <3>1. t = b BY <1>1, <1>7, <2>9
      <3>2. Handling(b, a, v) BY <1>5, <2>2, <2>3, <2>7
      <3> DEFINE x == Size(f.sock)
      <3> DEFINE y == Size(f.sess)
      <3>3. /\ Run(f.sess, g + x) /\ Run(h, g + Size(s.sock) + Size(s.sess))
            /\ x + y = Size(s.sock) + Size(s.sess) + n
            /\ g + Size(s.sock) + Size(s.sess) + Size(h) = a.out + 1
        BY <1>3, <2>9
      <3> HIDE DEF g, x, y
      <3>4. g + Size(s.sock) + Size(s.sess) \in Nat BY <1>2
      <3>5. /\ Run(hand, g + Size(s.sock) + Size(s.sess) + n) /\ Run(q, g + Size(s.sock) + Size(s.sess) + n + 1)
        BY <2>1, <3>3, <3>4 DEF q
      <3>6. x \in Nat /\ y \in Nat /\ n \in Nat BY <1>3, <1>4 DEF x, y
      <3>7. /\ g + Size(s.sock) + Size(s.sess) + n = g + x + y
            /\ g + Size(s.sock) + Size(s.sess) + n + 1 = g + x + y + 1
            /\ g + x + y + 1 + (Size(h) - (n + 1)) = a.out + 1
        <4>0. x + y = Size(s.sock) + Size(s.sess) + n BY <3>3
        <4>1. g + Size(s.sock) + Size(s.sess) + n = g + x + y BY <1>2, <3>6, <4>0
        <4>2. g + Size(s.sock) + Size(s.sess) + n + (Size(h) - n) = a.out + 1 BY <1>2, <1>c, <3>3, <3>6
        <4>3. g + x + y + 1 + (Size(h) - (n + 1)) = g + x + y + (Size(h) - n) BY <1>2, <1>c, <3>6
        <4> QED BY <4>1, <4>2, <4>3
      <3>8. /\ Run(f.sess, g + x) /\ Run(hand, g + x + y) /\ Run(q, g + x + y + Size(hand))
            /\ g + x + y + Size(hand) + Size(q) = a.out + 1
        BY <2>1, <2>4, <3>3, <3>5, <3>7
      <3>9. UpWhole(b, a, v) BY <2>2, <3>8 DEF UpWhole, UpLine, g, x, y
      <3> QED BY <1>6, <2>2, <2>3, <3>1, <3>2, <3>9 DEF InHandler, SameBut
    <2>10. CASE ~(s.hs /\ ~s.rcl /\ s.rend # "rst")
      <3>1. t = CloseRemote(c) BY <1>1, <1>7, <2>10
      <3>2. Handling(c, a, v) BY <1>5, <2>2, <2>5, <2>6, <2>8
      <3>3. NoneLeft(c) BY <1>0, <2>6, <2>10 DEF NoneLeft, Data, SameBut, SameDown
      <3>4. InHandler(t, a, v) /\ Kept(c, t) /\ Kept(s, c) /\ t.est = c.est
        BY <1>6, <2>2, <2>5, <2>6, <3>1, <3>2, <3>3, CloseRemoteLemma
      <3> QED BY <2>6, <3>4 DEF Kept, SameBut
    <2> QED BY <2>9, <2>10
  <1>8. CASE ~(n < Size(h))
    <2>1. /\ d \in Relay /\ d.rbuf = Nil /\ d.rx = Nil /\ d.sock = f.sock /\ d.sess = f.sess /\ SameBut(f, d)
      BY <1>3, <1>a, SetRead
    <2> HIDE DEF d
    <2>2. SameBut(s, d) BY <1>3, <2>1, SameButTrans
    <2>3. Good(d) BY <1>0, <1>2, <1>3, <1>a, <2>1, <2>2 DEF Good, SameBut, SameDown
    <2>4. Handling(d, a, v) BY <1>5, <2>1, <2>2, <2>3
    <2>5. UpWhole(d, a, v)
      <3> SUFFICES ASSUME d.est, ~d.rcl, d.rend # "rst" PROVE UpLine(d, a, v) BY DEF UpWhole
      <3> DEFINE x == Size(f.sock)
      <3> DEFINE y == Size(f.sess)
      <3>1. s.est /\ ~s.rcl /\ s.rend # "rst" BY <2>2 DEF SameBut
      <3>2. /\ Run(f.sess, g + x) /\ x + y = Size(s.sock) + Size(s.sess) + n
            /\ g + Size(s.sock) + Size(s.sess) + Size(h) = a.out + 1
        BY <1>3, <3>1
      <3> HIDE DEF g, x, y
      <3>3. n = Size(h) /\ n \in Nat /\ x \in Nat /\ y \in Nat BY <1>3, <1>4, <1>8 DEF x, y
      <3>4. g + x + y + 0 + 0 = a.out + 1 BY <1>2, <1>c, <3>2, <3>3
      <3>5. /\ Run(Nil, g + x + y) /\ Run(Nil, g + x + y + Size(Nil))
            /\ g + x + y + Size(Nil) + Size(Nil) = a.out + 1
        BY <1>a, <3>4
      <3> QED BY <2>1, <3>2, <3>5 DEF UpLine, g, x, y
    <2>6. InHandler(d, a, v) /\ Kept(s, d) /\ d.est = s.est
      BY <1>6, <2>1, <2>2, <2>4, <2>5 DEF InHandler, SameBut
    <2>7. CASE d.st \in {"est", "finwait"} BY <1>1, <1>8, <2>6, <2>7
    <2>8. CASE d.st \notin {"est", "finwait"}
      <3>1. t = CloseLocal(d, "cut") BY <1>1, <1>8, <2>8
      <3>2. Handling(t, a, v) /\ SameUp(d, t) /\ SameLoop(d, t) /\ (UpWhole(d, a, v) => UpWhole(t, a, v))
        BY <2>4, <3>1, CloseLocalLemma
      <3> QED BY <2>5, <2>6, <3>2 DEF InHandler, Kept, SameUp, SameLoop
    <2> QED BY <2>7, <2>8
  <1> QED BY <1>7, <1>8

LEMMA KeptTrans ==
    ASSUME NEW s, NEW t, NEW u, Kept(s, t), Kept(t, u) PROVE Kept(s, u)
  BY DEF Kept

LEMMA CutLemma ==
    ASSUME NEW s, NEW a, NEW v, InHandler(s, a, v), NEW t, t = CloseLocal(s, "cut")
    PROVE  InHandler(t, a, v) /\ Kept(s, t) /\ t.lcl
  <1>1. Handling(t, a, v) /\ t.lcl /\ SameUp(s, t) /\ SameLoop(s, t) /\ (UpWhole(s, a, v) => UpWhole(t, a, v))
    BY CloseLocalLemma DEF InHandler
  <1> QED BY <1>1 DEF InHandler, Kept, SameUp, SameLoop

\* local_to_remote as one step, and its three cases.
LocalToRemote(r) == FlushCopied(CopyLocal(r))
LEMMA LocalToRemoteCases ==
    ASSUME NEW s, NEW a, NEW v, InHandler(s, a, v), NEW t, t = LocalToRemote(s)
    PROVE  /\ s.est => t = IF CopyUp(s).rcl THEN CopyUp(s) ELSE FlushRemote(CopyUp(s))
           /\ ~s.est /\ IsActive(s) => t = s
           /\ ~s.est /\ ~IsActive(s) => t = CloseLocal(s, "cut")
  <1>1. ASSUME s.est PROVE t = IF CopyUp(s).rcl THEN CopyUp(s) ELSE FlushRemote(CopyUp(s))
    <2>1. CopyUp(s).est BY <1>1, CopyUpLemma
    <2> QED BY <1>1, <2>1 DEF LocalToRemote, CopyLocal, FlushCopied
  <1>2. ASSUME ~s.est, IsActive(s) PROVE t = s
    BY <1>2 DEF LocalToRemote, CopyLocal, FlushCopied
  <1>3. ASSUME ~s.est, ~IsActive(s) PROVE t = CloseLocal(s, "cut")
    <2> DEFINE u == CloseLocal(s, "cut")
    <2>1. SameUp(s, u) BY CloseLocalLemma DEF InHandler
    <2>2. ~u.est BY <1>3, <2>1 DEF SameUp
    <2>3. t = FlushCopied(u) BY <1>3 DEF LocalToRemote, CopyLocal
    <2> HIDE DEF u
    <2>4. t = u BY <2>2, <2>3 DEF FlushCopied
    <2> QED BY <2>4 DEF u
  <1> QED BY <1>1, <1>2, <1>3

LEMMA LocalToRemoteLemma ==
    ASSUME NEW s, NEW a, NEW v, InHandler(s, a, v), NEW t, t = LocalToRemote(s)
    PROVE  InHandler(t, a, v) /\ Kept(s, t)
  <1>1. CASE ~s.est
    <2>1. CASE IsActive(s)
      <3>1. t = s BY <1>1, <2>1, LocalToRemoteCases
      <3> QED BY <3>1 DEF Kept
    <2>2. CASE ~IsActive(s)
      <3>1. t = CloseLocal(s, "cut") BY <1>1, <2>2, LocalToRemoteCases
      <3> QED BY <3>1, CutLemma
    <2> QED BY <2>1, <2>2
  <1>2. CASE s.est
    <2> DEFINE u == CopyUp(s)
    <2>1. InHandler(u, a, v) /\ Kept(s, u) BY <1>2, CopyUpLemma
    <2>2. t = IF u.rcl THEN u ELSE FlushRemote(u) BY <1>2, LocalToRemoteCases
    <2> HIDE DEF u
    <2>3. CASE u.rcl BY <2>1, <2>2, <2>3
    <2>4. CASE ~u.rcl
      <3>1. t = FlushRemote(u) BY <2>2, <2>4
      <3>2. InHandler(t, a, v) /\ Kept(u, t) BY <2>1, <3>1, FlushRemoteLemma
      <3> QED BY <2>1, <3>2, KeptTrans
    <2> QED BY <2>3, <2>4
  <1> QED BY <1>1, <1>2

-----------------------------------------------------------------------------
(* Towards the application *)

\* Nothing that is said of the way to the server changes with the buffers on the
\* way to the application.
LEMMA DownChanged ==
    ASSUME NEW s, NEW a, NEW v, Handling(s, a, v), NEW t, Good(t),
           SameUp(s, t), SameSide(s, t), SameLoop(s, t),
           ~t.hs => ~s.hs /\ t.tx = Nil /\ t.lbuf = Nil /\ t.in = Nil,
           s.rcl => t.in = Nil,
           Run(t.tx, 1 + Size(a.got)) /\ Size(a.got) + Size(t.tx) <= v.out,
           ~Live(s) => t.tx = s.tx,
           Live(s) => DownLine(t, a, v)
    PROVE  Handling(t, a, v) /\ (UpWhole(s, a, v) => UpWhole(t, a, v)) /\ Kept(s, t)
  <1>0. /\ Peers(a, v) /\ Sides(s) /\ Flow(s, a, v)
        /\ s.on /\ s.st \notin {"none", "gone"} /\ (s.removed => s.rcl)
    BY DEF Handling
  <1>1. t.on /\ t.st = s.st /\ (t.removed => t.rcl) /\ (Live(t) <=> Live(s))
    BY <1>0 DEF SameUp, SameLoop, SameSide, Live
  <1>2. Sides(t) BY <1>0, <1>1 DEF Sides, SameUp, SameSide
  <1>3. Early(t, v) BY <1>0 DEF Flow, Early, SameUp
  <1>4. UpSent(t, a, v) BY <1>0, <1>1 DEF Flow, UpSent, SameUp
  <1>5. DownSent(t, a, v) BY <1>0, <1>1 DEF Flow, DownSent, SameUp, SameSide
  <1>6. DownWhole(t, a, v) BY <1>1 DEF DownWhole
  <1>7. EndWhole(t, a, v) BY <1>0, <1>1 DEF Flow, EndWhole, AllSent, Sides, SameUp, SameSide
  <1>8. Kept(s, t) /\ (UpWhole(s, a, v) => UpWhole(t, a, v)) BY DEF Kept, UpWhole, UpLine, SameUp, SameLoop
  <1> QED BY <1>0, <1>1, <1>2, <1>3, <1>4, <1>5, <1>6, <1>7, <1>8 DEF Handling, Flow

PutDown(s, b, p) == [s EXCEPT !.hs = b, !.tx = p]
LEMMA SetDown ==
    ASSUME NEW s \in Relay, NEW b \in BOOLEAN, NEW p \in Seq(Nat), NEW t, t = PutDown(s, b, p)
    PROVE  /\ t \in Relay /\ t.wakers = s.wakers /\ t.edge = s.edge
           /\ t.hs = b /\ t.tx = p /\ t.lbuf = s.lbuf /\ t.in = s.in
           /\ SameUp(s, t) /\ SameSide(s, t) /\ SameLoop(s, t)
  BY DEF PutDown, Relay, SameUp, SameSide, SameLoop

PutLeft(s, p, q) == [s EXCEPT !.lbuf = p, !.in = q]
LEMMA SetLeft ==
    ASSUME NEW s \in Relay, NEW p \in Seq(Nat), NEW q \in Seq(Nat), NEW t, t = PutLeft(s, p, q)
    PROVE  /\ t \in Relay /\ t.wakers = s.wakers /\ t.edge = s.edge
           /\ t.hs = s.hs /\ t.tx = s.tx /\ t.lbuf = p /\ t.in = q
           /\ SameUp(s, t) /\ SameSide(s, t) /\ SameLoop(s, t)
  BY DEF PutLeft, Relay, SameUp, SameSide, SameLoop

PutLbuf(s, p) == [s EXCEPT !.lbuf = p]
LEMMA SetLbuf ==
    ASSUME NEW s \in Relay, NEW p \in Seq(Nat), NEW t, t = PutLbuf(s, p)
    PROVE  /\ t \in Relay /\ t.wakers = s.wakers /\ t.edge = s.edge
           /\ t.hs = s.hs /\ t.tx = s.tx /\ t.lbuf = p /\ t.in = s.in
           /\ SameUp(s, t) /\ SameSide(s, t) /\ SameLoop(s, t)
  BY DEF PutLbuf, Relay, SameUp, SameSide, SameLoop

\* What has arrived without the server's handshake.
GotHello(s) == s.in # <<>> /\ s.in[1] = Hello
Arrived(s) == IF GotHello(s) THEN Tail(s.in) ELSE s.in
Shaken(s) == s.hs \/ GotHello(s)
ToSend(s, h) == IF MaySend(s) THEN Least(Size(h), TxCap - Size(s.tx)) ELSE 0

LEMMA HelloSeq == Hello \in Nat /\ <<Hello>> \in Seq(Nat) /\ <<Hello>> # <<>> /\ <<Hello>>[1] = Hello /\ Tail(<<Hello>>) = <<>>
  <1>1. Hello \in Nat BY TcpAssumption DEF Hello
  <1> DEFINE x == Hello
  <1> HIDE DEF x
  <1>2. \A y \in Nat : <<y>> \in Seq(Nat) /\ Len(<<y>>) = 1 /\ <<y>>[1] = y /\ <<y>> # <<>> OBVIOUS
  <1>3. \A y \in Nat : Tail(<<y>>) = <<>> OBVIOUS
  <1> QED BY <1>1, <1>2, <1>3

\* The server's handshake is told from its data.
LEMMA ArrivedLemma ==
    ASSUME NEW s, NEW a, NEW v, Handling(s, a, v)
    PROVE  /\ Arrived(s) \in Seq(Nat) /\ Shaken(s) \in BOOLEAN
           /\ Live(s) => Arrived(s) = Data(s)
           /\ ~Shaken(s) => ~s.hs /\ Arrived(s) = Nil
           /\ ~s.hs \/ s.in = Nil => Arrived(s) = Nil
           /\ s.rcl => Arrived(s) = Nil
  <1>0. Good(s) /\ Peers(a, v) /\ Sides(s) /\ Flow(s, a, v) /\ s.in \in Seq(Nat) /\ s.hs \in BOOLEAN
    BY Fields DEF Handling
  <1>1. Arrived(s) \in Seq(Nat) /\ Shaken(s) \in BOOLEAN
    <2>1. s.in # <<>> => Tail(s.in) \in Seq(Nat) BY <1>0, HeadTailProperties
    <2> QED BY <1>0, <2>1 DEF Arrived, Shaken, GotHello
  <1>2. ~s.hs => (GotHello(s) <=> s.in # Nil) /\ Arrived(s) = Nil
    <2> SUFFICES ASSUME ~s.hs PROVE (GotHello(s) <=> s.in # Nil) /\ Arrived(s) = Nil OBVIOUS
    <2>1. s.in = <<>> \/ s.in = <<Hello>> BY <1>0 DEF Flow, Early, Nil
    <2>2. CASE s.in = <<>> BY <2>2 DEF GotHello, Arrived, Nil
    <2>3. CASE s.in = <<Hello>>
      <3>1. GotHello(s) /\ s.in # <<>> BY <2>3, HelloSeq DEF GotHello
      <3>2. Arrived(s) = <<>> BY <2>3, <3>1, HelloSeq DEF Arrived
      <3> QED BY <3>1, <3>2 DEF Nil
    <2> QED BY <2>1, <2>2, <2>3
  <1>3. ASSUME Live(s), s.hs PROVE ~GotHello(s)
    <2>1. CASE s.in = <<>> BY <2>1 DEF GotHello
    <2>2. CASE s.in # <<>>
      <3> DEFINE c == Size(a.got) + Size(s.tx) + Size(s.lbuf)
      <3>1. Data(s) = s.in BY <1>3 DEF Data
      <3>2. DownLine(s, a, v) BY <1>0, <1>3 DEF Flow, DownWhole
      <3>3. Run(s.in, 1 + Size(a.got) + Size(s.tx) + Size(s.lbuf)) /\ c + Size(s.in) <= v.out
        BY <3>1, <3>2 DEF DownLine
      <3>4. /\ Size(a.got) \in Nat /\ Size(s.tx) \in Nat /\ Size(s.lbuf) \in Nat /\ v.out \in Nat
            /\ NDown \in Nat /\ Size(s.in) \in Nat
        BY <1>0, Lengths, PeerFields
      <3>5. c \in Nat /\ 1 + Size(a.got) + Size(s.tx) + Size(s.lbuf) = 1 + c BY <3>4
      <3>6. v.out <= NDown BY <1>0 DEF Flow, DownSent
      <3>7. Run(s.in, 1 + c) /\ 1 + c \in Nat BY <3>3, <3>5
      <3> HIDE DEF c
      <3>8. Head(s.in) = 1 + c /\ Size(s.in) \in Nat \ {0} BY <1>0, <2>2, <3>7, RunHead DEF Nil
      <3>9. 1 + c # NDown + 1 BY <3>3, <3>4, <3>5, <3>6, <3>8
      <3>10. s.in[1] = Head(s.in) BY <1>0, <2>2
      <3> QED BY <3>8, <3>9, <3>10 DEF GotHello, Hello
    <2> QED BY <2>1, <2>2
  <1>4. Live(s) => Arrived(s) = Data(s) BY <1>0, <1>2, <1>3 DEF Arrived, Data
  <1>5. ~Shaken(s) => ~s.hs /\ Arrived(s) = Nil BY <1>2 DEF Shaken
  <1>6. s.rcl => Arrived(s) = Nil BY <1>0 DEF Sides, Arrived, GotHello, Nil
  <1>7. s.in = Nil => Arrived(s) = Nil BY DEF Arrived, GotHello, Nil
  <1> QED BY <1>1, <1>2, <1>7, <1>4, <1>5, <1>6

LEMMA ToSendLemma ==
    ASSUME NEW s, Good(s), NEW h \in Seq(Nat)
    PROVE  /\ ToSend(s, h) \in 0 .. Size(h) /\ Size(s.tx) + ToSend(s, h) <= TxCap
           /\ ~MaySend(s) => ToSend(s, h) = 0
  <1> DEFINE x == Size(s.tx)
  <1> DEFINE z == Size(h)
  <1>1. x \in Nat /\ x <= TxCap /\ TxCap \in Nat /\ z \in Nat BY Lengths, LenNat
  <1>2. ToSend(s, h) = IF MaySend(s) THEN Least(z, TxCap - x) ELSE 0 BY DEF ToSend
  <1> HIDE DEF x, z
  <1>3. Least(z, TxCap - x) \in 0 .. z /\ x + Least(z, TxCap - x) <= TxCap /\ x + 0 <= TxCap /\ 0 \in 0 .. z
    BY <1>1 DEF Least
  <1>4. ToSend(s, h) \in 0 .. z /\ x + ToSend(s, h) <= TxCap BY <1>2, <1>3
  <1> QED BY <1>2, <1>4 DEF x, z

\* n of the units h that have arrived go to the socket.
DownTaken(s, a, v, h, n, p) ==
    /\ h \in Seq(Nat) /\ n \in 0 .. Size(h) /\ p \in Seq(Nat) /\ Size(p) = Size(s.tx) + n
    /\ Size(p) <= TxCap /\ (~Live(s) => p = s.tx)
    /\ Run(p, 1 + Size(a.got)) /\ Size(a.got) + Size(p) <= v.out
    /\ Live(s) => /\ Run(h, 1 + Size(a.got) + Size(s.tx))
                  /\ Size(a.got) + Size(s.tx) + Size(h) <= v.out
                  /\ s.rend # "rst" => Size(a.got) + Size(s.tx) + Size(h) = v.out
    /\ ~Shaken(s) => ~s.hs /\ h = Nil /\ p = Nil
    /\ s.rcl => Size(h) <= 1
LEMMA SentOn ==
    ASSUME NEW s, NEW a, NEW v, InHandler(s, a, v), NEW h, h = s.lbuf \o Arrived(s),
           NEW n, n = ToSend(s, h), NEW p, p = s.tx \o Take(h, n)
    PROVE  DownTaken(s, a, v, h, n, p)
  <1> DEFINE g == Size(a.got)
  <1> DEFINE x == Size(s.tx)
  <1> DEFINE l == Size(s.lbuf)
  <1> DEFINE e == Arrived(s)
  <1>0. /\ Handling(s, a, v) /\ Good(s) /\ Peers(a, v) /\ Flow(s, a, v) /\ s.tx \in Seq(Nat) /\ s.lbuf \in Seq(Nat)
    BY Fields DEF InHandler, Handling
  <1>1. /\ g \in Nat /\ x \in Nat /\ l \in Nat /\ l <= 1 /\ v.out \in Nat /\ TxCap \in Nat
    BY <1>0, Lengths, PeerFields
  <1>2. /\ e \in Seq(Nat) /\ (Live(s) => e = Data(s)) /\ (~Shaken(s) => ~s.hs /\ e = Nil)
        /\ (s.rcl => e = Nil)
    BY <1>0, ArrivedLemma
  <1>3. h \in Seq(Nat) /\ Size(h) = l + Size(e) /\ Size(h) \in Nat /\ Size(e) \in Nat
    BY <1>0, <1>2, ConcatNat, LenNat
  <1>4. n \in 0 .. Size(h) /\ x + n <= TxCap /\ (~MaySend(s) => n = 0) BY <1>0, <1>3, ToSendLemma
  <1>5. /\ p \in Seq(Nat) /\ Size(p) = x + n
        /\ \A i \in Nat : Run(s.tx, i) /\ Run(h, i + x) => Run(p, i)
    <2>1. /\ s.tx \o Take(h, n) \in Seq(Nat) /\ Size(s.tx \o Take(h, n)) = Size(s.tx) + n
          /\ \A i \in Nat : Run(s.tx, i) /\ Run(h, i + Size(s.tx))
                => Run(s.tx \o Take(h, n), i) /\ Run(Rest(h, n), i + Size(s.tx) + n)
      BY <1>0, <1>3, <1>4, Passed
    <2> QED BY <2>1
  <1>6. n = 0 => p = s.tx BY <1>0, <1>3, TakeNone
  <1>7. ~Live(s) => p = s.tx BY <1>4, <1>6 DEF Live, MaySend
  <1>8. ASSUME Live(s)
        PROVE  /\ Run(h, 1 + g + x) /\ g + x + Size(h) <= v.out
               /\ s.rend # "rst" => g + x + Size(h) = v.out
    <2>1. DownLine(s, a, v) /\ Size(Data(s)) = Size(e) BY <1>0, <1>2, <1>8 DEF Flow, DownWhole
    <2>2. /\ Run(s.lbuf, 1 + g + x) /\ Run(e, 1 + g + x + l) /\ g + x + l + Size(e) <= v.out
          /\ s.rend # "rst" => g + x + l + Size(e) = v.out
      BY <1>2, <1>8, <2>1 DEF DownLine
    <2>3. 1 + g + x \in Nat /\ g + x + (l + Size(e)) = g + x + l + Size(e) BY <1>1, <1>3
    <2>4. Run(h, 1 + g + x) BY <1>0, <1>2, <2>2, <2>3, RunConcat
    <2> QED BY <1>3, <2>2, <2>3, <2>4
  <1>9. Run(s.tx, 1 + g) /\ g + x <= v.out BY <1>0 DEF Flow, DownSent
  <1>10. Run(p, 1 + g) /\ g + Size(p) <= v.out
    <2>1. CASE ~Live(s) BY <1>7, <1>9, <2>1
    <2>2. CASE Live(s)
      <3>1. 1 + g \in Nat /\ Run(h, 1 + g + x) BY <1>1, <1>8, <2>2
      <3>2. Run(p, 1 + g) BY <1>5, <1>9, <3>1
      <3>3. g + x + Size(h) <= v.out BY <1>8, <2>2
      <3> HIDE DEF g, x
      <3>4. g + (x + n) <= v.out BY SMTT(60), <1>1, <1>3, <1>4, <3>3
      <3> QED BY <1>5, <3>2, <3>4
    <2> QED BY <2>1, <2>2
  <1>11. ~Shaken(s) => ~s.hs /\ h = Nil /\ p = Nil
    <2> SUFFICES ASSUME ~Shaken(s) PROVE ~s.hs /\ h = Nil /\ p = Nil OBVIOUS
    <2>1. ~s.hs /\ e = Nil BY <1>2
    <2>2. s.lbuf = Nil /\ s.tx = Nil BY <1>0, <2>1 DEF Flow, Early
    <2>3. l = 0 /\ Size(e) = 0 /\ x = 0 BY <2>1, <2>2, EmptySeqNat
    <2>4. Size(h) = 0 /\ n = 0 BY <1>3, <1>4, <2>3
    <2> QED BY <1>3, <1>6, <2>1, <2>2, <2>4, LenNat
  <1>12. s.rcl => Size(h) <= 1
    <2> SUFFICES ASSUME s.rcl PROVE Size(h) <= 1 OBVIOUS
    <2>1. Size(e) = 0 BY <1>2, EmptySeqNat
    <2> QED BY <1>1, <1>3, <2>1
  <1> QED BY <1>3, <1>4, <1>5, <1>7, <1>8, <1>10, <1>11, <1>12 DEF DownTaken
\* What has arrived but finds no room is put back, or dropped with the socket.
LEMMA CopyDownLemma ==
    ASSUME NEW s, NEW a, NEW v, InHandler(s, a, v), NEW t, t = CopyDown(s)
    PROVE  InHandler(t, a, v) /\ Kept(s, t)
  <1> DEFINE h == s.lbuf \o Arrived(s)
  <1> DEFINE n == ToSend(s, h)
  <1> DEFINE p == s.tx \o Take(h, n)
  <1> DEFINE f == PutDown(s, Shaken(s), p)
  <1> DEFINE hand == <<h[n + 1]>>
  <1> DEFINE b == PutLeft(f, hand, Rest(h, n + 1))
  <1> DEFINE c == PutLbuf(b, Nil)
  <1> DEFINE d == PutLeft(f, Nil, Nil)
  <1>1. t = IF n < Size(h)
            THEN IF IsActive(s) THEN b ELSE CloseLocal(c, "cut")
            ELSE IF s.rend = "open" /\ ~s.rcl THEN d ELSE CloseRemote(d)
    BY DEF CopyDown, PutDown, PutLeft, PutLbuf, Arrived, Shaken, GotHello, ToSend, Size, Nil
  <1> DEFINE g == Size(a.got)
  <1> DEFINE x == Size(s.tx)
  <1>0. /\ Handling(s, a, v) /\ Good(s) /\ s \in Relay /\ Peers(a, v) /\ Flow(s, a, v) /\ UpWhole(s, a, v)
    BY Fields DEF InHandler, Handling
  <1>2. g \in Nat /\ x \in Nat /\ v.out \in Nat BY <1>0, Lengths, PeerFields
  <1>b. h = s.lbuf \o Arrived(s) /\ n = ToSend(s, h) /\ p = s.tx \o Take(h, n) OBVIOUS
  <1> HIDE DEF h, n, p
  <1>3. /\ h \in Seq(Nat) /\ n \in 0 .. Size(h) /\ p \in Seq(Nat) /\ Size(p) = x + n
        /\ Size(p) <= TxCap /\ (~Live(s) => p = s.tx)
        /\ Run(p, 1 + g) /\ g + Size(p) <= v.out
        /\ Live(s) => /\ Run(h, 1 + g + x)
                      /\ g + x + Size(h) <= v.out
                      /\ s.rend # "rst" => g + x + Size(h) = v.out
        /\ ~Shaken(s) => ~s.hs /\ h = Nil /\ p = Nil
        /\ s.rcl => Size(h) <= 1
    <2>1. DownTaken(s, a, v, h, n, p) BY <1>b, SentOn
    <2> QED BY <2>1 DEF DownTaken
  <1>4. Size(h) \in Nat /\ n \in Nat /\ n <= Size(h) BY <1>3, LenNat
  <1>5. Shaken(s) \in BOOLEAN BY <1>0, ArrivedLemma
  <1>6. /\ f \in Relay /\ f.hs = Shaken(s) /\ f.tx = p
        /\ SameUp(s, f) /\ SameSide(s, f) /\ SameLoop(s, f)
    BY <1>0, <1>3, <1>5, SetDown
  <1> HIDE DEF f
  <1>a. Nil \in Seq(Nat) /\ Size(Nil) = 0 /\ \A e : Run(Nil, e) BY EmptySeqNat
  \* What holds of every record that is left.
  <1>7. ASSUME NEW r \in Relay, r.tx = p, Size(r.lbuf) <= 1, SameUp(f, r) PROVE Good(r)
    BY <1>0, <1>3, <1>6, <1>7 DEF Good, SameUp
  <1>8. CASE n < Size(h)
    <2> DEFINE q == Rest(h, n + 1)
    <2>1. /\ hand \in Seq(Nat) /\ Size(hand) = 1
          /\ q \in Seq(Nat) /\ Size(q) = Size(h) - (n + 1)
          /\ \A e \in Nat : Run(h, e) => Run(hand, e + n) /\ Run(q, e + n + 1)
      BY <1>3, <1>8, RunHand
    <2> HIDE DEF hand, q
    <2>2. /\ b \in Relay /\ b.hs = Shaken(s) /\ b.tx = p /\ b.lbuf = hand /\ b.in = q
          /\ SameUp(f, b) /\ SameSide(f, b) /\ SameLoop(f, b)
      <3>1. b = PutLeft(f, hand, q) BY DEF q
      <3> HIDE DEF b
      <3> QED BY <1>6, <2>1, <3>1, SetLeft
    <2>3. c = PutLbuf(b, Nil) OBVIOUS
    <2> HIDE DEF b, c
    <2>4. /\ c \in Relay /\ c.hs = Shaken(s) /\ c.tx = p /\ c.lbuf = Nil /\ c.in = q
          /\ SameUp(b, c) /\ SameSide(b, c) /\ SameLoop(b, c)
      BY <1>a, <2>2, <2>3, SetLbuf
    <2>5. Shaken(s)
      <3>1. Size(h) # 0 BY <1>4, <1>8
      <3> QED BY <1>3, <1>a, <3>1
    <2>6. s.rcl => q = Nil
      <3> SUFFICES ASSUME s.rcl PROVE q = Nil OBVIOUS
      <3>1. Size(h) <= 1 BY <1>3
      <3>2. Size(q) = 0 BY <1>4, <1>8, <2>1, <3>1
      <3> QED BY <2>1, <3>2, LenNat
    <2>7. /\ SameUp(s, b) /\ SameSide(s, b) /\ SameLoop(s, b)
          /\ SameUp(s, c) /\ SameSide(s, c) /\ SameLoop(s, c) /\ SameUp(f, c)
      BY <1>6, <2>2, <2>4 DEF SameUp, SameSide, SameLoop
    <2>8. Good(b) /\ Good(c) BY <1>7, <1>a, <2>1, <2>2, <2>4, <2>7
    <2>9. CASE IsActive(s)
      <3>1. t = b BY <1>1, <1>8, <2>9
      <3>2. ASSUME Live(s) PROVE DownLine(b, a, v)
        <4>1. 1 + g + x \in Nat BY <1>2
        <4>2. /\ Run(hand, 1 + g + x + n) /\ Run(q, 1 + g + x + n + 1)
              /\ g + x + Size(h) <= v.out
              /\ s.rend # "rst" => g + x + Size(h) = v.out
          BY <1>3, <2>1, <3>2, <4>1
        <4> DEFINE y == Size(p)
        <4>3. y = x + n /\ Size(q) = Size(h) - (n + 1) /\ Size(hand) = 1 BY <1>3, <2>1
        <4> HIDE DEF g, x, y
        <4>4. /\ 1 + g + x + n = 1 + g + y /\ 1 + g + x + n + 1 = 1 + g + y + 1
              /\ g + y + 1 + (Size(h) - (n + 1)) = g + x + Size(h)
          BY <1>2, <1>4, <4>3
        <4>5. Data(b) = q /\ b.rend = s.rend BY <2>2, <2>5, <2>7 DEF Data, SameUp
        <4>6. /\ Run(hand, 1 + g + y) /\ Run(q, 1 + g + y + Size(hand))
              /\ g + y + Size(hand) + Size(q) <= v.out
              /\ s.rend # "rst" => g + y + Size(hand) + Size(q) = v.out
          BY <4>2, <4>3, <4>4
        <4> QED BY <2>2, <4>5, <4>6 DEF DownLine, g, y
      <3>3. Handling(b, a, v) /\ (UpWhole(s, a, v) => UpWhole(b, a, v)) /\ Kept(s, b)
        <4>1. /\ ~b.hs => ~s.hs /\ b.tx = Nil /\ b.lbuf = Nil /\ b.in = Nil
              /\ s.rcl => b.in = Nil
              /\ Run(b.tx, 1 + Size(a.got)) /\ Size(a.got) + Size(b.tx) <= v.out
              /\ ~Live(s) => b.tx = s.tx
              /\ Live(s) => DownLine(b, a, v)
          BY <1>3, <2>2, <2>5, <2>6, <3>2
        <4> QED BY <1>0, <2>7, <2>8, <4>1, DownChanged
      <3> QED BY <1>0, <3>1, <3>3 DEF InHandler
    <2>10. CASE ~IsActive(s)
      <3>1. t = CloseLocal(c, "cut") BY <1>1, <1>8, <2>10
      <3>2. ~Live(s) BY <2>10 DEF IsActive, Live
      <3>3. Handling(c, a, v) /\ (UpWhole(s, a, v) => UpWhole(c, a, v)) /\ Kept(s, c)
        <4>1. /\ ~c.hs => ~s.hs /\ c.tx = Nil /\ c.lbuf = Nil /\ c.in = Nil
              /\ s.rcl => c.in = Nil
              /\ Run(c.tx, 1 + Size(a.got)) /\ Size(a.got) + Size(c.tx) <= v.out
              /\ ~Live(s) => c.tx = s.tx
              /\ Live(s) => DownLine(c, a, v)
          BY <1>3, <2>4, <2>5, <2>6, <3>2
        <4> QED BY <1>0, <2>7, <2>8, <4>1, DownChanged
      <3>4. InHandler(c, a, v) BY <1>0, <3>3 DEF InHandler
      <3>5. InHandler(t, a, v) /\ Kept(c, t) BY <3>1, <3>4, CutLemma
      <3> QED BY <3>3, <3>5, KeptTrans
    <2> QED BY <2>9, <2>10
  <1>9. CASE ~(n < Size(h))
    <2>1. /\ d \in Relay /\ d.hs = Shaken(s) /\ d.tx = p /\ d.lbuf = Nil /\ d.in = Nil
          /\ SameUp(f, d) /\ SameSide(f, d) /\ SameLoop(f, d)
      BY <1>6, <1>a, SetLeft
    <2> HIDE DEF d
    <2>2. SameUp(s, d) /\ SameSide(s, d) /\ SameLoop(s, d) BY <1>6, <2>1 DEF SameUp, SameSide, SameLoop
    <2>3. Good(d) BY <1>7, <1>a, <2>1
    <2>4. Data(d) = Nil BY <2>1 DEF Data
    <2>5. ASSUME Live(s) PROVE DownLine(d, a, v)
      <3> DEFINE y == Size(p)
      <3>1. /\ g + x + Size(h) <= v.out /\ y = x + n
            /\ s.rend # "rst" => g + x + Size(h) = v.out
        BY <1>3, <2>5
      <3> HIDE DEF g, x, y
      <3>2. g + y + 0 + 0 = g + x + Size(h) BY <1>2, <1>4, <1>9, <3>1
      <3>3. /\ Run(Nil, 1 + g + y) /\ Run(Nil, 1 + g + y + Size(Nil))
            /\ g + y + Size(Nil) + Size(Nil) <= v.out
            /\ s.rend # "rst" => g + y + Size(Nil) + Size(Nil) = v.out
        BY <1>a, <3>1, <3>2
      <3>4. d.rend = s.rend BY <2>2 DEF SameUp
      <3> QED BY <2>1, <2>4, <3>3, <3>4 DEF DownLine, g, y
    <2>6. Handling(d, a, v) /\ (UpWhole(s, a, v) => UpWhole(d, a, v)) /\ Kept(s, d)
      <3>1. /\ ~d.hs => ~s.hs /\ d.tx = Nil /\ d.lbuf = Nil /\ d.in = Nil
            /\ s.rcl => d.in = Nil
            /\ Run(d.tx, 1 + Size(a.got)) /\ Size(a.got) + Size(d.tx) <= v.out
            /\ ~Live(s) => d.tx = s.tx
            /\ Live(s) => DownLine(d, a, v)
        BY <1>3, <2>1, <2>5
      <3> QED BY <1>0, <2>2, <2>3, <3>1, DownChanged
    <2>7. CASE s.rend = "open" /\ ~s.rcl
      <3>1. t = d BY <1>1, <1>9, <2>7
      <3> QED BY <1>0, <2>6, <3>1 DEF InHandler
    <2>8. CASE ~(s.rend = "open" /\ ~s.rcl)
      <3>1. t = CloseRemote(d) BY <1>1, <1>9, <2>8
      <3>2. NoneLeft(d) BY <2>4 DEF NoneLeft
      <3>3. InHandler(t, a, v) /\ Kept(d, t) BY <2>6, <3>1, <3>2, CloseRemoteLemma
      <3> QED BY <2>6, <3>3, KeptTrans
    <2> QED BY <2>7, <2>8
  <1> QED BY <1>8, <1>9

\* When the connection to the server is closed and nothing of it is in hand, the
\* application's end of stream tells the truth.
LEMMA CauseLemma ==
    ASSUME NEW s, NEW a, NEW v, Handling(s, a, v), s.rcl, ~s.lcl, s.lbuf = Nil
    PROVE  Cause(s) \in {"eof", "cut"} /\ (Cause(s) = "eof" => AllSent(s, a, v))
  <1>0. /\ Good(s) /\ Peers(a, v) /\ Sides(s) /\ Flow(s, a, v) /\ s.st \in States
        /\ s.st \notin {"none", "gone"}
    BY Fields DEF Handling
  <1>1. Cause(s) \in {"eof", "cut"} /\ (Cause(s) = "eof" => s.rend = "fin") BY DEF Cause
  <1>2. ASSUME s.rend = "fin", a.end = "open" PROVE Size(a.got) + Size(s.tx) = v.out
    <2>1. Live(s) BY <1>0, <1>2 DEF Flow, DownSent, Sides, Live, States
    <2>2. DownLine(s, a, v) /\ Data(s) = Nil BY <1>0, <2>1 DEF Flow, DownWhole, Sides, Data
    <2>3. Size(a.got) + Size(s.tx) + Size(s.lbuf) + Size(Data(s)) = v.out BY <1>2, <2>2 DEF DownLine
    <2>4. Size(s.lbuf) = 0 /\ Size(Data(s)) = 0 BY <2>2, EmptySeqNat
    <2>5. Size(a.got) \in Nat /\ Size(s.tx) \in Nat BY <1>0, Lengths, PeerFields
    <2>6. Size(a.got) + Size(s.tx) + 0 + 0 = v.out BY <2>3, <2>4
    <2> QED BY <2>5, <2>6
  <1>3. s.rend = "fin" => AllSent(s, a, v) BY <1>2 DEF AllSent
  <1> QED BY <1>1, <1>3

LEMMA EndLemma ==
    ASSUME NEW s, NEW a, NEW v, InHandler(s, a, v), s.rcl, s.lbuf = Nil,
           NEW t, t = CloseLocal(s, Cause(s))
    PROVE  InHandler(t, a, v) /\ Kept(s, t)
  <1>0. Handling(s, a, v) /\ UpWhole(s, a, v) BY DEF InHandler
  <1>1. CASE s.lcl
    <2>1. t = s BY <1>1 DEF CloseLocal
    <2> QED BY <2>1 DEF Kept
  <1>2. CASE ~s.lcl
    <2> DEFINE c == Cause(s)
    <2>1. c \in {"eof", "cut"} /\ (c = "eof" => AllSent(s, a, v)) BY <1>0, <1>2, CauseLemma
    <2>2. t = CloseLocal(s, c) OBVIOUS
    <2> HIDE DEF c
    <2>3. Handling(t, a, v) /\ SameUp(s, t) /\ SameLoop(s, t) /\ (UpWhole(s, a, v) => UpWhole(t, a, v))
      BY <1>0, <2>1, <2>2, CloseLocalLemma
    <2> QED BY <1>0, <2>3 DEF InHandler, Kept, SameUp, SameLoop
  <1> QED BY <1>1, <1>2

LEMMA RemoteToLocalLemma ==
    ASSUME NEW s, NEW a, NEW v, InHandler(s, a, v), NEW t, t = RemoteToLocal(s)
    PROVE  InHandler(t, a, v) /\ Kept(s, t)
  <1> DEFINE u == CopyDown(s)
  <1>1. InHandler(u, a, v) /\ Kept(s, u) BY CopyDownLemma
  <1>2. t = IF u.rcl /\ ~u.lcl /\ u.lbuf = Nil /\ u.tx = Nil THEN CloseLocal(u, Cause(u)) ELSE u
    BY DEF RemoteToLocal, Nil
  <1> HIDE DEF u
  <1>3. CASE u.rcl /\ ~u.lcl /\ u.lbuf = Nil /\ u.tx = Nil
    <2>1. InHandler(t, a, v) /\ Kept(u, t) BY <1>1, <1>2, <1>3, EndLemma
    <2> QED BY <1>1, <2>1, KeptTrans
  <1>4. CASE ~(u.rcl /\ ~u.lcl /\ u.lbuf = Nil /\ u.tx = Nil) BY <1>1, <1>2, <1>4
  <1> QED BY <1>3, <1>4

LEMMA CheckHalfCloseLemma ==
    ASSUME NEW s, NEW a, NEW v, InHandler(s, a, v), NEW t, t = CheckHalfClose(s)
    PROVE  InHandler(t, a, v) /\ Kept(s, t)
  <1> DEFINE u == IF s.lcl /\ ~s.rcl /\ s.rbuf = Nil THEN CloseRemote(s) ELSE s
  <1>1. t = IF u.rcl /\ ~u.lcl /\ u.lbuf = Nil THEN CloseLocal(u, Cause(u)) ELSE u
    BY DEF CheckHalfClose, Nil
  <1>2. InHandler(u, a, v) /\ Kept(s, u)
    <2>1. CASE s.lcl /\ ~s.rcl /\ s.rbuf = Nil
      <3>1. u = CloseRemote(s) BY <2>1
      <3>2. Handling(s, a, v) /\ NoneLeft(s) BY <2>1 DEF InHandler, Handling, Sides, NoneLeft
      <3> QED BY <3>1, <3>2, CloseRemoteLemma
    <2>2. CASE ~(s.lcl /\ ~s.rcl /\ s.rbuf = Nil)
      <3>1. u = s BY <2>2
      <3> QED BY <3>1 DEF Kept
    <2> QED BY <2>1, <2>2
  <1> HIDE DEF u
  <1>3. CASE u.rcl /\ ~u.lcl /\ u.lbuf = Nil
    <2>1. InHandler(t, a, v) /\ Kept(u, t) BY <1>1, <1>2, <1>3, EndLemma
    <2> QED BY <1>2, <2>1, KeptTrans
  <1>4. CASE ~(u.rcl /\ ~u.lcl /\ u.lbuf = Nil) BY <1>1, <1>2, <1>4
  <1> QED BY <1>3, <1>4

-----------------------------------------------------------------------------
(* The handlers *)

\* The invariant says nothing of the other fields of a record.
LEMMA SameValid ==
    ASSUME NEW s, NEW a, NEW v, Valid(s, a, v), NEW t \in Relay,
           SameUp(s, t), SameDown(s, t), SameSide(s, t)
    PROVE  Valid(t, a, v)
  <1>0. Good(s) /\ Peers(a, v) /\ Sides(s) /\ Flow(s, a, v) /\ UpWhole(s, a, v) BY DEF Valid
  <1>1. t.st = s.st /\ (Live(t) <=> Live(s)) BY DEF SameSide, Live
  <1>2. Good(t) BY <1>0 DEF Good, SameUp, SameDown
  <1>3. Sides(t) BY <1>0, <1>1 DEF Sides, SameUp, SameDown, SameSide
  <1>4. Early(t, v) /\ UpSent(t, a, v) BY <1>0, <1>1 DEF Flow, Early, UpSent, SameUp, SameDown
  <1>5. DownSent(t, a, v) BY <1>0, <1>1 DEF Flow, DownSent, SameUp, SameDown, SameSide
  <1>6. DownWhole(t, a, v) BY <1>0, <1>1 DEF Flow, DownWhole, DownLine, Data, SameUp, SameDown
  <1>7. EndWhole(t, a, v) BY <1>0, <1>1 DEF Flow, EndWhole, AllSent, SameUp, SameDown, SameSide
  <1>8. UpWhole(t, a, v) BY <1>0 DEF UpWhole, UpLine, SameUp
  <1> QED BY <1>0, <1>2, <1>3, <1>4, <1>5, <1>6, <1>7, <1>8 DEF Valid, Flow

LEMMA HandlerValid ==
    ASSUME NEW s, NEW a, NEW v
    PROVE  InHandler(s, a, v) <=>
             Valid(s, a, v) /\ s.on /\ s.st \notin {"none", "gone"} /\ (s.removed => s.rcl)
  BY DEF InHandler, Handling, Valid

LEMMA Unchanged ==
    ASSUME NEW s, NEW a, NEW v, InHandler(s, a, v), NEW t \in Relay,
           SameUp(s, t), SameDown(s, t), SameSide(s, t), SameLoop(s, t)
    PROVE  InHandler(t, a, v) /\ Kept(s, t)
  <1>1. Valid(s, a, v) /\ s.on /\ s.st \notin {"none", "gone"} /\ (s.removed => s.rcl) BY HandlerValid
  <1>2. Valid(t, a, v) BY <1>1, SameValid
  <1>3. t.on /\ t.st \notin {"none", "gone"} /\ (t.removed => t.rcl) /\ Kept(s, t)
    BY <1>1 DEF SameUp, SameSide, SameLoop, Kept
  <1> QED BY <1>2, <1>3, HandlerValid

LEMMA SettleLemma ==
    ASSUME NEW s, NEW a, NEW v, InHandler(s, a, v), NEW t, t = Settle(s)
    PROVE  InHandler(t, a, v) /\ Kept(s, t)
  <1> DEFINE u == CheckHalfClose(s)
  <1> DEFINE w == u.wakers \cup (IF u.lbuf # <<>> THEN {"tx"} ELSE {})
                     \cup (IF u.rbuf = <<>> /\ ~u.rcl THEN {"rx"} ELSE {})
  <1>1. InHandler(u, a, v) /\ Kept(s, u) BY CheckHalfCloseLemma
  <1>2. t = IF u.lcl THEN u ELSE PutWakers(u, w) BY DEF Settle, ReregisterLocal, PutWakers
  <1>3. Good(u) BY <1>1 DEF InHandler, Handling
  <1> HIDE DEF u
  <1>4. u \in Relay /\ u.wakers \in SUBSET {"rx", "tx"} BY <1>3, Fields
  <1>5. w \in SUBSET {"rx", "tx"} BY <1>4
  <1> HIDE DEF w
  <1>6. CASE u.lcl BY <1>1, <1>2, <1>6
  <1>7. CASE ~u.lcl
    <2>1. t = PutWakers(u, w) BY <1>2, <1>7
    <2>2. t \in Relay /\ SameUp(u, t) /\ SameDown(u, t) /\ SameSide(u, t) /\ SameLoop(u, t)
      BY <1>4, <1>5, <2>1, SetWakers
    <2>3. InHandler(t, a, v) /\ Kept(u, t) BY <1>1, <2>2, Unchanged
    <2> QED BY <1>1, <2>3, KeptTrans
  <1> QED BY <1>6, <1>7

PutAge(s, n) == [s EXCEPT !.age = n]
LEMMA SetAge ==
    ASSUME NEW s \in Relay, NEW n \in 0 .. 2, NEW t, t = PutAge(s, n)
    PROVE  /\ t \in Relay /\ t.wakers = s.wakers /\ t.edge = s.edge
           /\ SameUp(s, t) /\ SameDown(s, t) /\ SameSide(s, t) /\ SameLoop(s, t)
  BY DEF PutAge, Relay, SameUp, SameDown, SameSide, SameLoop

LEMMA YoungLemma ==
    ASSUME NEW s, NEW a, NEW v, InHandler(s, a, v), NEW t, t = [s EXCEPT !.age = 0]
    PROVE  InHandler(t, a, v) /\ Kept(s, t) /\ t.est = s.est /\ t.lcl = s.lcl /\ t.st = s.st
  <1> DEFINE n == 0
  <1>1. t = PutAge(s, n) /\ n \in 0 .. 2 BY DEF PutAge
  <1>2. s \in Relay BY Fields DEF InHandler, Handling
  <1> HIDE DEF n
  <1>3. t \in Relay /\ SameUp(s, t) /\ SameDown(s, t) /\ SameSide(s, t) /\ SameLoop(s, t)
    BY <1>1, <1>2, SetAge
  <1>4. InHandler(t, a, v) /\ Kept(s, t) BY <1>3, Unchanged
  <1> QED BY <1>3, <1>4 DEF SameUp, SameSide

LEMMA DoLocalLemma ==
    ASSUME NEW s, NEW a, NEW v, InHandler(s, a, v), NEW e, NEW t \in DoLocal(s, e)
    PROVE  InHandler(t, a, v) /\ Kept(s, t)
  <1> DEFINE y == [s EXCEPT !.age = 0]
  <1> DEFINE b == IF "rx" \in e THEN LocalToRemote(y) ELSE y
  <1> DEFINE c == IF "tx" \in e THEN RemoteToLocal(b) ELSE b
  <1>1. t = Settle(c) BY DEF DoLocal, LocalToRemote
  <1>2. InHandler(y, a, v) /\ Kept(s, y) BY YoungLemma
  <1> HIDE DEF y
  <1>3. InHandler(b, a, v) /\ Kept(y, b)
    <2>1. CASE "rx" \in e BY <1>2, <2>1, LocalToRemoteLemma
    <2>2. CASE "rx" \notin e BY <1>2, <2>2 DEF Kept
    <2> QED BY <2>1, <2>2
  <1> HIDE DEF b
  <1>4. InHandler(c, a, v) /\ Kept(b, c)
    <2>1. CASE "tx" \in e BY <1>3, <2>1, RemoteToLocalLemma
    <2>2. CASE "tx" \notin e BY <1>3, <2>2 DEF Kept
    <2> QED BY <2>1, <2>2
  <1> HIDE DEF c
  <1>5. InHandler(t, a, v) /\ Kept(c, t) BY <1>1, <1>4, SettleLemma
  <1> QED BY <1>2, <1>3, <1>4, <1>5, KeptTrans DEF Kept

PutFirst(s, q) == [s EXCEPT !.est = TRUE, !.cold = FALSE, !.sess = q]
LEMMA SetFirst ==
    ASSUME NEW s \in Relay, NEW q \in Seq(Nat), NEW t, t = PutFirst(s, q)
    PROVE  /\ t \in Relay /\ t.wakers = s.wakers /\ t.edge = s.edge
           /\ t.est /\ t.sess = q /\ t.sock = s.sock /\ t.rbuf = s.rbuf
           /\ t.rx = s.rx /\ t.rend = s.rend /\ t.rcl = s.rcl
           /\ SameDown(s, t) /\ SameSide(s, t) /\ SameLoop(s, t)
  BY DEF PutFirst, Relay, SameDown, SameSide, SameLoop

\* The request comes before what the socket has received.
LEMMA EstablishedLemma ==
    ASSUME NEW s, NEW a, NEW v, InHandler(s, a, v), NEW t, t = Established(s)
    PROVE  InHandler(t, a, v) /\ Kept(s, t)
  <1>0. /\ Good(s) /\ s \in Relay /\ Peers(a, v) /\ Sides(s) /\ Flow(s, a, v) /\ UpWhole(s, a, v)
        /\ s.on /\ s.st \notin {"none", "gone"} /\ (s.removed => s.rcl)
    BY Fields DEF InHandler, Handling
  <1>1. CASE s.est
    <2>1. t = s BY <1>1 DEF Established
    <2> QED BY <2>1 DEF Kept
  <1>2. CASE ~s.est
    <2> DEFINE q == Append(s.sess, Request)
    <2>1. t = PutFirst(s, q) BY <1>2 DEF Established, PutFirst
    <2>2. /\ s.sess = Nil /\ s.sock = Nil /\ s.rbuf = Nil /\ v.got = Nil
          /\ Run(s.rx, 1) /\ Size(s.rx) = a.out
      BY <1>0, <1>2 DEF Flow, Early, UpSent
    <2>3. Nil \in Seq(Nat) /\ Size(Nil) = 0 /\ \A n : Run(Nil, n) BY EmptySeqNat
    <2>4. q \in Seq(Nat) /\ Size(q) = 1 /\ Run(q, 0)
      <3> DEFINE m == 0
      <3>1. m \in Nat /\ m = m + Size(Nil) /\ q = Append(Nil, m) BY <2>2, <2>3 DEF Request
      <3>2. m = 0 OBVIOUS
      <3> HIDE DEF m, q
      <3>3. /\ Append(Nil, m) \in Seq(Nat) /\ Size(Append(Nil, m)) = Size(Nil) + 1
            /\ Run(Append(Nil, m), m)
        BY <2>3, <3>1, RunAppend
      <3> QED BY <2>3, <3>1, <3>2, <3>3
    <2> HIDE DEF q
    <2>5. /\ t \in Relay /\ t.est /\ t.sess = q /\ t.sock = s.sock /\ t.rbuf = s.rbuf
          /\ t.rx = s.rx /\ t.rend = s.rend /\ t.rcl = s.rcl
          /\ SameDown(s, t) /\ SameSide(s, t) /\ SameLoop(s, t)
      BY <1>0, <2>1, <2>4, SetFirst
    <2>6. t.on /\ t.st = s.st /\ (t.removed => t.rcl) /\ (Live(t) <=> Live(s))
      BY <1>0, <2>5 DEF SameLoop, SameSide, Live
    <2>7. Good(t)
      <3>1. Size(q) <= SessLimit BY <1>0, <2>4, Lengths
      <3> QED BY <1>0, <2>5, <3>1 DEF Good, SameDown
    <2>8. Sides(t) BY <1>0, <2>5, <2>6 DEF Sides, SameDown, SameSide
    <2>9. Early(t, v) /\ UpSent(t, a, v) BY <1>0, <2>1, <2>5 DEF Flow, Early, UpSent, SameDown
    <2>10. DownSent(t, a, v) BY <1>0, <2>5, <2>6 DEF Flow, DownSent, SameDown, SameSide
    <2>11. DownWhole(t, a, v) BY <1>0, <2>5, <2>6 DEF Flow, DownWhole, DownLine, Data, SameDown
    <2>12. EndWhole(t, a, v) BY <1>0, <2>5, <2>6 DEF Flow, EndWhole, AllSent, SameDown, SameSide
    <2>13. UpLine(t, a, v)
      <3>1. a.out \in Nat BY <1>0, PeerFields
      <3> DEFINE z == Size(Nil)
      <3>2. z = 0 /\ z + z = 0 /\ z + z + Size(q) = 1 /\ z + z + Size(q) + z = 1 /\ 1 + a.out = a.out + 1
        BY <2>3, <2>4, <3>1
      <3>3. /\ Run(q, z + z) /\ Run(Nil, z + z + Size(q)) /\ Run(s.rx, z + z + Size(q) + z)
            /\ z + z + Size(q) + z + Size(s.rx) = a.out + 1
        BY <2>2, <2>3, <2>4, <3>2
      <3> QED BY <2>2, <2>5, <3>3 DEF UpLine, z
    <2>14. UpWhole(t, a, v) /\ Kept(s, t) BY <2>5, <2>13 DEF UpWhole, Kept, SameLoop
    <2> QED BY <1>0, <2>6, <2>7, <2>8, <2>9, <2>10, <2>11, <2>12, <2>14 DEF InHandler, Handling, Flow
  <1> QED BY <1>1, <1>2

\* Both sides are closed at once when nothing can go on.
LEMMA BothClosed ==
    ASSUME NEW s, NEW a, NEW v, InHandler(s, a, v), NEW t, t = CloseRemote(CloseLocal(s, "cut"))
    PROVE  InHandler(t, a, v) /\ Kept(s, t) /\ t.rcl
  <1> DEFINE u == CloseLocal(s, "cut")
  <1>1. InHandler(u, a, v) /\ Kept(s, u) /\ u.lcl BY CutLemma
  <1>2. t = CloseRemote(u) OBVIOUS
  <1> HIDE DEF u
  <1>3. Handling(u, a, v) /\ NoneLeft(u) BY <1>1 DEF InHandler, Handling, Sides, NoneLeft
  <1>4. InHandler(t, a, v) /\ t.rcl /\ Kept(u, t) BY <1>2, <1>3, CloseRemoteLemma
  <1> QED BY <1>1, <1>4, KeptTrans

LEMMA DoRemoteLemma ==
    ASSUME NEW s, NEW a, NEW v, InHandler(s, a, v), NEW e, NEW t \in DoRemote(s, e)
    PROVE  InHandler(t, a, v) /\ Kept(s, t)
  <1> DEFINE y == [s EXCEPT !.age = 0]
  <1>1. InHandler(y, a, v) /\ Kept(s, y) BY YoungLemma
  <1>2. CASE "w" \in e /\ ~s.est /\ (s.lcl \/ s.st = "closed")
    <2>1. t = CloseRemote(CloseLocal(y, "cut")) BY <1>2 DEF DoRemote
    <2> HIDE DEF y
    <2>2. InHandler(t, a, v) /\ Kept(y, t) BY <1>1, <2>1, BothClosed
    <2> QED BY <1>1, <2>2, KeptTrans
  <1>3. CASE ~("w" \in e /\ ~s.est /\ (s.lcl \/ s.st = "closed"))
    <2>1. t \in DoRemoteEdges(y, e) BY <1>3 DEF DoRemote
    <2> HIDE DEF y
    <2> DEFINE x == IF "w" \in e THEN LocalToRemote(Established(y)) ELSE y
    <2> DEFINE b == IF "r" \in e THEN RemoteToLocal(x) ELSE x
    <2> DEFINE c == IF "r" \in e THEN FlushRemote(b) ELSE b
    <2>2. t = Settle(c) BY <2>1 DEF DoRemoteEdges, LocalToRemote
    <2>3. InHandler(x, a, v) /\ Kept(y, x)
      <3>1. CASE "w" \in e
        <4> DEFINE z == Established(y)
        <4>1. InHandler(z, a, v) /\ Kept(y, z) BY <1>1, EstablishedLemma
        <4>2. x = LocalToRemote(z) BY <3>1
        <4> HIDE DEF z, x
        <4>3. InHandler(x, a, v) /\ Kept(z, x) BY <4>1, <4>2, LocalToRemoteLemma
        <4> QED BY <4>1, <4>3, KeptTrans
      <3>2. CASE "w" \notin e BY <1>1, <3>2 DEF Kept
      <3> QED BY <3>1, <3>2
    <2> HIDE DEF x
    <2>4. InHandler(b, a, v) /\ Kept(x, b)
      <3>1. CASE "r" \in e BY <2>3, <3>1, RemoteToLocalLemma
      <3>2. CASE "r" \notin e BY <2>3, <3>2 DEF Kept
      <3> QED BY <3>1, <3>2
    <2> HIDE DEF b
    <2>5. InHandler(c, a, v) /\ Kept(b, c)
      <3>1. CASE "r" \in e BY <2>4, <3>1, FlushRemoteLemma
      <3>2. CASE "r" \notin e BY <2>4, <3>2 DEF Kept
      <3> QED BY <3>1, <3>2
    <2> HIDE DEF c
    <2>6. InHandler(t, a, v) /\ Kept(c, t) BY <2>2, <2>5, SettleLemma
    <2> QED BY <1>1, <2>3, <2>4, <2>5, <2>6 DEF Kept
  <1> QED BY <1>2, <1>3

PutMark(s, b) == [s EXCEPT !.removed = b]
LEMMA SetMark ==
    ASSUME NEW s \in Relay, NEW b \in BOOLEAN, NEW t, t = PutMark(s, b)
    PROVE  /\ t \in Relay /\ t.wakers = s.wakers /\ t.removed = b /\ t.on = s.on /\ t.ev = s.ev /\ t.edge = s.edge
           /\ SameUp(s, t) /\ SameDown(s, t) /\ SameSide(s, t)
  BY DEF PutMark, Relay, SameUp, SameDown, SameSide

LEMMA MarkLemma ==
    ASSUME NEW s, NEW a, NEW v, InHandler(s, a, v), NEW b \in BOOLEAN, b => s.rcl, NEW t, t = PutMark(s, b)
    PROVE  InHandler(t, a, v) /\ Kept(s, t)
  <1>1. Valid(s, a, v) /\ s.on /\ s.st \notin {"none", "gone"} BY HandlerValid
  <1>2. s \in Relay BY <1>1, Fields DEF Valid
  <1>3. /\ t \in Relay /\ t.removed = b /\ t.on = s.on /\ t.ev = s.ev
        /\ SameUp(s, t) /\ SameDown(s, t) /\ SameSide(s, t)
    BY Zenon, <1>2, SetMark
  <1>4. Valid(t, a, v) BY <1>1, <1>3, SameValid
  <1>5. t.on /\ t.st \notin {"none", "gone"} /\ (t.removed => t.rcl) /\ Kept(s, t)
    BY <1>1, <1>3 DEF SameUp, SameSide, Kept
  <1> QED BY <1>4, <1>5, HandlerValid

LEMMA MarkedLemma ==
    ASSUME NEW s, NEW a, NEW v, InHandler(s, a, v), NEW t, t = Marked(s)
    PROVE  InHandler(t, a, v) /\ Kept(s, t)
  <1> DEFINE b == s.removed \/ IsClosed(s)
  <1>1. t = PutMark(s, b) BY DEF Marked, PutMark
  <1>2. s.removed \in BOOLEAN /\ s.rcl \in BOOLEAN /\ (s.removed => s.rcl) BY Fields DEF InHandler, Handling
  <1>3. b \in BOOLEAN /\ (b => s.rcl) BY <1>2 DEF IsClosed
  <1> HIDE DEF b
  <1> QED BY <1>1, <1>3, MarkLemma

-----------------------------------------------------------------------------
(* The record between two handlers *)

LEMMA HandlerEnds ==
    ASSUME NEW s, NEW a, NEW v, InHandler(s, a, v), s.ev = {}
    PROVE  Between("poll", s, a, v)
  BY HandlerValid DEF Between, Shape

PutGone(s, b, x, w, q, e, m) ==
    [s EXCEPT !.on = b, !.st = x, !.wakers = w, !.rx = q, !.tx = q, !.edge = e, !.removed = m]
LEMMA SetGone ==
    ASSUME NEW s \in Relay, NEW b \in BOOLEAN, NEW x \in States, NEW w \in SUBSET {"rx", "tx"},
           NEW q \in Seq(Nat), NEW e \in SUBSET {"r", "w"}, NEW m \in BOOLEAN,
           NEW t, t = PutGone(s, b, x, w, q, e, m)
    PROVE  /\ t \in Relay /\ t.on = b /\ t.st = x /\ t.wakers = w /\ t.rx = q /\ t.tx = q
           /\ t.edge = e /\ t.removed = m /\ t.ev = s.ev
           /\ t.sock = s.sock /\ t.sess = s.sess /\ t.rbuf = s.rbuf
           /\ t.est = s.est /\ t.rend = s.rend /\ t.rcl = s.rcl
           /\ t.lbuf = s.lbuf /\ t.hs = s.hs /\ t.in = s.in /\ t.lcl = s.lcl /\ t.cause = s.cause
  BY ZenonT(60) DEF PutGone, Relay, States

\* A connection that is removed leaves nothing that its socket would be looked up
\* for, and no data that the server would still be sent.
LEMMA RemovedLemma ==
    ASSUME NEW s, NEW a, NEW v, Between("poll", s, a, v), NEW t, t = Removed(s)
    PROVE  Between("net", t, a, v) /\ Kept(s, t)
  <1>0. /\ Good(s) /\ s \in Relay /\ Peers(a, v) /\ Sides(s) /\ Shape("poll", s) /\ Flow(s, a, v)
        /\ UpWhole(s, a, v) /\ s.ev = {} /\ s.st # "gone"
    BY Fields DEF Between, Valid, Shape
  <1>1. CASE ~s.removed
    <2>1. t = s BY <1>1 DEF Removed
    <2>2. Shape("net", s) BY <1>0, <1>1 DEF Shape
    <2> QED BY <1>0, <2>1, <2>2 DEF Between, Valid, Kept
  <1>2. CASE s.removed
    <2> DEFINE b == FALSE
    <2> DEFINE x == "gone"
    <2> DEFINE w == {}
    <2>1. t = PutGone(s, b, x, w, Nil, w, b) BY <1>2 DEF Removed, PutGone, Nil
    <2>2. b \in BOOLEAN /\ x \in States /\ w \in SUBSET {"rx", "tx"} /\ w \in SUBSET {"r", "w"} BY DEF States
    <2>3. b = FALSE /\ x = "gone" /\ w = {} OBVIOUS
    <2>4. Nil \in Seq(Nat) /\ Size(Nil) = 0 /\ \A n : Run(Nil, n) BY EmptySeqNat
    <2> HIDE DEF b, x, w
    <2>5. /\ t \in Relay /\ t.on = b /\ t.st = x /\ t.wakers = w /\ t.rx = Nil /\ t.tx = Nil
          /\ t.edge = w /\ t.removed = b /\ t.ev = s.ev
          /\ t.sock = s.sock /\ t.sess = s.sess /\ t.rbuf = s.rbuf
          /\ t.est = s.est /\ t.rend = s.rend /\ t.rcl = s.rcl
          /\ t.lbuf = s.lbuf /\ t.hs = s.hs /\ t.in = s.in /\ t.lcl = s.lcl /\ t.cause = s.cause
      BY <1>0, <2>1, <2>2, <2>4, SetGone
    <2>6. t.st = "gone" /\ ~t.on /\ t.wakers = {} /\ t.edge = {} /\ ~t.removed /\ ~Live(t)
      BY <2>3, <2>5 DEF Live
    <2>7. Good(t)
      <3>1. Size(Nil) <= RxCap /\ Size(Nil) <= TxCap BY <1>0, <2>4, Lengths
      <3> QED BY <1>0, <2>5, <3>1 DEF Good
    <2>8. Sides(t) BY <1>0, <2>5, <2>6 DEF Sides
    <2>9. Shape("net", t) BY <1>0, <2>5, <2>6 DEF Shape
    <2>10. Early(t, v) /\ UpSent(t, a, v) BY <1>0, <2>5, <2>6 DEF Flow, Early, UpSent
    <2>11. DownSent(t, a, v)
      <3>1. Run(a.got, 1) /\ v.out <= NDown /\ v.fin = (s.rend # "open") BY <1>0 DEF Flow, DownSent
      <3>2. Size(a.got) + Size(s.tx) <= v.out BY <1>0 DEF Flow, DownSent
      <3>3. Size(a.got) \in Nat /\ Size(s.tx) \in Nat /\ v.out \in Nat BY <1>0, Lengths, PeerFields
      <3>4. Size(a.got) + 0 <= v.out BY <3>2, <3>3
      <3> QED BY <2>4, <2>5, <2>6, <3>1, <3>4 DEF DownSent
    <2>12. DownWhole(t, a, v) /\ EndWhole(t, a, v)
      BY <1>0, <2>5, <2>6 DEF Flow, DownWhole, EndWhole, AllSent
    <2>13. UpWhole(t, a, v) /\ Kept(s, t)
      <3>1. s.rcl \/ ~s.est BY <1>0, <1>2 DEF Shape
      <3> QED BY <2>5, <3>1 DEF UpWhole, Kept
    <2> QED BY <1>0, <2>7, <2>8, <2>9, <2>10, <2>11, <2>12, <2>13 DEF Between, Valid, Flow
  <1> QED BY <1>1, <1>2

-----------------------------------------------------------------------------
(* The steps of the loop *)

\* What a step of the loop leaves: the peers have not noticed, and what is shut
\* stays shut.
Turned ==
    /\ WInv' /\ UNCHANGED <<app, srv>>
    /\ k.rcl => k'.rcl /\ k'.sock = k.sock

LEMMA Starts ==
    ASSUME NEW p, NEW s, NEW a, NEW v, Between(p, s, a, v), s.on, NEW t \in Relay,
           SameUp(s, t), SameDown(s, t), SameSide(s, t), t.on = s.on, t.removed = s.removed
    PROVE  InHandler(t, a, v)
  <1>1. Valid(s, a, v) /\ Shape(p, s) BY DEF Between
  <1>2. Valid(t, a, v) BY <1>1, SameValid
  <1>3. t.on /\ t.st \notin {"none", "gone"} /\ (t.removed => t.rcl)
    BY <1>1 DEF Shape, SameUp, SameSide
  <1> QED BY <1>2, <1>3, HandlerValid

PutEv(s, e) == [s EXCEPT !.ev = e]
LEMMA SetEv ==
    ASSUME NEW s \in Relay, NEW e \in SUBSET {"rx", "tx"}, NEW t, t = PutEv(s, e)
    PROVE  /\ t \in Relay /\ t.wakers = s.wakers /\ t.ev = e /\ t.on = s.on /\ t.removed = s.removed
           /\ t.edge = s.edge /\ SameUp(s, t) /\ SameDown(s, t) /\ SameSide(s, t)
  BY DEF PutEv, Relay, SameUp, SameDown, SameSide

PutEdge(s, e) == [s EXCEPT !.edge = e]
LEMMA SetEdge ==
    ASSUME NEW s \in Relay, NEW e \in SUBSET {"r", "w"}, NEW t, t = PutEdge(s, e)
    PROVE  /\ t \in Relay /\ t.edge = e /\ t.wakers = s.wakers
           /\ SameUp(s, t) /\ SameDown(s, t) /\ SameSide(s, t) /\ SameLoop(s, t)
  BY DEF PutEdge, Relay, SameUp, SameDown, SameSide, SameLoop

\* do_local, then the mark of a connection that is closed.
LEMMA LocalDone ==
    ASSUME NEW s, NEW a, NEW v, InHandler(s, a, v), s.ev = {}, NEW e, NEW r \in DoLocal(s, e), NEW t, t = Marked(r)
    PROVE  Between("poll", t, a, v) /\ Kept(s, t)
  <1>1. InHandler(r, a, v) /\ Kept(s, r) BY DoLocalLemma
  <1>2. InHandler(t, a, v) /\ Kept(r, t) BY <1>1, MarkedLemma
  <1>3. Kept(s, t) BY <1>1, <1>2, KeptTrans
  <1>4. t.ev = {} BY <1>3 DEF Kept
  <1> QED BY <1>2, <1>3, <1>4, HandlerEnds

LEMMA LocalEventsStep == WInv /\ LocalEvents => Turned
  <1> SUFFICES ASSUME WInv, LocalEvents PROVE Turned OBVIOUS
  <1> DEFINE e == {}
  <1> DEFINE s == PutEv(k, e)
  <1>1. pc' = "poll" /\ UNCHANGED <<app, srv>> /\ k.on BY DEF LocalEvents, Loop
  <1>2. PICK r \in DoLocal(s, k.ev) : k' = Marked(r) BY DEF LocalEvents, Loop, PutEv
  <1>3. Between(pc, k, app, srv) /\ k \in Relay BY Fields DEF WInv, Between, Valid
  <1>4. e \in SUBSET {"rx", "tx"} /\ e = {} OBVIOUS
  <1> HIDE DEF e
  <1>5. /\ s \in Relay /\ s.ev = e /\ s.on = k.on /\ s.removed = k.removed
        /\ SameUp(k, s) /\ SameDown(k, s) /\ SameSide(k, s)
    BY <1>3, <1>4, SetEv
  <1> HIDE DEF s
  <1>6. InHandler(s, app, srv) /\ s.ev = {} BY <1>1, <1>3, <1>4, <1>5, Starts
  <1>7. Between("poll", k', app, srv) /\ Kept(s, k') BY <1>2, <1>6, LocalDone
  <1>8. k.rcl => k'.rcl /\ k'.sock = k.sock BY <1>5, <1>7 DEF Kept, SameUp
  <1> QED BY <1>1, <1>7, <1>8 DEF Turned, WInv

LEMMA RemoteEventsStep == WInv /\ RemoteEvents => Turned
  <1> SUFFICES ASSUME WInv, RemoteEvents PROVE Turned OBVIOUS
  <1> DEFINE e == {}
  <1> DEFINE s == PutEdge(k, e)
  <1>1. pc = "poll" /\ pc' = "net" /\ UNCHANGED <<app, srv>> /\ k.edge # {} BY DEF RemoteEvents, Loop
  <1>2. PICK r \in DoRemote(s, k.edge) : k' = Removed(Marked(r)) BY DEF RemoteEvents, Loop, PutEdge
  <1>3. Between(pc, k, app, srv) /\ k \in Relay /\ k.on /\ k.ev = {}
    BY <1>1, Fields DEF WInv, Between, Valid, Shape
  <1>4. e \in SUBSET {"r", "w"} OBVIOUS
  <1> HIDE DEF e
  <1>5. s \in Relay /\ SameUp(k, s) /\ SameDown(k, s) /\ SameSide(k, s) /\ SameLoop(k, s)
    BY <1>3, <1>4, SetEdge
  <1> HIDE DEF s
  <1>6. InHandler(s, app, srv) /\ s.ev = {} BY <1>3, <1>5, Starts DEF SameLoop
  <1>7. InHandler(r, app, srv) /\ Kept(s, r) BY <1>2, <1>6, DoRemoteLemma
  <1> DEFINE m == Marked(r)
  <1>8. InHandler(m, app, srv) /\ Kept(r, m) BY <1>7, MarkedLemma
  <1>9. k' = Removed(m) BY <1>2
  <1> HIDE DEF m
  <1>10. m.ev = {} BY <1>6, <1>7, <1>8 DEF Kept
  <1>11. Between("poll", m, app, srv) BY <1>8, <1>10, HandlerEnds
  <1>12. Between("net", k', app, srv) /\ Kept(m, k') BY <1>9, <1>11, RemovedLemma
  <1>13. k.rcl => k'.rcl /\ k'.sock = k.sock BY <1>5, <1>7, <1>8, <1>12 DEF Kept, SameUp
  <1> QED BY <1>1, <1>12, <1>13 DEF Turned, WInv

LEMMA RemoteNoneStep == WInv /\ RemoteNone => Turned
  <1> SUFFICES ASSUME WInv, RemoteNone PROVE Turned OBVIOUS
  <1>1. pc = "poll" /\ pc' = "net" /\ UNCHANGED <<app, srv>> /\ k' = Removed(k) BY DEF RemoteNone, Loop
  <1>2. Between("poll", k, app, srv) BY <1>1 DEF WInv
  <1>3. Between("net", k', app, srv) /\ Kept(k, k') BY <1>1, <1>2, RemovedLemma
  <1> QED BY <1>1, <1>3 DEF Turned, WInv, Kept

LEMMA LocalNoneStep == WInv /\ LocalNone => Turned
  <1> SUFFICES ASSUME WInv, LocalNone PROVE Turned OBVIOUS
  <1>1. pc = "net" /\ pc' = "poll" /\ UNCHANGED <<app, srv>> /\ k' = k /\ k.on /\ k.ev = {}
    BY DEF LocalNone, Loop
  <1>2. Between("poll", k, app, srv) BY <1>1 DEF WInv, Between, Shape
  <1>3. Between("poll", k', app, srv) BY <1>1, <1>2
  <1> QED BY <1>1, <1>3 DEF Turned, WInv

LEMMA CheckTimeoutStep == WInv /\ CheckTimeout => Turned
  <1> SUFFICES ASSUME WInv, CheckTimeout PROVE Turned OBVIOUS
  <1> DEFINE u == CloseRemote(CloseLocal(k, "cut"))
  <1> DEFINE b == TRUE
  <1> DEFINE m == PutMark(u, b)
  <1>1. /\ pc = "net" /\ pc' = "net" /\ UNCHANGED <<app, srv>> /\ k.on /\ k.ev = {}
        /\ k' = Removed(m)
    BY DEF CheckTimeout, Loop, PutMark
  <1>2. Between(pc, k, app, srv) /\ k \in Relay BY Fields DEF WInv, Between, Valid
  <1>3. InHandler(k, app, srv)
    <2>1. SameUp(k, k) /\ SameDown(k, k) /\ SameSide(k, k) BY DEF SameUp, SameDown, SameSide
    <2> QED BY <1>1, <1>2, <2>1, Starts
  <1>4. InHandler(u, app, srv) /\ Kept(k, u) /\ u.rcl BY <1>3, BothClosed
  <1>5. b \in BOOLEAN OBVIOUS
  <1> HIDE DEF u, b
  <1>6. InHandler(m, app, srv) /\ Kept(u, m) BY <1>4, <1>5, MarkLemma
  <1> HIDE DEF m
  <1>7. m.ev = {} BY <1>1, <1>4, <1>6 DEF Kept
  <1>8. Between("poll", m, app, srv) BY <1>6, <1>7, HandlerEnds
  <1>9. Between("net", k', app, srv) /\ Kept(m, k') BY <1>1, <1>8, RemovedLemma
  <1>10. k.rcl => k'.rcl /\ k'.sock = k.sock BY <1>4, <1>6, <1>9 DEF Kept
  <1> QED BY <1>1, <1>9, <1>10 DEF Turned, WInv

LEMMA AgesStep == WInv /\ Ages => Turned
  <1> SUFFICES ASSUME WInv, Ages PROVE Turned OBVIOUS
  <1> DEFINE n == k.age + 1
  <1>1. k' = PutAge(k, n) /\ UNCHANGED <<pc, app, srv>> /\ k.age < 2 BY DEF Ages, PutAge
  <1>2. Between(pc, k, app, srv) /\ k \in Relay /\ k.age \in 0 .. 2 BY Fields DEF WInv, Between, Valid
  <1>3. n \in 0 .. 2 BY <1>1, <1>2
  <1> HIDE DEF n
  <1>4. /\ k' \in Relay /\ k'.wakers = k.wakers /\ k'.edge = k.edge
        /\ SameUp(k, k') /\ SameDown(k, k') /\ SameSide(k, k') /\ SameLoop(k, k')
    BY <1>1, <1>2, <1>3, SetAge
  <1>5. Valid(k', app, srv) BY <1>2, <1>4, SameValid DEF Between
  <1>6. Shape(pc, k') BY <1>2, <1>4 DEF Between, Shape, SameUp, SameDown, SameSide, SameLoop
  <1>7. Between(pc, k', app, srv) BY <1>5, <1>6 DEF Between
  <1>8. pc' = pc /\ pc \in {"net", "poll"} /\ UNCHANGED <<app, srv>> BY <1>1 DEF WInv
  <1>9. k.rcl => k'.rcl /\ k'.sock = k.sock BY <1>4 DEF SameUp
  <1> QED BY <1>7, <1>8, <1>9 DEF Turned, WInv

LEMMA EvLemma ==
    ASSUME NEW s, NEW a, NEW v, InHandler(s, a, v), NEW e \in SUBSET {"rx", "tx"}, NEW t, t = PutEv(s, e)
    PROVE  InHandler(t, a, v) /\ t.ev = e /\ SameUp(s, t)
  <1>1. Valid(s, a, v) /\ s.on /\ s.st \notin {"none", "gone"} /\ (s.removed => s.rcl) BY HandlerValid
  <1>2. s \in Relay BY <1>1, Fields DEF Valid
  <1>3. /\ t \in Relay /\ t.ev = e /\ t.on = s.on /\ t.removed = s.removed
        /\ SameUp(s, t) /\ SameDown(s, t) /\ SameSide(s, t)
    BY <1>2, SetEv
  <1>4. Valid(t, a, v) BY <1>1, <1>3, SameValid
  <1>5. t.on /\ t.st \notin {"none", "gone"} /\ (t.removed => t.rcl) BY <1>1, <1>3 DEF SameUp, SameSide
  <1>6. InHandler(t, a, v) BY <1>4, <1>5, HandlerValid
  <1> QED BY <1>3, <1>6

LEMMA LocalListeningStep == WInv /\ LocalListening => Turned
  <1> SUFFICES ASSUME WInv, LocalListening PROVE Turned OBVIOUS
  <1> DEFINE u == IF k.on THEN CloseRemote(CloseLocal(k, "cut")) ELSE k
  <1> DEFINE e == {}
  <1> DEFINE b == TRUE
  <1> DEFINE s == PutEv(u, e)
  <1>1. /\ pc = "net" /\ pc' = "poll" /\ UNCHANGED <<app, srv>> /\ k.st = "listen"
        /\ k' = [u EXCEPT !.ev = e, !.removed = b]
    BY DEF LocalListening, Loop
  <1>2. Between(pc, k, app, srv) /\ k \in Relay BY Fields DEF WInv, Between, Valid
  <1>3. e \in SUBSET {"rx", "tx"} /\ b \in BOOLEAN /\ e = {} /\ b = TRUE OBVIOUS
  <1> HIDE DEF e, b
  <1>4. CASE k.on
    <2>1. InHandler(k, app, srv)
      <3>1. SameUp(k, k) /\ SameDown(k, k) /\ SameSide(k, k) BY DEF SameUp, SameDown, SameSide
      <3> QED BY <1>2, <1>4, <3>1, Starts
    <2>2. u = CloseRemote(CloseLocal(k, "cut")) BY <1>4
    <2> HIDE DEF u
    <2>3. InHandler(u, app, srv) /\ Kept(k, u) /\ u.rcl BY <2>1, <2>2, BothClosed
    <2>4. k' = PutMark(s, b) BY <1>1 DEF PutMark, PutEv
    <2>5. InHandler(s, app, srv) /\ s.ev = e /\ SameUp(u, s)
      <3>1. s = PutEv(u, e) /\ e \in SUBSET {"rx", "tx"} BY <1>3
      <3> HIDE DEF s
      <3> QED BY <2>3, <3>1, EvLemma
    <2> HIDE DEF s
    <2>6. InHandler(k', app, srv) /\ Kept(s, k')
      <3>1. b \in BOOLEAN /\ (b => s.rcl) BY <1>3, <2>3, <2>5 DEF SameUp
      <3> QED BY <2>4, <2>5, <3>1, MarkLemma
    <2>7. k'.ev = {} BY <1>3, <2>5, <2>6 DEF Kept
    <2>8. Between("poll", k', app, srv) BY <2>6, <2>7, HandlerEnds
    <2>9. k.rcl => k'.rcl /\ k'.sock = k.sock BY <2>3, <2>5, <2>6 DEF Kept, SameUp
    <2> QED BY <1>1, <2>8, <2>9 DEF Turned, WInv
  <1>5. CASE ~k.on
    <2>1. u = k BY <1>5
    <2> HIDE DEF u
    <2>2. s = PutEv(k, e) /\ k' = PutMark(s, b) BY <1>1, <2>1 DEF PutMark, PutEv
    <2> HIDE DEF s
    <2>3. /\ s \in Relay /\ s.ev = e /\ s.on = k.on /\ s.removed = k.removed
          /\ s.edge = k.edge /\ SameUp(k, s) /\ SameDown(k, s) /\ SameSide(k, s)
      BY <1>2, <1>3, <2>2, SetEv
    <2> DEFINE t == k'
    <2>4. t = PutMark(s, b) BY <2>2
    <2> HIDE DEF t
    <2>5. /\ t \in Relay /\ t.removed = b /\ t.on = s.on /\ t.ev = s.ev /\ t.edge = s.edge
          /\ SameUp(s, t) /\ SameDown(s, t) /\ SameSide(s, t)
      BY ZenonT(60), <1>3, <2>3, <2>4, SetMark
    <2>6. SameUp(k, t) /\ SameDown(k, t) /\ SameSide(k, t)
      BY <2>3, <2>5 DEF SameUp, SameDown, SameSide
    <2>7. Valid(t, app, srv) BY <1>2, <2>5, <2>6, SameValid DEF Between
    <2>8. Shape(pc, k) BY <1>2 DEF Between
    <2>9. t.ev = {} /\ ~t.on /\ t.edge = {} /\ t.st = "listen" BY <1>1, <1>3, <1>5, <2>3, <2>5, <2>6, <2>8 DEF Shape, SameSide
    <2>10. ~t.hs /\ t.in = Nil /\ ~t.est /\ ~t.rcl /\ ~t.lcl /\ t.rend = "open"
      BY <1>1, <1>5, <2>6, <2>8 DEF Shape, SameUp, SameDown, SameSide
    <2>11. Shape("poll", t) BY <2>9, <2>10 DEF Shape
    <2>12. Between("poll", k', app, srv) BY <2>7, <2>11 DEF Between, t
    <2>13. k.rcl => k'.rcl /\ k'.sock = k.sock BY <2>6 DEF SameUp, t
    <2> QED BY <1>1, <2>12, <2>13 DEF Turned, WInv
  <1> QED BY <1>4, <1>5

\* A new connection differs from none in what the pool hands over.
SameWay(s, t) ==
    /\ t.sock = s.sock /\ t.sess = s.sess /\ t.rbuf = s.rbuf /\ t.rx = s.rx
    /\ t.est = s.est /\ t.rend = s.rend /\ t.rcl = s.rcl
PutNew(s, b, w, c, h, e, q) == [s EXCEPT !.on = b, !.ev = w, !.cold = c, !.hs = h, !.edge = e, !.in = q]
LEMMA SetNew ==
    ASSUME NEW s \in Relay, NEW b \in BOOLEAN, NEW w \in SUBSET {"rx", "tx"}, NEW c \in BOOLEAN, NEW h \in BOOLEAN,
           NEW e \in SUBSET {"r", "w"}, NEW q \in Seq(Nat), NEW t, t = PutNew(s, b, w, c, h, e, q)
    PROVE  /\ t \in Relay /\ t.edge = e /\ t.on = b /\ t.ev = w /\ t.cold = c /\ t.hs = h /\ t.in = q
           /\ t.removed = s.removed /\ t.tx = s.tx /\ t.lbuf = s.lbuf /\ SameWay(s, t) /\ SameSide(s, t)
  BY ZenonT(60) DEF PutNew, Relay, SameWay, SameSide

\* A connection begins with what the pool hands over.
LEMMA NewLemma ==
    ASSUME NEW s, NEW a, NEW v, Between("net", s, a, v), ~s.on, s.st \notin {"none", "gone"},
           NEW t \in Relay, t.on, t.removed = s.removed, t.tx = s.tx, t.lbuf = s.lbuf,
           SameWay(s, t), SameSide(s, t), t.in = Nil \/ (~t.hs /\ t.in = <<Hello>>)
    PROVE  InHandler(t, a, v)
  <1>0. /\ Good(s) /\ Peers(a, v) /\ Sides(s) /\ Flow(s, a, v) /\ UpWhole(s, a, v)
        /\ ~s.hs /\ s.in = Nil /\ ~s.est /\ ~s.rcl /\ ~s.lcl /\ ~s.removed
    BY DEF Between, Valid, Shape
  <1>1. t.st = s.st /\ (Live(t) <=> Live(s)) BY DEF SameSide, Live
  <1>2. Good(t) BY <1>0 DEF Good, SameWay
  <1>3. Sides(t) BY <1>0, <1>1 DEF Sides, SameWay, SameSide
  <1>4. Early(t, v) BY <1>0 DEF Flow, Early, SameWay
  <1>5. UpSent(t, a, v) BY <1>0, <1>1 DEF Flow, UpSent, SameWay
  <1>6. DownSent(t, a, v) BY <1>0, <1>1 DEF Flow, DownSent, SameWay, SameSide
  <1>7. Data(t) = Nil /\ Data(s) = Nil BY <1>0 DEF Data
  <1>8. DownWhole(t, a, v) BY <1>0, <1>1, <1>7 DEF Flow, DownWhole, DownLine, SameWay
  <1>9. EndWhole(t, a, v) BY <1>0, <1>1 DEF Flow, EndWhole, SameSide
  <1>10. UpWhole(t, a, v) BY <1>0 DEF UpWhole, SameWay
  <1> QED BY <1>0, <1>1, <1>2, <1>3, <1>4, <1>5, <1>6, <1>8, <1>9, <1>10 DEF InHandler, Handling, Flow

LEMMA LocalNewStep == WInv /\ LocalNew => Turned
  <1> SUFFICES ASSUME WInv, LocalNew PROVE Turned OBVIOUS
  <1>0. pc = "net" /\ k.ev # {} /\ ~k.on /\ k.st # "listen" BY DEF LocalNew
  <1>1. PICK h \in Handover, arrived \in BOOLEAN :
          /\ arrived => h = "hello"
          /\ Loop("poll", { Marked(r) : r \in DoLocal(
                [k EXCEPT !.on = TRUE, !.ev = {}, !.cold = (h = "cold"), !.hs = (h = "warm"),
                          !.edge = IF h = "cold" THEN {} ELSE {"r", "w"},
                          !.in = IF arrived THEN <<Hello>> ELSE <<>>], k.ev) })
    BY DEF LocalNew
  <1> DEFINE on == TRUE
  <1> DEFINE none == {}
  <1> DEFINE cold == (h = "cold")
  <1> DEFINE hs == (h = "warm")
  <1> DEFINE edges == IF h = "cold" THEN {} ELSE {"r", "w"}
  <1> DEFINE in == IF arrived THEN <<Hello>> ELSE Nil
  <1> DEFINE s == PutNew(k, on, none, cold, hs, edges, in)
  <1>2. pc' = "poll" /\ UNCHANGED <<app, srv>> BY <1>1 DEF Loop
  <1>3. PICK r \in DoLocal(s, k.ev) : k' = Marked(r) BY <1>1 DEF Loop, PutNew, Nil
  <1>4. Between("net", k, app, srv) /\ k \in Relay BY <1>0, Fields DEF WInv, Between, Valid
  <1>5. k.st \notin {"none", "gone"} /\ ~k.rcl BY <1>0, <1>4 DEF Between, Shape
  <1>6. /\ on \in BOOLEAN /\ none \in SUBSET {"rx", "tx"} /\ hs \in BOOLEAN /\ edges \in SUBSET {"r", "w"}
        /\ cold \in BOOLEAN /\ in \in Seq(Nat)
    BY HelloSeq, EmptySeqNat
  <1>7. on = TRUE /\ none = {} /\ (in = Nil \/ (~hs /\ in = <<Hello>>)) BY <1>1
  <1> HIDE DEF on, none, cold, hs, edges, in
  <1>8. /\ s \in Relay /\ s.on = on /\ s.ev = none /\ s.hs = hs /\ s.in = in /\ s.removed = k.removed
        /\ s.tx = k.tx /\ s.lbuf = k.lbuf /\ SameWay(k, s) /\ SameSide(k, s)
    BY <1>4, <1>6, SetNew
  <1> HIDE DEF s
  <1>9. s.on /\ (s.in = Nil \/ (~s.hs /\ s.in = <<Hello>>)) BY <1>7, <1>8
  <1>10. InHandler(s, app, srv) /\ s.ev = {} BY <1>0, <1>4, <1>5, <1>7, <1>8, <1>9, NewLemma
  <1>11. Between("poll", k', app, srv) BY <1>3, <1>10, LocalDone
  <1> QED BY <1>2, <1>5, <1>11 DEF Turned, WInv

-----------------------------------------------------------------------------
(* The steps of the application *)

LEMMA NetShape ==
    ASSUME NEW s, NEW t, Shape("net", s), s.st \notin {"none", "gone"}, t.st \notin {"none", "gone"},
           t.on = s.on, t.removed = s.removed, t.edge = s.edge, t.lcl = s.lcl,
           t.hs = s.hs, t.in = s.in, t.est = s.est, t.rcl = s.rcl, t.rend = s.rend
    PROVE  Shape("net", t)
  BY DEF Shape

\* What is left to show of a step that leaves the way to the server alone.
LEMMA NetValid ==
    ASSUME NEW s, NEW a, NEW v, Valid(s, a, v), NEW t \in Relay, NEW b,
           SameUp(s, t), t.lbuf = s.lbuf, t.hs = s.hs, t.in = s.in, s.st # "gone",
           Size(t.tx) <= TxCap, ~s.hs => t.tx = Nil,
           Peers(b, v), b.out = a.out,
           Sides(t), DownSent(t, b, v), DownWhole(t, b, v), EndWhole(t, b, v)
    PROVE  Valid(t, b, v)
  <1>0. Good(s) /\ Flow(s, a, v) /\ UpWhole(s, a, v) BY DEF Valid
  <1>1. Good(t) BY <1>0 DEF Good, SameUp
  <1>2. Early(t, v) BY <1>0 DEF Flow, Early, SameUp
  <1>3. UpSent(t, b, v) BY <1>0 DEF Flow, UpSent, SameUp
  <1>4. UpWhole(t, b, v) BY <1>0 DEF UpWhole, UpLine, SameUp
  <1> QED BY <1>1, <1>2, <1>3, <1>4 DEF Valid, Flow

\* A change of the socket's state, which wakes whoever waits.
LEMMA StateValid ==
    ASSUME NEW s, NEW a, NEW v, Between("net", s, a, v), NEW x \in States, x \notin {"none", "gone"},
           NEW t, t = SetState(s, x), s.st \notin {"none", "gone"},
           NEW b, Peers(b, v), b.out = a.out, b.got = a.got, b.end = a.end \/ b.end # "open",
           x \in {"synrcvd", "est", "closewait"} => Live(s) /\ b.end = a.end,
           x \in {"finwait", "lastack", "timewait"} => s.lcl /\ s.cause # "none",
           x \in {"listen", "closed"} => s.lcl \/ b.end # "open",
           b.end # "open" => s.tx = Nil
    PROVE  Between("net", t, b, v) /\ SameUp(s, t)
  <1>0. Valid(s, a, v) /\ Good(s) /\ s \in Relay /\ Sides(s) /\ Flow(s, a, v) /\ Shape("net", s)
    BY Fields DEF Between, Valid
  <1>1. /\ t \in Relay /\ t.st = x /\ t.lcl = s.lcl /\ t.cause = s.cause
        /\ t.on = s.on /\ t.removed = s.removed
        /\ t.edge = s.edge /\ SameUp(s, t) /\ SameDown(s, t)
    BY <1>0, SetStateFields
  <1>2. t.tx = s.tx /\ t.lbuf = s.lbuf /\ t.hs = s.hs /\ t.in = s.in BY <1>1 DEF SameDown
  <1>3. Live(t) => Live(s) /\ b.end = a.end BY <1>1 DEF Live
  <1>4. Sides(t) BY <1>0, <1>1, <1>2, <1>3 DEF Sides, SameUp, Live
  <1>5. DownSent(t, b, v) BY <1>0, <1>1, <1>2, <1>3 DEF Flow, DownSent, SameUp
  <1>6. DownWhole(t, b, v) BY <1>0, <1>1, <1>2, <1>3 DEF Flow, DownWhole, DownLine, Data, SameUp
  <1>7. EndWhole(t, b, v) BY <1>0, <1>1, <1>2 DEF Flow, EndWhole, AllSent, SameUp
  <1>8. Size(t.tx) <= TxCap /\ (~s.hs => t.tx = Nil) BY <1>0, <1>2 DEF Good, Flow, Early
  <1>9. Valid(t, b, v) BY <1>0, <1>1, <1>2, <1>4, <1>5, <1>6, <1>7, <1>8, NetValid
  <1>10. t.rcl = s.rcl /\ t.est = s.est /\ t.rend = s.rend BY <1>1 DEF SameUp
  <1>11. Shape("net", t) BY <1>0, <1>1, <1>2, <1>10, NetShape
  <1> QED BY <1>1, <1>9, <1>11 DEF Between

LEMMA AckStep == WInv /\ Ack => WInv' /\ SameUp(k, k')
  <1> SUFFICES ASSUME WInv, Ack PROVE WInv' /\ SameUp(k, k') OBVIOUS
  <1> DEFINE x == "est"
  <1>1. /\ pc = "net" /\ pc' = "net" /\ app' = app /\ srv' = srv
        /\ k.st = "synrcvd" /\ k' = SetState(k, x)
    BY DEF Ack, Net
  <1>2. Between("net", k, app, srv) /\ Peers(app, srv) BY <1>1 DEF WInv, Between, Valid
  <1>3. Live(k) /\ ~(app.end # "open" /\ Live(k)) BY <1>1, <1>2 DEF Live, Between, Valid, Flow, DownSent
  <1>4. x \in States /\ x \notin {"none", "gone"} /\ x \notin {"finwait", "lastack", "timewait"} /\ x \notin {"listen", "closed"}
    BY DEF States
  <1> HIDE DEF x
  <1>5. Between("net", k', app, srv) /\ SameUp(k, k') BY <1>1, <1>2, <1>3, <1>4, StateValid
  <1> QED BY <1>1, <1>5 DEF WInv

LEMMA AppClosesStep == WInv /\ AppCloses => WInv' /\ SameUp(k, k')
  <1> SUFFICES ASSUME WInv, AppCloses PROVE WInv' /\ SameUp(k, k') OBVIOUS
  <1> DEFINE x == IF k.st = "est" THEN "closewait" ELSE "timewait"
  <1> DEFINE b == [app EXCEPT !.fin = "fin"]
  <1>1. /\ pc = "net" /\ pc' = "net" /\ app' = b /\ srv' = srv
        /\ k.st \in {"est", "finwait"} /\ k' = SetState(k, x)
    BY DEF AppCloses, Net
  <1>2. /\ Between("net", k, app, srv) /\ Peers(app, srv) /\ Sides(k) /\ DownSent(k, app, srv)
    BY <1>1 DEF WInv, Between, Valid, Flow
  <1>3. Peers(b, srv) /\ b.out = app.out /\ b.got = app.got /\ b.end = app.end BY <1>2 DEF Peers
  <1>4. /\ x \in States /\ x \notin {"none", "gone"} /\ k.st \notin {"none", "gone"}
        /\ x \in {"synrcvd", "est", "closewait"} => Live(k)
        /\ x \in {"finwait", "lastack", "timewait"} => k.lcl /\ k.cause # "none"
        /\ x \notin {"listen", "closed"}
    BY <1>1, <1>2 DEF States, Live, Sides
  <1>5. b.end # "open" => k.tx = Nil BY <1>2, <1>3 DEF DownSent
  <1> HIDE DEF x, b
  <1>6. Between("net", k', b, srv) /\ SameUp(k, k') BY <1>1, <1>2, <1>3, <1>4, <1>5, StateValid
  <1> QED BY <1>1, <1>6 DEF WInv

LEMMA TimeWaitEndsStep == WInv /\ TimeWaitEnds => WInv' /\ SameUp(k, k')
  <1> SUFFICES ASSUME WInv, TimeWaitEnds PROVE WInv' /\ SameUp(k, k') OBVIOUS
  <1> DEFINE x == "closed"
  <1>1. /\ pc = "net" /\ pc' = "net" /\ app' = app /\ srv' = srv
        /\ k.st = "timewait" /\ app.end # "open" /\ k' = SetState(k, x)
    BY DEF TimeWaitEnds, Net
  <1>2. Between("net", k, app, srv) /\ Peers(app, srv) /\ k.tx = Nil
    BY <1>1 DEF WInv, Between, Valid, Flow, DownSent
  <1>3. x \in States /\ x \notin {"none", "gone"} /\ x \notin {"finwait", "lastack", "timewait"} /\ x \notin {"synrcvd", "est", "closewait"}
    BY DEF States
  <1> HIDE DEF x
  <1>4. Between("net", k', app, srv) /\ SameUp(k, k') BY <1>1, <1>2, <1>3, StateValid
  <1> QED BY <1>1, <1>4 DEF WInv

\* The end of stream tells what it stands for.
LEMMA EgressFinStep ==
    WInv /\ EgressFin => /\ WInv' /\ SameUp(k, k')
                         /\ app'.end = "eof" => srv.fin /\ Size(app.got) = srv.out
  <1> SUFFICES ASSUME WInv, EgressFin
               PROVE  /\ WInv' /\ SameUp(k, k')
                      /\ app'.end = "eof" => srv.fin /\ Size(app.got) = srv.out
    OBVIOUS
  <1> DEFINE x == IF k.st = "lastack" THEN "closed" ELSE k.st
  <1> DEFINE b == [app EXCEPT !.end = k.cause]
  <1>1. /\ pc = "net" /\ pc' = "net" /\ app' = b /\ srv' = srv /\ app.end = "open"
        /\ k.st \in {"finwait", "timewait", "lastack"} /\ k.tx = Nil /\ k' = SetState(k, x)
    BY DEF EgressFin, Net, SetState, Nil
  <1>2. /\ Between("net", k, app, srv) /\ Good(k) /\ Peers(app, srv) /\ Sides(k) /\ Flow(k, app, srv)
    BY <1>1 DEF WInv, Between, Valid
  <1>3. k.lcl /\ k.cause \in {"eof", "cut"} BY <1>1, <1>2, Fields DEF Sides
  <1>4. Peers(b, srv) /\ b.out = app.out /\ b.got = app.got /\ b.end = k.cause /\ b.end # "open"
    BY <1>2, <1>3 DEF Peers
  <1>5. /\ x \in States /\ x \notin {"none", "gone"} /\ k.st \notin {"none", "gone"}
        /\ x \notin {"synrcvd", "est", "closewait"} /\ k.cause # "none"
    BY <1>1, <1>3 DEF States
  <1> HIDE DEF x, b
  <1>6. Between("net", k', b, srv) /\ SameUp(k, k') BY <1>1, <1>2, <1>3, <1>4, <1>5, StateValid
  <1>7. k.cause = "eof" => srv.fin /\ Size(app.got) = srv.out
    <2> SUFFICES ASSUME k.cause = "eof" PROVE srv.fin /\ Size(app.got) = srv.out OBVIOUS
    <2>1. AllSent(k, app, srv) /\ srv.fin = (k.rend # "open") BY <1>2 DEF Flow, EndWhole, DownSent
    <2>2. srv.fin /\ Size(app.got) + Size(k.tx) = srv.out BY <1>1, <1>5, <2>1 DEF AllSent
    <2>3. Size(k.tx) = 0 /\ Size(app.got) \in Nat BY <1>1, <1>2, EmptySeqNat, PeerFields
    <2>4. Size(app.got) + 0 = srv.out BY <2>2, <2>3
    <2> QED BY <2>2, <2>3, <2>4
  <1> QED BY <1>1, <1>4, <1>6, <1>7 DEF WInv

PutSyn(s, x, e) == [s EXCEPT !.st = x, !.ev = e]
LEMMA SetSyn ==
    ASSUME NEW s \in Relay, NEW x \in States, NEW e \in SUBSET {"rx", "tx"}, NEW t, t = PutSyn(s, x, e)
    PROVE  /\ t \in Relay /\ t.wakers = s.wakers /\ t.st = x /\ t.ev = e /\ t.on = s.on /\ t.removed = s.removed
           /\ t.edge = s.edge /\ t.lcl = s.lcl /\ t.cause = s.cause /\ SameUp(s, t) /\ SameDown(s, t)
  BY DEF PutSyn, Relay, States, SameUp, SameDown

LEMMA SynStep == WInv /\ Syn => WInv' /\ SameUp(k, k')
  <1> SUFFICES ASSUME WInv, Syn PROVE WInv' /\ SameUp(k, k') OBVIOUS
  <1> DEFINE x == "synrcvd"
  <1> DEFINE e == {"tx"}
  <1> DEFINE t == k'
  <1>1. /\ pc = "net" /\ pc' = "net" /\ app' = app /\ srv' = srv
        /\ k.st = "none" /\ t = PutSyn(k, x, e)
    BY DEF Syn, Net, PutSyn
  <1>2. /\ Valid(k, app, srv) /\ Shape("net", k) /\ k \in Relay /\ Good(k) /\ Peers(app, srv)
        /\ Sides(k) /\ Flow(k, app, srv)
    BY <1>1, Fields DEF WInv, Between, Valid
  <1>3. ~k.on /\ ~k.hs /\ k.in = Nil /\ ~k.est /\ ~k.rcl /\ ~k.lcl /\ k.edge = {} /\ ~k.removed /\ k.rend = "open"
    BY <1>1, <1>2 DEF Shape
  <1>4. k.tx = Nil /\ k.lbuf = Nil /\ srv.out = 0 BY <1>2, <1>3 DEF Flow, Early
  <1>5. x \in States /\ e \in SUBSET {"rx", "tx"} /\ x = "synrcvd" BY DEF States
  <1> HIDE DEF x, e, t
  <1>6. /\ t \in Relay /\ t.st = x /\ t.on = k.on /\ t.removed = k.removed
        /\ t.edge = k.edge /\ t.lcl = k.lcl /\ t.cause = k.cause /\ SameUp(k, t) /\ SameDown(k, t)
    BY <1>1, <1>2, <1>5, SetSyn
  <1>7. t.tx = Nil /\ t.lbuf = Nil /\ ~t.hs /\ t.in = Nil /\ t.hs = k.hs /\ t.in = k.in /\ t.lbuf = k.lbuf
    BY <1>3, <1>4, <1>6 DEF SameDown
  <1>8. Sides(t) BY <1>3, <1>5, <1>6, <1>7 DEF Sides, SameUp
  <1>9. app.end = "open" BY <1>1, <1>2 DEF Flow, DownSent
  <1>10. DownSent(t, app, srv) BY <1>2, <1>4, <1>5, <1>6, <1>7, <1>9 DEF Flow, DownSent, SameUp
  <1>11. Size(Nil) = 0 /\ \A n : Run(Nil, n) BY EmptySeqNat
  <1>12. DownLine(t, app, srv)
    <2>1. Size(app.got) + Size(k.tx) <= srv.out BY <1>2 DEF Flow, DownSent
    <2>2. Size(app.got) \in Nat BY <1>2, PeerFields
    <2>3. Size(app.got) + 0 <= 0 BY <1>4, <1>11, <2>1
    <2>4. Size(app.got) = 0 BY <2>2, <2>3
    <2>5. Size(app.got) + Size(Nil) + Size(Nil) + Size(Nil) = srv.out BY <1>4, <1>11, <2>4
    <2>6. Size(app.got) + Size(Nil) + Size(Nil) + Size(Nil) <= srv.out BY <1>4, <2>5
    <2>7. Data(t) = Nil BY <1>7 DEF Data
    <2> QED BY <1>7, <1>11, <2>5, <2>6, <2>7 DEF DownLine
  <1>13. DownWhole(t, app, srv) /\ EndWhole(t, app, srv)
    BY <1>2, <1>3, <1>6, <1>12 DEF DownWhole, Flow, EndWhole
  <1>14. Size(t.tx) <= TxCap BY <1>2, <1>4, <1>7 DEF Good
  <1>15. Valid(t, app, srv) BY <1>1, <1>2, <1>6, <1>7, <1>8, <1>10, <1>13, <1>14, NetValid
  <1>16. Shape("net", t) BY <1>3, <1>5, <1>6, <1>7 DEF Shape, SameUp
  <1>17. Between("net", k', app, srv) /\ SameUp(k, k') BY <1>6, <1>15, <1>16 DEF Between, t
  <1> QED BY <1>1, <1>17 DEF WInv

PutTx(s, q) == [s EXCEPT !.tx = q]
LEMMA SetTx ==
    ASSUME NEW s \in Relay, NEW q \in Seq(Nat), NEW t, t = PutTx(s, q)
    PROVE  /\ t \in Relay /\ t.tx = q /\ t.lbuf = s.lbuf /\ t.hs = s.hs /\ t.in = s.in
           /\ t.wakers = s.wakers /\ t.edge = s.edge
           /\ SameUp(s, t) /\ SameSide(s, t) /\ SameLoop(s, t)
  BY DEF PutTx, Relay, SameUp, SameSide, SameLoop

LEMMA AppResetsStep == WInv /\ AppResets => WInv' /\ SameUp(k, k')
  <1> SUFFICES ASSUME WInv, AppResets PROVE WInv' /\ SameUp(k, k') OBVIOUS
  <1> DEFINE x == IF k.st = "synrcvd" THEN "listen" ELSE "closed"
  <1> DEFINE r == SetState(k, x)
  <1> DEFINE b == [app EXCEPT !.fin = "rst", !.end = IF app.end = "open" THEN "cut" ELSE app.end]
  <1> DEFINE t == k'
  <1>1. /\ pc = "net" /\ pc' = "net" /\ app' = b /\ srv' = srv
        /\ IsActive(k) /\ t = PutTx(r, Nil)
    BY DEF AppResets, Net, PutTx, Nil
  <1>2. /\ Valid(k, app, srv) /\ Shape("net", k) /\ k \in Relay /\ Good(k) /\ Peers(app, srv)
        /\ Sides(k) /\ Flow(k, app, srv)
    BY <1>1, Fields DEF WInv, Between, Valid
  <1>3. Peers(b, srv) /\ b.out = app.out /\ b.got = app.got /\ b.end # "open" BY <1>2 DEF Peers
  <1>4. x \in States /\ x \in {"listen", "closed"} BY DEF States
  <1>5. k.st \notin {"none", "gone"} BY <1>1 DEF IsActive
  <1> HIDE DEF x, b
  <1>6. /\ r \in Relay /\ r.st = x /\ r.lcl = k.lcl /\ r.cause = k.cause
        /\ r.on = k.on /\ r.removed = k.removed
        /\ r.edge = k.edge /\ SameUp(k, r) /\ SameDown(k, r)
    BY <1>2, <1>4, SetStateFields
  <1>7. Nil \in Seq(Nat) /\ Size(Nil) = 0 /\ \A n : Run(Nil, n) BY EmptySeqNat
  <1> HIDE DEF r, t
  <1>8. /\ t \in Relay /\ t.tx = Nil /\ t.lbuf = r.lbuf /\ t.hs = r.hs /\ t.in = r.in
        /\ t.edge = r.edge /\ SameUp(r, t) /\ SameSide(r, t) /\ SameLoop(r, t)
    BY <1>1, <1>6, <1>7, SetTx
  <1>9. /\ t.st = x /\ t.lcl = k.lcl /\ t.cause = k.cause /\ t.on = k.on /\ t.removed = k.removed
        /\ t.edge = k.edge /\ t.lbuf = k.lbuf /\ t.hs = k.hs /\ t.in = k.in /\ SameUp(k, t) /\ ~Live(t)
    BY <1>4, <1>6, <1>8 DEF SameUp, SameDown, SameSide, SameLoop, Live
  <1>10. Sides(t) BY <1>2, <1>4, <1>9 DEF Sides, SameUp
  <1>11. DownSent(t, b, srv)
    <2>1. /\ Run(app.got, 1) /\ Size(app.got) + Size(k.tx) <= srv.out /\ srv.out <= NDown
          /\ srv.fin = (k.rend # "open")
      BY <1>2 DEF Flow, DownSent
    <2>2. Size(app.got) \in Nat /\ Size(k.tx) \in Nat /\ srv.out \in Nat BY <1>2, Lengths, PeerFields
    <2>3. Size(app.got) + 0 <= srv.out BY <2>1, <2>2
    <2> QED BY <1>3, <1>4, <1>7, <1>8, <1>9, <2>1, <2>3 DEF DownSent, SameUp
  <1>12. DownWhole(t, b, srv) /\ EndWhole(t, b, srv)
    BY <1>2, <1>3, <1>9 DEF DownWhole, Flow, EndWhole, AllSent, SameUp
  <1>13. Size(t.tx) <= TxCap
    <2>1. TxCap \in Nat BY TcpAssumption
    <2> QED BY <1>7, <1>8, <2>1
  <1>14. Valid(t, b, srv) BY <1>2, <1>3, <1>5, <1>8, <1>9, <1>10, <1>11, <1>12, <1>13, NetValid
  <1>15. t.rcl = k.rcl /\ t.est = k.est /\ t.rend = k.rend /\ t.st \notin {"none", "gone"} BY <1>4, <1>9 DEF SameUp
  <1>16. Shape("net", t) BY <1>2, <1>5, <1>9, <1>15, NetShape
  <1>17. Between("net", k', b, srv) /\ SameUp(k, k') BY <1>9, <1>14, <1>16 DEF Between, t
  <1> QED BY <1>1, <1>17 DEF WInv

\* The units of the socket's buffer reach the application one by one.
LEMMA EgressStep ==
    WInv /\ Egress => /\ WInv' /\ SameUp(k, k') /\ app.end = "open"
                      /\ Size(app'.got) = Size(app.got) + 1
  <1> SUFFICES ASSUME WInv, Egress
               PROVE  /\ WInv' /\ SameUp(k, k') /\ app.end = "open"
                      /\ Size(app'.got) = Size(app.got) + 1
    OBVIOUS
  <1> DEFINE r == PutTx(k, Tail(k.tx))
  <1> DEFINE w == {"tx"}
  <1> DEFINE b == [app EXCEPT !.got = Append(app.got, Head(k.tx))]
  <1> DEFINE t == k'
  <1> DEFINE g == Size(app.got)
  <1> DEFINE x == Size(k.tx)
  <1>1. /\ pc = "net" /\ pc' = "net" /\ app' = b /\ srv' = srv /\ k.tx # Nil
        /\ k.st \in {"est", "closewait", "finwait", "lastack", "timewait"} /\ t = Wake(r, w)
    BY DEF Egress, Net, PutTx, Nil
  <1>2. /\ Valid(k, app, srv) /\ Shape("net", k) /\ k \in Relay /\ Good(k) /\ Peers(app, srv)
        /\ Sides(k) /\ Flow(k, app, srv) /\ k.tx \in Seq(Nat)
    BY <1>1, Fields DEF WInv, Between, Valid
  <1>3. app.got \in Seq(Nat) /\ g \in Nat /\ x \in Nat /\ srv.out \in Nat /\ Size(k.lbuf) \in Nat
    BY <1>2, Lengths, PeerFields
  <1>4. /\ Run(app.got, 1) /\ Run(k.tx, 1 + g) /\ g + x <= srv.out /\ srv.out <= NDown
        /\ app.end = "open" /\ srv.fin = (k.rend # "open")
    BY <1>1, <1>2 DEF Flow, DownSent
  <1>5. /\ Head(k.tx) = 1 + g /\ x # 0
        /\ Tail(k.tx) \in Seq(Nat) /\ Size(Tail(k.tx)) = x - 1 /\ Run(Tail(k.tx), (1 + g) + 1)
    <2>1. 1 + g \in Nat BY <1>3
    <2> QED BY <1>1, <1>2, <1>4, <2>1, RunHead
  <1>6. /\ b.got \in Seq(Nat) /\ Size(b.got) = g + 1 /\ Run(b.got, 1)
        /\ b.out = app.out /\ b.fin = app.fin /\ b.end = app.end
    <2> DEFINE n == 1 + g
    <2>1. n \in Nat /\ n = 1 + Size(app.got) /\ 1 \in Nat BY <1>3
    <2>2. b.got = Append(app.got, n) /\ b.out = app.out /\ b.fin = app.fin /\ b.end = app.end
      BY <1>2, <1>5 DEF Peers
    <2> HIDE DEF n
    <2>3. Append(app.got, n) \in Seq(Nat) /\ Size(Append(app.got, n)) = Size(app.got) + 1 /\ Run(Append(app.got, n), 1)
      BY <1>3, <1>4, <2>1, RunAppend
    <2> QED BY <2>2, <2>3
  <1>7. Peers(b, srv)
    <2> DEFINE q == Append(app.got, Head(k.tx))
    <2>1. q \in Seq(Nat) /\ b = [app EXCEPT !.got = q] BY <1>2, <1>6 DEF Peers
    <2> HIDE DEF q
    <2> QED BY <1>2, <2>1 DEF Peers
  <1>8. w \in SUBSET {"rx", "tx"} OBVIOUS
  <1> HIDE DEF w, b
  <1>9. /\ r \in Relay /\ r.tx = Tail(k.tx) /\ r.lbuf = k.lbuf /\ r.hs = k.hs /\ r.in = k.in
        /\ r.edge = k.edge /\ SameUp(k, r) /\ SameSide(k, r) /\ SameLoop(k, r)
    <2> DEFINE q == Tail(k.tx)
    <2>1. k \in Relay /\ q \in Seq(Nat) /\ r = PutTx(k, q) BY <1>2, <1>5
    <2> HIDE DEF q, r
    <2>2. /\ r \in Relay /\ r.tx = q /\ r.lbuf = k.lbuf /\ r.hs = k.hs /\ r.in = k.in
          /\ r.edge = k.edge /\ SameUp(k, r) /\ SameSide(k, r) /\ SameLoop(k, r)
      BY <2>1, SetTx
    <2> QED BY <2>2 DEF q
  <1> HIDE DEF r, t
  <1>10. /\ t \in Relay /\ t.on = r.on /\ t.removed = r.removed
         /\ t.edge = r.edge /\ SameUp(r, t) /\ SameDown(r, t) /\ SameSide(r, t)
    BY <1>1, <1>8, <1>9, WakeFields
  <1>11. /\ t.tx = Tail(k.tx) /\ t.st = k.st /\ t.lcl = k.lcl /\ t.cause = k.cause /\ t.on = k.on
         /\ t.removed = k.removed /\ t.edge = k.edge /\ t.lbuf = k.lbuf /\ t.hs = k.hs /\ t.in = k.in
         /\ SameUp(k, t) /\ (Live(t) <=> Live(k))
    BY <1>9, <1>10 DEF SameUp, SameDown, SameSide, SameLoop, Live
  <1>12. Sides(t) BY <1>2, <1>11 DEF Sides, SameUp
  \* What has been handed over and what has been received together are the same.
  <1> DEFINE g2 == Size(b.got)
  <1> DEFINE x2 == Size(t.tx)
  <1>13. g2 = g + 1 /\ x2 = x - 1 BY <1>5, <1>6, <1>11
  <1>14. /\ g2 + x2 = g + x /\ 1 + g2 + x2 = 1 + g + x /\ 1 + g2 = (1 + g) + 1 /\ x2 <= x /\ x <= TxCap
         /\ x2 <= TxCap
    <2>1. x <= TxCap /\ TxCap \in Nat BY <1>2, Lengths
    <2> HIDE DEF g, x, g2, x2
    <2> QED BY <1>3, <1>5, <1>13, <2>1
  <1>15. DownSent(t, b, srv)
    <2>1. Run(b.got, 1) /\ Run(t.tx, 1 + g2) /\ g2 + x2 <= srv.out BY <1>4, <1>5, <1>6, <1>11, <1>14
    <2>2. k.st \notin {"none", "listen", "closed"} BY <1>1
    <2> QED BY <1>4, <1>6, <1>11, <2>1, <2>2 DEF DownSent, SameUp
  <1>16. DownWhole(t, b, srv)
    <2> SUFFICES ASSUME Live(k) PROVE DownLine(t, b, srv) BY <1>11 DEF DownWhole
    <2>1. DownLine(k, app, srv) BY <1>2 DEF Flow, DownWhole
    <2>2. Data(t) = Data(k) /\ t.rend = k.rend BY <1>11 DEF Data, SameUp
    <2>3. /\ Run(k.lbuf, 1 + g + x) /\ Run(Data(k), 1 + g + x + Size(k.lbuf))
          /\ g + x + Size(k.lbuf) + Size(Data(k)) <= srv.out
          /\ k.rend # "rst" => g + x + Size(k.lbuf) + Size(Data(k)) = srv.out
      BY <2>1 DEF DownLine
    <2> HIDE DEF g, x
    <2>4. /\ Run(t.lbuf, 1 + g2 + x2) /\ Run(Data(t), 1 + g2 + x2 + Size(t.lbuf))
          /\ g2 + x2 + Size(t.lbuf) + Size(Data(t)) <= srv.out
          /\ t.rend # "rst" => g2 + x2 + Size(t.lbuf) + Size(Data(t)) = srv.out
      <3> HIDE DEF g2, x2
      <3> QED BY <1>11, <1>14, <2>2, <2>3
    <2> QED BY <2>4 DEF DownLine
  <1>17. EndWhole(t, b, srv)
    <2> SUFFICES ASSUME k.cause = "eof" PROVE k.lcl /\ k.rend # "open" /\ g2 + x2 = srv.out
      BY <1>11 DEF EndWhole, AllSent, SameUp
    <2>1. k.lcl /\ AllSent(k, app, srv) BY <1>2 DEF Flow, EndWhole
    <2>2. k.rend # "open" /\ g + x = srv.out BY <1>1, <1>4, <2>1 DEF AllSent
    <2> QED BY <1>14, <2>1, <2>2
  <1>18. ~k.hs => t.tx = Nil
    <2>1. k.hs BY <1>1, <1>2 DEF Flow, Early
    <2> QED BY <2>1
  <1>19. Valid(t, b, srv)
    <2>1. k.st # "gone" /\ Size(t.tx) <= TxCap BY <1>1, <1>14
    <2> QED BY <1>2, <1>6, <1>7, <1>10, <1>11, <1>12, <1>15, <1>16, <1>17, <1>18, <2>1, NetValid
  <1>20. t.rcl = k.rcl /\ t.est = k.est /\ t.rend = k.rend /\ k.st \notin {"none", "gone"} BY <1>1, <1>11 DEF SameUp
  <1>21. Shape("net", t) BY <1>2, <1>11, <1>20, NetShape
  <1>22. Between("net", k', b, srv) /\ SameUp(k, k') BY <1>11, <1>19, <1>21 DEF Between, t
  <1> QED BY <1>1, <1>4, <1>6, <1>22 DEF WInv

PutRx(s, q) == [s EXCEPT !.rx = q]
LEMMA SetRx ==
    ASSUME NEW s \in Relay, NEW q \in Seq(Nat), NEW t, t = PutRx(s, q)
    PROVE  /\ t \in Relay /\ t.wakers = s.wakers /\ t.rx = q /\ t.sock = s.sock /\ t.sess = s.sess /\ t.rbuf = s.rbuf
           /\ t.edge = s.edge /\ SameBut(s, t)
  BY DEF PutRx, Relay, SameBut, SameDown, SameSide, SameLoop

\* The application's next unit follows what the socket holds.
LEMMA AppSendsStep ==
    WInv /\ AppSends => WInv' /\ k'.sock = k.sock /\ k'.rcl = k.rcl
  <1> SUFFICES ASSUME WInv, AppSends PROVE WInv' /\ k'.sock = k.sock /\ k'.rcl = k.rcl OBVIOUS
  <1> DEFINE n == app.out + 1
  <1> DEFINE q == Append(k.rx, n)
  <1> DEFINE r == PutRx(k, q)
  <1> DEFINE w == {"rx"}
  <1> DEFINE b == [app EXCEPT !.out = n]
  <1> DEFINE t == k'
  <1> DEFINE g == Size(srv.got)
  <1>1. /\ pc = "net" /\ pc' = "net" /\ app' = b /\ srv' = srv
        /\ k.st \in {"est", "finwait"} /\ Size(k.rx) < RxCap /\ t = Wake(r, w)
    BY DEF AppSends, Net, PutRx, Size
  <1>2. /\ Valid(k, app, srv) /\ Shape("net", k) /\ k \in Relay /\ Good(k) /\ Peers(app, srv)
        /\ Sides(k) /\ Flow(k, app, srv) /\ UpWhole(k, app, srv) /\ k.rx \in Seq(Nat)
    BY <1>1, Fields DEF WInv, Between, Valid
  <1>3. /\ app.out \in Nat /\ g \in Nat /\ Size(k.rx) \in Nat /\ Size(k.sock) \in Nat
        /\ Size(k.sess) \in Nat /\ Size(k.rbuf) \in Nat /\ RxCap \in Nat
    BY <1>2, Lengths, PeerFields
  <1>4. n \in Nat BY <1>3
  <1>5. Peers(b, srv) /\ b.out = n /\ b.fin = app.fin /\ b.got = app.got /\ b.end = app.end
    <2> HIDE DEF n
    <2> QED BY <1>2, <1>4 DEF Peers
  <1>6. /\ q \in Seq(Nat) /\ Size(q) = Size(k.rx) + 1
        /\ \A i \in Nat : Run(k.rx, i) /\ n = i + Size(k.rx) => Run(q, i)
    <2> HIDE DEF n
    <2>1. q \in Seq(Nat) /\ Size(q) = Size(k.rx) + 1 BY <1>2, <1>4, AppendProperties DEF Size
    <2>2. ASSUME NEW i \in Nat, Run(k.rx, i), n = i + Size(k.rx) PROVE Run(q, i)
      BY <1>2, <1>4, <2>2, RunAppend
    <2> QED BY <2>1, <2>2
  <1>7. Size(q) <= RxCap BY <1>1, <1>3, <1>6
  <1>8. w \in SUBSET {"rx", "tx"} OBVIOUS
  <1> HIDE DEF q, w, b
  <1>9. /\ r \in Relay /\ r.rx = q /\ r.sock = k.sock /\ r.sess = k.sess /\ r.rbuf = k.rbuf
        /\ r.edge = k.edge /\ SameBut(k, r)
    BY <1>2, <1>6, SetRx
  <1> HIDE DEF r, t
  <1>10. /\ t \in Relay /\ t.on = r.on /\ t.removed = r.removed
         /\ t.edge = r.edge /\ SameUp(r, t) /\ SameDown(r, t) /\ SameSide(r, t)
    BY <1>1, <1>8, <1>9, WakeFields
  <1>11. /\ t.rx = q /\ t.sock = k.sock /\ t.sess = k.sess /\ t.rbuf = k.rbuf
         /\ t.est = k.est /\ t.rend = k.rend /\ t.rcl = k.rcl
         /\ t.on = k.on /\ t.removed = k.removed /\ t.edge = k.edge
         /\ SameDown(k, t) /\ SameSide(k, t) /\ t.st = k.st /\ (Live(t) <=> Live(k))
    BY <1>9, <1>10 DEF SameBut, SameUp, SameDown, SameSide, SameLoop, Live
  <1>12. Good(t) BY <1>2, <1>7, <1>10, <1>11 DEF Good, SameDown
  <1>13. Sides(t) BY <1>2, <1>11 DEF Sides, SameDown, SameSide
  <1>14. Early(t, srv) BY <1>2, <1>11 DEF Flow, Early, SameDown
  <1>15. UpSent(t, b, srv)
    <2>1. /\ Run(srv.got, 0) /\ g <= app.out + 1
          /\ k.rend # "rst" => Run(k.sock, g) /\ g + Size(k.sock) <= app.out + 1
      BY <1>2 DEF Flow, UpSent
    <2>2. g <= n + 1 /\ (k.rend # "rst" => g + Size(k.sock) <= n + 1)
      <3> HIDE DEF g
      <3> QED BY <1>3, <2>1
    <2>3. ~k.est => Run(q, 1) /\ Size(q) = n
      <3> SUFFICES ASSUME ~k.est PROVE Run(q, 1) /\ Size(q) = n OBVIOUS
      <3>1. Run(k.rx, 1) /\ Size(k.rx) = app.out BY <1>1, <1>2 DEF Flow, UpSent
      <3>2. n = 1 + Size(k.rx) /\ 1 \in Nat BY <1>3, <3>1
      <3> QED BY <1>6, <3>1, <3>2
    <2> HIDE DEF n
    <2> QED BY <1>5, <1>11, <2>1, <2>2, <2>3 DEF UpSent
  <1>16. UpWhole(t, b, srv)
    <2> SUFFICES ASSUME t.est, ~t.rcl, t.rend # "rst" PROVE UpLine(t, b, srv) BY DEF UpWhole
    <2>1. UpLine(k, app, srv) BY <1>2, <1>11 DEF UpWhole
    <2> DEFINE m == g + Size(k.sock) + Size(k.sess) + Size(k.rbuf)
    <2>2. m \in Nat BY <1>3
    <2>3. /\ Run(k.sess, g + Size(k.sock)) /\ Run(k.rbuf, g + Size(k.sock) + Size(k.sess))
          /\ Run(k.rx, m) /\ m + Size(k.rx) = app.out + 1
      BY <2>1 DEF UpLine
    <2>4. Run(q, m) BY <1>6, <2>2, <2>3
    <2>5. m + Size(q) = n + 1
      <3> HIDE DEF m
      <3> QED BY <1>3, <1>6, <2>2, <2>3
    <2> HIDE DEF n
    <2> QED BY <1>5, <1>11, <2>3, <2>4, <2>5 DEF UpLine
  <1>17. DownSent(t, b, srv) BY <1>2, <1>5, <1>11 DEF Flow, DownSent, SameDown, SameSide
  <1>18. DownWhole(t, b, srv) BY <1>2, <1>5, <1>11 DEF Flow, DownWhole, DownLine, Data, SameDown
  <1>19. EndWhole(t, b, srv) BY <1>2, <1>5, <1>11 DEF Flow, EndWhole, AllSent, SameDown, SameSide
  <1>20. Valid(t, b, srv)
    BY <1>5, <1>12, <1>13, <1>14, <1>15, <1>16, <1>17, <1>18, <1>19 DEF Valid, Flow
  <1>21. t.lcl = k.lcl /\ t.hs = k.hs /\ t.in = k.in /\ k.st \notin {"none", "gone"}
    BY <1>1, <1>11 DEF SameDown, SameSide
  <1>22. Shape("net", t) BY <1>2, <1>11, <1>21, NetShape
  <1>23. Between("net", k', b, srv) /\ k'.sock = k.sock /\ k'.rcl = k.rcl
    BY <1>11, <1>20, <1>22 DEF Between, t
  <1> QED BY <1>1, <1>23 DEF WInv

-----------------------------------------------------------------------------
(* The steps of the server *)

LEMMA RemoteShape ==
    ASSUME NEW p, NEW s, NEW t, Shape(p, s), s.on, t.on = s.on, t.st = s.st, t.ev = s.ev,
           t.removed = s.removed, t.rcl = s.rcl
    PROVE  Shape(p, t)
  BY DEF Shape

PutIn(s, q, e) == [s EXCEPT !.in = q, !.edge = e]
LEMMA SetIn ==
    ASSUME NEW s \in Relay, NEW q \in Seq(Nat), NEW e \in SUBSET {"r", "w"}, NEW t, t = PutIn(s, q, e)
    PROVE  /\ t \in Relay /\ t.wakers = s.wakers /\ t.edge = e
           /\ t.in = q /\ t.tx = s.tx /\ t.lbuf = s.lbuf /\ t.hs = s.hs
           /\ SameUp(s, t) /\ SameSide(s, t) /\ SameLoop(s, t)
  BY DEF PutIn, Relay, SameUp, SameSide, SameLoop

PutRend(s, x, e) == [s EXCEPT !.rend = x, !.edge = e]
LEMMA SetRend ==
    ASSUME NEW s \in Relay, NEW x \in {"open", "fin", "rst"}, NEW e \in SUBSET {"r", "w"},
           NEW t, t = PutRend(s, x, e)
    PROVE  /\ t \in Relay /\ t.wakers = s.wakers /\ t.edge = e
           /\ t.rend = x /\ t.sock = s.sock /\ t.sess = s.sess /\ t.rbuf = s.rbuf
           /\ t.rx = s.rx /\ t.est = s.est /\ t.rcl = s.rcl
           /\ SameDown(s, t) /\ SameSide(s, t) /\ SameLoop(s, t)
  BY DEF PutRend, Relay, SameDown, SameSide, SameLoop

LEMMA TcpConnectsStep == WInv /\ TcpConnects => WInv' /\ SameUp(k, k')
  <1> SUFFICES ASSUME WInv, TcpConnects PROVE WInv' /\ SameUp(k, k') OBVIOUS
  <1> DEFINE e == k.edge \cup {"w"}
  <1> DEFINE t == k'
  <1>1. pc' = pc /\ app' = app /\ srv' = srv /\ k.on /\ t = PutEdge(k, e)
    BY DEF TcpConnects, Remote, PutEdge
  <1>2. Valid(k, app, srv) /\ Shape(pc, k) /\ k \in Relay /\ k.edge \in SUBSET {"r", "w"} /\ pc \in {"net", "poll"}
    BY Fields DEF WInv, Between, Valid
  <1>3. e \in SUBSET {"r", "w"} BY <1>2
  <1> HIDE DEF e, t
  <1>4. t \in Relay /\ SameUp(k, t) /\ SameDown(k, t) /\ SameSide(k, t) /\ SameLoop(k, t)
    BY <1>1, <1>2, <1>3, SetEdge
  <1>5. Valid(t, app, srv) BY <1>2, <1>4, SameValid
  <1>6. Shape(pc, t) BY <1>1, <1>2, <1>4, RemoteShape DEF SameUp, SameSide, SameLoop
  <1> QED BY <1>1, <1>2, <1>4, <1>5, <1>6 DEF WInv, Between, t

LEMMA HelloArrivesStep == WInv /\ HelloArrives => WInv' /\ SameUp(k, k')
  <1> SUFFICES ASSUME WInv, HelloArrives PROVE WInv' /\ SameUp(k, k') OBVIOUS
  <1> DEFINE q == <<Hello>>
  <1> DEFINE e == k.edge \cup {"r"}
  <1> DEFINE t == k'
  <1>1. /\ pc' = pc /\ app' = app /\ srv' = srv /\ ~k.hs /\ k.in = Nil /\ k.on /\ ~k.rcl
        /\ t = PutIn(k, q, e)
    BY DEF HelloArrives, Remote, PutIn, Nil
  <1>2. /\ Shape(pc, k) /\ k \in Relay /\ Good(k) /\ Peers(app, srv) /\ pc \in {"net", "poll"}
        /\ Sides(k) /\ Flow(k, app, srv) /\ UpWhole(k, app, srv) /\ k.edge \in SUBSET {"r", "w"}
    BY Fields DEF WInv, Between, Valid
  <1>3. q \in Seq(Nat) /\ e \in SUBSET {"r", "w"} /\ q = <<Hello>> BY <1>2, HelloSeq
  <1> HIDE DEF q, e, t
  <1>4. /\ t \in Relay /\ t.in = q /\ t.tx = k.tx /\ t.lbuf = k.lbuf /\ t.hs = k.hs
        /\ SameUp(k, t) /\ SameSide(k, t) /\ SameLoop(k, t)
    <2>1. k \in Relay /\ q \in Seq(Nat) /\ e \in SUBSET {"r", "w"} /\ t = PutIn(k, q, e) BY <1>1, <1>2, <1>3
    <2> QED BY <2>1, SetIn
  <1>5. t.st = k.st /\ (Live(t) <=> Live(k)) /\ Data(t) = Nil /\ Data(k) = Nil
    BY <1>1, <1>4 DEF SameSide, Live, Data
  <1>6. Good(t) BY <1>2, <1>4 DEF Good, SameUp
  <1>7. Sides(t) BY <1>1, <1>2, <1>4, <1>5 DEF Sides, SameUp, SameSide
  <1>8. Early(t, srv) BY <1>2, <1>3, <1>4 DEF Flow, Early, SameUp
  <1>9. UpSent(t, app, srv) /\ UpWhole(t, app, srv) BY <1>2, <1>4, <1>5 DEF Flow, UpSent, UpWhole, UpLine, SameUp
  <1>10. DownSent(t, app, srv) BY <1>2, <1>4, <1>5 DEF Flow, DownSent, SameUp, SameSide
  <1>11. DownWhole(t, app, srv) BY <1>2, <1>4, <1>5 DEF Flow, DownWhole, DownLine, SameUp
  <1>12. EndWhole(t, app, srv) BY <1>2, <1>4, <1>5 DEF Flow, EndWhole, AllSent, SameUp, SameSide
  <1>13. Shape(pc, t)
    <2>1. t.on = k.on /\ t.ev = k.ev /\ t.removed = k.removed /\ t.rcl = k.rcl
      BY <1>4 DEF SameLoop, SameUp
    <2> QED BY <1>1, <1>2, <1>5, <2>1, RemoteShape
  <1>14. Between(pc, k', app, srv) /\ SameUp(k, k')
    BY <1>2, <1>4, <1>6, <1>7, <1>8, <1>9, <1>10, <1>11, <1>12, <1>13 DEF Between, Valid, Flow, t
  <1> QED BY <1>1, <1>2, <1>14 DEF WInv

LEMMA ServerClosesStep == WInv /\ ServerCloses => WInv' /\ k'.sock = k.sock /\ k'.rcl = k.rcl
  <1> SUFFICES ASSUME WInv, ServerCloses PROVE WInv' /\ k'.sock = k.sock /\ k'.rcl = k.rcl OBVIOUS
  <1> DEFINE x == "fin"
  <1> DEFINE e == k.edge \cup {"r"}
  <1> DEFINE v == [srv EXCEPT !.fin = TRUE]
  <1> DEFINE t == k'
  <1>1. /\ pc' = pc /\ app' = app /\ srv' = v /\ k.rend = "open" /\ k.on /\ ~k.rcl
        /\ t = PutRend(k, x, e)
    BY DEF ServerCloses, Remote, PutRend
  <1>2. /\ Shape(pc, k) /\ k \in Relay /\ Good(k) /\ Peers(app, srv) /\ pc \in {"net", "poll"}
        /\ Sides(k) /\ Flow(k, app, srv) /\ UpWhole(k, app, srv) /\ k.edge \in SUBSET {"r", "w"}
    BY Fields DEF WInv, Between, Valid
  <1>3. Peers(app, v) /\ v.out = srv.out /\ v.got = srv.got /\ v.fin = TRUE BY <1>2 DEF Peers
  <1>4. x \in {"open", "fin", "rst"} /\ e \in SUBSET {"r", "w"} /\ x = "fin" BY <1>2
  <1> HIDE DEF x, e, t, v
  <1>5. /\ t \in Relay /\ t.rend = x /\ t.sock = k.sock /\ t.sess = k.sess /\ t.rbuf = k.rbuf
        /\ t.rx = k.rx /\ t.est = k.est /\ t.rcl = k.rcl
        /\ SameDown(k, t) /\ SameSide(k, t) /\ SameLoop(k, t)
    BY <1>1, <1>2, <1>4, SetRend
  <1>6. t.st = k.st /\ (Live(t) <=> Live(k)) /\ Data(t) = Data(k) BY <1>5 DEF SameSide, SameDown, Live, Data
  <1>7. Good(t) BY <1>2, <1>5 DEF Good, SameDown
  <1>8. Sides(t) BY <1>2, <1>5, <1>6 DEF Sides, SameDown, SameSide
  <1>9. Early(t, v) BY <1>2, <1>3, <1>5 DEF Flow, Early, SameDown
  <1>10. UpSent(t, app, v) BY <1>1, <1>2, <1>3, <1>4, <1>5, <1>6 DEF Flow, UpSent
  <1>11. UpWhole(t, app, v) BY <1>1, <1>2, <1>3, <1>4, <1>5 DEF UpWhole, UpLine
  <1>12. DownSent(t, app, v) BY <1>2, <1>3, <1>4, <1>5, <1>6 DEF Flow, DownSent, SameDown, SameSide
  <1>13. DownWhole(t, app, v) BY <1>1, <1>2, <1>3, <1>4, <1>5, <1>6 DEF Flow, DownWhole, DownLine, SameDown
  <1>14. EndWhole(t, app, v) BY <1>1, <1>2, <1>5 DEF Flow, EndWhole, AllSent, SameSide
  <1>15. Shape(pc, t)
    <2>1. t.on = k.on /\ t.ev = k.ev /\ t.removed = k.removed BY <1>5 DEF SameLoop
    <2> QED BY <1>1, <1>2, <1>5, <1>6, <2>1, RemoteShape
  <1>16. Between(pc, k', app, v) /\ k'.sock = k.sock /\ k'.rcl = k.rcl
    BY <1>3, <1>5, <1>7, <1>8, <1>9, <1>10, <1>11, <1>12, <1>13, <1>14, <1>15 DEF Between, Valid, Flow, t
  <1> QED BY <1>1, <1>2, <1>16 DEF WInv

PutReset(s, x, q, e) == [s EXCEPT !.rend = x, !.in = q, !.sock = q, !.edge = e]
LEMMA SetReset ==
    ASSUME NEW s \in Relay, NEW x \in {"open", "fin", "rst"}, NEW q \in Seq(Nat), NEW e \in SUBSET {"r", "w"},
           NEW t, t = PutReset(s, x, q, e)
    PROVE  /\ t \in Relay /\ t.wakers = s.wakers /\ t.edge = e
           /\ t.rend = x /\ t.in = q /\ t.sock = q /\ t.sess = s.sess /\ t.rbuf = s.rbuf
           /\ t.rx = s.rx /\ t.est = s.est /\ t.rcl = s.rcl
           /\ t.tx = s.tx /\ t.lbuf = s.lbuf /\ t.hs = s.hs /\ SameSide(s, t) /\ SameLoop(s, t)
  BY DEF PutReset, Relay, SameSide, SameLoop

\* A reset takes what is on its way in either direction.
LEMMA ServerResetsStep == WInv /\ ServerResets => WInv' /\ ~k.rcl /\ ~k'.rcl
  <1> SUFFICES ASSUME WInv, ServerResets PROVE WInv' /\ ~k.rcl /\ ~k'.rcl OBVIOUS
  <1> DEFINE x == "rst"
  <1> DEFINE e == {"r", "w"}
  <1> DEFINE v == [srv EXCEPT !.fin = TRUE]
  <1> DEFINE t == k'
  <1>1. /\ pc' = pc /\ app' = app /\ srv' = v /\ k.rend # "rst" /\ k.on /\ ~k.rcl
        /\ t = PutReset(k, x, Nil, e)
    BY DEF ServerResets, Remote, PutReset, Nil
  <1>2. /\ Shape(pc, k) /\ k \in Relay /\ Good(k) /\ Peers(app, srv) /\ pc \in {"net", "poll"}
        /\ Sides(k) /\ Flow(k, app, srv) /\ k.in \in Seq(Nat)
    BY Fields DEF WInv, Between, Valid
  <1>3. Peers(app, v) /\ v.out = srv.out /\ v.got = srv.got /\ v.fin = TRUE BY <1>2 DEF Peers
  <1>4. x \in {"open", "fin", "rst"} /\ e \in SUBSET {"r", "w"} /\ x = "rst" OBVIOUS
  <1>a. Nil \in Seq(Nat) /\ Size(Nil) = 0 /\ \A n : Run(Nil, n) BY EmptySeqNat
  <1> HIDE DEF x, e, t, v
  <1>5. /\ t \in Relay /\ t.rend = x /\ t.in = Nil /\ t.sock = Nil /\ t.sess = k.sess /\ t.rbuf = k.rbuf
        /\ t.rx = k.rx /\ t.est = k.est /\ t.rcl = k.rcl
        /\ t.tx = k.tx /\ t.lbuf = k.lbuf /\ t.hs = k.hs /\ SameSide(k, t) /\ SameLoop(k, t)
    <2>1. k \in Relay /\ t = PutReset(k, x, Nil, e) BY <1>1, <1>2
    <2> QED BY <1>4, <1>a, <2>1, SetReset
  <1>6. t.st = k.st /\ (Live(t) <=> Live(k)) /\ Data(t) = Nil BY <1>5 DEF SameSide, Live, Data
  <1>7. Good(t)
    <2>1. SockCap \in Nat BY TcpAssumption
    <2>2. Size(Nil) <= SockCap BY <1>a, <2>1
    <2> QED BY <1>2, <1>5, <2>2 DEF Good
  <1>8. Sides(t) BY <1>2, <1>5, <1>6 DEF Sides, SameSide
  <1>9. Early(t, v) BY <1>2, <1>3, <1>5 DEF Flow, Early
  <1>10. UpSent(t, app, v) BY <1>2, <1>3, <1>4, <1>5, <1>6 DEF Flow, UpSent
  <1>11. UpWhole(t, app, v) BY <1>4, <1>5 DEF UpWhole
  <1>12. DownSent(t, app, v) BY <1>2, <1>3, <1>4, <1>5, <1>6 DEF Flow, DownSent, SameSide
  <1>13. DownWhole(t, app, v)
    <2> SUFFICES ASSUME Live(k) PROVE DownLine(t, app, v) BY <1>6 DEF DownWhole
    <2> DEFINE m == Size(app.got) + Size(k.tx) + Size(k.lbuf)
    <2>1. DownLine(k, app, srv) BY <1>2 DEF Flow, DownWhole
    <2>2. Run(k.lbuf, 1 + Size(app.got) + Size(k.tx)) /\ m + Size(Data(k)) <= srv.out BY <2>1 DEF DownLine
    <2>3. /\ Size(app.got) \in Nat /\ Size(k.tx) \in Nat /\ Size(k.lbuf) \in Nat /\ srv.out \in Nat
      BY <1>2, Lengths, PeerFields
    <2>4. Size(Data(k)) \in Nat BY <1>2, <1>a, LenNat DEF Data
    <2>5. m \in Nat BY <2>3
    <2>6. m + 0 <= srv.out
      <3> HIDE DEF m
      <3> QED BY <2>2, <2>3, <2>4, <2>5
    <2>7. m + Size(Nil) <= srv.out BY <1>a, <2>6
    <2> QED BY <1>3, <1>4, <1>5, <1>6, <1>a, <2>2, <2>7 DEF DownLine
  <1>14. EndWhole(t, app, v) BY <1>2, <1>3, <1>4, <1>5, <1>6 DEF Flow, EndWhole, AllSent, SameSide
  <1>15. Shape(pc, t)
    <2>1. t.on = k.on /\ t.ev = k.ev /\ t.removed = k.removed BY <1>5 DEF SameLoop
    <2> QED BY <1>1, <1>2, <1>5, <1>6, <2>1, RemoteShape
  <1>16. Between(pc, k', app, v) /\ ~k'.rcl
    BY <1>1, <1>3, <1>5, <1>7, <1>8, <1>9, <1>10, <1>11, <1>12, <1>13, <1>14, <1>15 DEF Between, Valid, Flow, t
  <1> QED BY <1>1, <1>2, <1>16 DEF WInv

\* The server's next unit follows what has arrived.
LEMMA ServerSendsStep == WInv /\ ServerSends => WInv' /\ SameUp(k, k')
  <1> SUFFICES ASSUME WInv, ServerSends PROVE WInv' /\ SameUp(k, k') OBVIOUS
  <1> DEFINE n == srv.out + 1
  <1> DEFINE q == Append(k.in, n)
  <1> DEFINE e == k.edge \cup {"r"}
  <1> DEFINE v == [srv EXCEPT !.out = n]
  <1> DEFINE t == k'
  <1>1. /\ pc' = pc /\ app' = app /\ srv' = v /\ srv.got # Nil /\ srv.out < NDown /\ k.rend = "open"
        /\ k.on /\ ~k.rcl /\ t = PutIn(k, q, e)
    BY DEF ServerSends, Remote, PutIn, Nil
  <1>2. /\ Shape(pc, k) /\ k \in Relay /\ Good(k) /\ Peers(app, srv) /\ pc \in {"net", "poll"}
        /\ Sides(k) /\ Flow(k, app, srv) /\ UpWhole(k, app, srv) /\ k.edge \in SUBSET {"r", "w"}
        /\ k.in \in Seq(Nat) /\ k.hs \in BOOLEAN
    BY Fields DEF WInv, Between, Valid
  <1>3. /\ Size(app.got) \in Nat /\ Size(k.tx) \in Nat /\ Size(k.lbuf) \in Nat /\ srv.out \in Nat
        /\ Size(k.in) \in Nat /\ NDown \in Nat /\ n \in Nat /\ n <= NDown
    <2>1. /\ Size(app.got) \in Nat /\ Size(k.tx) \in Nat /\ Size(k.lbuf) \in Nat /\ srv.out \in Nat
          /\ Size(k.in) \in Nat /\ NDown \in Nat
      BY <1>2, Lengths, PeerFields
    <2>2. srv.out < NDown BY <1>1
    <2> QED BY <2>1, <2>2
  <1>4. Peers(app, v) /\ v.out = n /\ v.got = srv.got /\ v.fin = srv.fin
    <2>1. n \in Nat BY <1>3
    <2> HIDE DEF n
    <2> QED BY <1>2, <2>1 DEF Peers
  <1>5. k.hs BY <1>1, <1>2 DEF Flow, Early
  <1>6. /\ q \in Seq(Nat) /\ Size(q) = Size(k.in) + 1
        /\ \A i \in Nat : Run(k.in, i) /\ n = i + Size(k.in) => Run(q, i)
    <2>0. n \in Nat BY <1>3
    <2> HIDE DEF n
    <2>1. q \in Seq(Nat) /\ Size(q) = Size(k.in) + 1 BY <1>2, <2>0, AppendProperties DEF Size
    <2>2. ASSUME NEW i \in Nat, Run(k.in, i), n = i + Size(k.in) PROVE Run(q, i)
      BY <1>2, <2>0, <2>2, RunAppend
    <2> QED BY <2>1, <2>2
  <1>7. e \in SUBSET {"r", "w"} BY <1>2
  <1> HIDE DEF q, e, t, v
  <1>8. /\ t \in Relay /\ t.in = q /\ t.tx = k.tx /\ t.lbuf = k.lbuf /\ t.hs = k.hs
        /\ SameUp(k, t) /\ SameSide(k, t) /\ SameLoop(k, t)
    <2>1. k \in Relay /\ q \in Seq(Nat) /\ e \in SUBSET {"r", "w"} /\ t = PutIn(k, q, e) BY <1>1, <1>2, <1>6, <1>7
    <2> QED BY <2>1, SetIn
  <1>9. t.st = k.st /\ (Live(t) <=> Live(k)) /\ Data(t) = q /\ Data(k) = k.in /\ t.rend = "open"
    BY <1>1, <1>5, <1>8 DEF SameSide, SameUp, Live, Data
  <1>10. Good(t) BY <1>2, <1>8 DEF Good, SameUp
  <1>11. Sides(t) BY <1>1, <1>2, <1>8, <1>9 DEF Sides, SameUp, SameSide
  <1>12. Early(t, v) BY <1>2, <1>4, <1>5, <1>8 DEF Flow, Early, SameUp
  <1>13. UpSent(t, app, v) /\ UpWhole(t, app, v)
    BY <1>2, <1>4, <1>8, <1>9 DEF Flow, UpSent, UpWhole, UpLine, SameUp
  <1>14. DownSent(t, app, v)
    <2>1. Size(app.got) + Size(k.tx) <= srv.out BY <1>2 DEF Flow, DownSent
    <2>2. Size(app.got) + Size(k.tx) <= n BY <1>3, <2>1
    <2> HIDE DEF n
    <2> QED BY <1>2, <1>3, <1>4, <1>8, <1>9, <2>2 DEF Flow, DownSent, SameUp, SameSide
  <1>15. DownWhole(t, app, v)
    <2> SUFFICES ASSUME Live(k) PROVE DownLine(t, app, v) BY <1>9 DEF DownWhole
    <2> DEFINE m == 1 + Size(app.got) + Size(k.tx) + Size(k.lbuf)
    <2> DEFINE l == Size(app.got) + Size(k.tx) + Size(k.lbuf)
    <2>1. DownLine(k, app, srv) BY <1>2 DEF Flow, DownWhole
    <2>2. /\ Run(k.lbuf, 1 + Size(app.got) + Size(k.tx)) /\ Run(k.in, m)
          /\ l + Size(k.in) = srv.out
      BY <1>1, <1>9, <2>1 DEF DownLine
    <2>3. m \in Nat /\ l \in Nat /\ m = 1 + l BY <1>3
    <2>4. n = m + Size(k.in) /\ l + (Size(k.in) + 1) = n
      <3> HIDE DEF m, l
      <3> QED BY <1>3, <2>2, <2>3
    <2>5. Run(q, m) BY <1>6, <2>2, <2>3, <2>4
    <2>6. l + Size(q) = n /\ l + Size(q) <= n
      <3> HIDE DEF m, l
      <3>1. l + Size(q) = n BY <1>6, <2>4
      <3> QED BY <1>3, <3>1
    <2> HIDE DEF n
    <2> QED BY <1>4, <1>8, <1>9, <2>2, <2>5, <2>6 DEF DownLine
  <1>16. EndWhole(t, app, v) BY <1>1, <1>2, <1>8, <1>9 DEF Flow, EndWhole, AllSent, SameSide
  <1>17. Shape(pc, t)
    <2>1. t.on = k.on /\ t.ev = k.ev /\ t.removed = k.removed /\ t.rcl = k.rcl
      BY <1>8 DEF SameLoop, SameUp
    <2> QED BY <1>1, <1>2, <1>9, <2>1, RemoteShape
  <1>18. Between(pc, k', app, v) /\ SameUp(k, k')
    BY <1>4, <1>8, <1>10, <1>11, <1>12, <1>13, <1>14, <1>15, <1>16, <1>17 DEF Between, Valid, Flow, t
  <1> QED BY <1>1, <1>2, <1>18 DEF WInv

PutSock(s, q, e) == [s EXCEPT !.sock = q, !.edge = e]
LEMMA SetSock ==
    ASSUME NEW s \in Relay, NEW q \in Seq(Nat), NEW e \in SUBSET {"r", "w"}, NEW t, t = PutSock(s, q, e)
    PROVE  /\ t \in Relay /\ t.sock = q /\ t.edge = e /\ t.sess = s.sess /\ t.rbuf = s.rbuf /\ t.rx = s.rx
           /\ t.wakers = s.wakers /\ SameBut(s, t)
  BY DEF PutSock, Relay, SameBut, SameDown, SameSide, SameLoop

\* The units of the kernel's buffer reach the server one by one.
LEMMA ServerGetsStep ==
    WInv /\ ServerGets => WInv' /\ Size(srv'.got) = Size(srv.got) + 1
  <1> SUFFICES ASSUME WInv, ServerGets PROVE WInv' /\ Size(srv'.got) = Size(srv.got) + 1 OBVIOUS
  <1> DEFINE q == Tail(k.sock)
  <1> DEFINE e == IF k.on /\ ~k.rcl THEN k.edge \cup {"w"} ELSE k.edge
  <1> DEFINE v == [srv EXCEPT !.got = Append(srv.got, Head(k.sock))]
  <1> DEFINE t == k'
  <1> DEFINE g == Size(srv.got)
  <1> DEFINE x == Size(k.sock)
  <1>1. /\ pc' = pc /\ app' = app /\ srv' = v /\ k.sock # Nil /\ k.rend # "rst" /\ t = PutSock(k, q, e)
    BY DEF ServerGets, PutSock, Nil
  <1>2. /\ Shape(pc, k) /\ k \in Relay /\ Good(k) /\ Peers(app, srv) /\ pc \in {"net", "poll"}
        /\ Sides(k) /\ Flow(k, app, srv) /\ UpWhole(k, app, srv) /\ k.edge \in SUBSET {"r", "w"}
        /\ k.sock \in Seq(Nat) /\ k.est \in BOOLEAN /\ k.hs \in BOOLEAN
    BY Fields DEF WInv, Between, Valid
  <1>3. /\ srv.got \in Seq(Nat) /\ g \in Nat /\ x \in Nat /\ app.out \in Nat /\ SockCap \in Nat /\ x <= SockCap
        /\ Size(k.sess) \in Nat /\ Size(k.rbuf) \in Nat /\ Size(k.rx) \in Nat
    BY <1>2, Lengths, PeerFields
  <1>4. k.est /\ k.hs BY <1>1, <1>2 DEF Flow, Early
  <1>5. Run(srv.got, 0) /\ Run(k.sock, g) /\ g + x <= app.out + 1 BY <1>1, <1>2 DEF Flow, UpSent
  <1>6. Head(k.sock) = g /\ x # 0 /\ q \in Seq(Nat) /\ Size(q) = x - 1 /\ Run(q, g + 1)
    BY <1>1, <1>2, <1>3, <1>5, RunHead
  <1>7. v.got \in Seq(Nat) /\ Size(v.got) = g + 1 /\ Run(v.got, 0) /\ v.out = srv.out /\ v.fin = srv.fin
    <2>1. g = 0 + Size(srv.got) /\ 0 \in Nat BY <1>3
    <2>2. v.got = Append(srv.got, g) /\ v.out = srv.out /\ v.fin = srv.fin BY <1>2, <1>6 DEF Peers
    <2>3. Append(srv.got, g) \in Seq(Nat) /\ Size(Append(srv.got, g)) = Size(srv.got) + 1 /\ Run(Append(srv.got, g), 0)
      <3> DEFINE z == 0
      <3>1. z \in Nat /\ g = z + Size(srv.got) /\ g \in Nat /\ Run(srv.got, z) BY <1>3, <1>5, <2>1
      <3> HIDE DEF g, z
      <3>2. /\ Append(srv.got, g) \in Seq(Nat) /\ Size(Append(srv.got, g)) = Size(srv.got) + 1
            /\ Run(Append(srv.got, g), z)
        BY <1>3, <3>1, RunAppend
      <3> QED BY <3>2 DEF z
    <2> QED BY <2>2, <2>3
  <1>8. Peers(app, v)
    <2> DEFINE c == Append(srv.got, Head(k.sock))
    <2>1. c \in Seq(Nat) /\ v = [srv EXCEPT !.got = c] BY <1>2, <1>7 DEF Peers
    <2> HIDE DEF c
    <2> QED BY <1>2, <2>1 DEF Peers
  <1>9. e \in SUBSET {"r", "w"} /\ (~k.on => e = k.edge) BY <1>2
  <1> HIDE DEF q, e, t, v
  <1>10. /\ t \in Relay /\ t.sock = q /\ t.edge = e /\ t.sess = k.sess /\ t.rbuf = k.rbuf /\ t.rx = k.rx
         /\ t.wakers = k.wakers /\ SameBut(k, t)
    <2>1. k \in Relay /\ q \in Seq(Nat) /\ e \in SUBSET {"r", "w"} /\ t = PutSock(k, q, e) BY <1>1, <1>2, <1>6, <1>9
    <2> QED BY <2>1, SetSock
  <1>11. /\ SameDown(k, t) /\ SameSide(k, t) /\ SameLoop(k, t) /\ t.st = k.st /\ (Live(t) <=> Live(k))
         /\ t.est = k.est /\ t.rend = k.rend /\ t.rcl = k.rcl
    BY <1>10 DEF SameBut, SameSide, Live
  <1> DEFINE g2 == Size(v.got)
  <1> DEFINE x2 == Size(t.sock)
  <1>12. g2 = g + 1 /\ x2 = x - 1 BY <1>6, <1>7, <1>10
  <1>13. g2 + x2 = g + x /\ g2 <= app.out + 1 /\ g2 + x2 <= app.out + 1 /\ x2 <= SockCap
    <2>1. /\ g \in Nat /\ x \in Nat /\ app.out \in Nat /\ SockCap \in Nat /\ x <= SockCap
          /\ g + x <= app.out + 1 /\ x # 0 /\ g2 = g + 1 /\ x2 = x - 1
      BY <1>3, <1>5, <1>6, <1>12
    <2> HIDE DEF g, x, g2, x2
    <2> QED BY <2>1
  <1>14. Good(t) BY <1>2, <1>10, <1>11, <1>13 DEF Good, SameDown
  <1>15. Sides(t) BY <1>2, <1>11 DEF Sides, SameDown, SameSide
  <1>16. Early(t, v) BY <1>4, <1>11 DEF Early, SameDown
  <1>17. UpSent(t, app, v)
    <2>1. Run(t.sock, g2) BY <1>6, <1>10, <1>12
    <2> QED BY <1>4, <1>7, <1>11, <1>13, <2>1 DEF UpSent
  <1>18. UpWhole(t, app, v)
    <2> SUFFICES ASSUME ~k.rcl PROVE UpLine(t, app, v) BY <1>11 DEF UpWhole
    <2>1. UpLine(k, app, srv) BY <1>1, <1>2, <1>4 DEF UpWhole
    <2>2. /\ Run(k.sess, g + x) /\ Run(k.rbuf, g + x + Size(k.sess))
          /\ Run(k.rx, g + x + Size(k.sess) + Size(k.rbuf))
          /\ g + x + Size(k.sess) + Size(k.rbuf) + Size(k.rx) = app.out + 1
      BY <2>1 DEF UpLine
    <2> HIDE DEF g, x
    <2>3. /\ Run(t.sess, g2 + x2) /\ Run(t.rbuf, g2 + x2 + Size(t.sess))
          /\ Run(t.rx, g2 + x2 + Size(t.sess) + Size(t.rbuf))
          /\ g2 + x2 + Size(t.sess) + Size(t.rbuf) + Size(t.rx) = app.out + 1
      <3> HIDE DEF g2, x2
      <3> QED BY <1>10, <1>13, <2>2
    <2> QED BY <2>3 DEF UpLine
  <1>19. DownSent(t, app, v) BY <1>2, <1>7, <1>11 DEF Flow, DownSent, SameDown, SameSide
  <1>20. DownWhole(t, app, v) BY <1>2, <1>7, <1>11 DEF Flow, DownWhole, DownLine, Data, SameDown
  <1>21. EndWhole(t, app, v) BY <1>2, <1>7, <1>11 DEF Flow, EndWhole, AllSent, SameDown, SameSide
  <1>22. Shape(pc, t) BY <1>2, <1>9, <1>10, <1>11 DEF Shape, SameDown, SameSide, SameLoop
  <1>23. Between(pc, k', app, v)
    BY <1>8, <1>14, <1>15, <1>16, <1>17, <1>18, <1>19, <1>20, <1>21, <1>22 DEF Between, Valid, Flow, t
  <1> QED BY <1>1, <1>2, <1>7, <1>23 DEF WInv

-----------------------------------------------------------------------------
(* Pipes *)

Sent(n) == [i \in 1 .. n |-> i]

LEMMA SentSeq ==
    ASSUME NEW n \in Nat
    PROVE  Sent(n) \in Seq(Nat) /\ Len(Sent(n)) = n /\ \A i \in 1 .. n : Sent(n)[i] = i
  <1>1. /\ DOMAIN Sent(n) = 1 .. n /\ Sent(n) \in [1 .. n -> Nat]
        /\ \A i \in 1 .. n : Sent(n)[i] = i
    BY DEF Sent
  <1>2. Sent(n) \in Seq(Nat) BY <1>1, IsASeq DEF Sent
  <1>3. Len(Sent(n)) = n BY <1>1, <1>2
  <1> QED BY <1>1, <1>2, <1>3

LEMMA SentNext ==
    ASSUME NEW n \in Nat PROVE Sent(n + 1) = Append(Sent(n), n + 1)
  <1>1. /\ Sent(n) \in Seq(Nat) /\ Len(Sent(n)) = n /\ \A i \in 1 .. n : Sent(n)[i] = i BY SentSeq
  <1>2. /\ Sent(n + 1) \in Seq(Nat) /\ Len(Sent(n + 1)) = n + 1 /\ \A i \in 1 .. n + 1 : Sent(n + 1)[i] = i
    <2>1. n + 1 \in Nat OBVIOUS
    <2> QED BY <2>1, SentSeq
  <1> DEFINE c == Append(Sent(n), n + 1)
  <1>3. c \in Seq(Nat) /\ Len(c) = n + 1 /\ (\A i \in 1 .. n : c[i] = Sent(n)[i]) /\ c[n + 1] = n + 1
    BY <1>1, AppendProperties
  <1> HIDE DEF c
  <1>4. ASSUME NEW i \in 1 .. n + 1 PROVE c[i] = i
    <2>1. CASE i = n + 1 BY <1>3, <2>1
    <2>2. CASE i # n + 1
      <3>1. i \in 1 .. n BY <2>2
      <3> QED BY <1>1, <1>3, <3>1
    <2> QED BY <2>1, <2>2
  <1>5. Sent(n + 1) = c BY <1>2, <1>3, <1>4, SeqEqual
  <1> QED BY <1>5 DEF c

\* What begins with the first unit and follows in order is what was sent so far.
LEMMA RunIsSent ==
    ASSUME NEW q \in Seq(Nat), NEW n \in Nat, Run(q, 1), Size(q) <= n
    PROVE  /\ Len(q) \in Nat /\ Len(q) <= Len(Sent(n)) /\ q = SubSeq(Sent(n), 1, Len(q))
           /\ Len(q) = n => q = Sent(n)
  <1> DEFINE m == Len(q)
  <1> DEFINE f == Sent(n)
  <1>1. m \in Nat /\ m <= n BY LenProperties DEF Size
  <1>2. \A i \in 1 .. m : q[i] = i BY <1>1 DEF Run, Size
  <1>3. f \in Seq(Nat) /\ Len(f) = n /\ \A i \in 1 .. n : f[i] = i BY SentSeq
  <1> DEFINE s == SubSeq(f, 1, m)
  <1> HIDE DEF f
  <1>4. s \in Seq(Nat) /\ Len(s) = m /\ \A i \in 1 .. m : s[i] = i
    <2>0. f \in Seq(Nat) /\ m \in 0 .. Size(f) BY <1>1, <1>3 DEF Size
    <2>1. Take(f, m) \in Seq(Nat) /\ Size(Take(f, m)) = m /\ \A i \in 1 .. m : Take(f, m)[i] = f[i]
      BY <2>0, SplitLemma
    <2>2. \A i \in 1 .. m : f[i] = i BY <1>1, <1>3
    <2> QED BY <2>1, <2>2 DEF Take, Size
  <1> HIDE DEF s
  <1>5. q = s BY <1>2, <1>4, SeqEqual
  <1>6. m = n => q = f BY <1>2, <1>3, SeqEqual
  <1> QED BY <1>1, <1>3, <1>5, <1>6 DEF s, f

\* What the server has received is the request and then what the application sent.
AfterRequest(v) == IF v.got = Nil THEN Nil ELSE Tail(v.got)
LEMMA UpReceived ==
    ASSUME NEW p, NEW s, NEW a, NEW v, Between(p, s, a, v)
    PROVE  /\ a.out \in Nat /\ Size(v.got) \in Nat
           /\ Len(AfterRequest(v)) <= Len(Sent(a.out))
           /\ AfterRequest(v) = SubSeq(Sent(a.out), 1, Len(AfterRequest(v)))
           /\ Len(AfterRequest(v)) = (IF Size(v.got) = 0 THEN 0 ELSE Size(v.got) - 1)
  <1> DEFINE q == v.got
  <1> DEFINE r == AfterRequest(v)
  <1>1. q \in Seq(Nat) /\ Size(q) \in Nat /\ a.out \in Nat BY PeerFields DEF Between, Valid
  <1>2. Run(q, 0) /\ Size(q) <= a.out + 1 BY DEF Between, Valid, Flow, UpSent
  <1>3. r = IF q = Nil THEN Nil ELSE Tail(q) BY DEF AfterRequest
  <1>4. Nil \in Seq(Nat) /\ Size(Nil) = 0 /\ \A n : Run(Nil, n) BY EmptySeqNat
  <1> HIDE DEF q, r
  <1>5. /\ r \in Seq(Nat) /\ Run(r, 1) /\ Size(r) <= a.out
        /\ Size(r) = (IF Size(q) = 0 THEN 0 ELSE Size(q) - 1)
    <2>1. CASE q = Nil BY <1>1, <1>3, <1>4, <2>1
    <2>2. CASE q # Nil
      <3> DEFINE z == 0
      <3>1. z \in Nat /\ Run(q, z) BY <1>2
      <3>2. z + 1 = 1 OBVIOUS
      <3> HIDE DEF z
      <3>3. Size(q) \in Nat \ {0} /\ Tail(q) \in Seq(Nat) /\ Size(Tail(q)) = Size(q) - 1 /\ Run(Tail(q), z + 1)
        BY <1>1, <2>2, <3>1, RunHead
      <3>4. r = Tail(q) BY <1>3, <2>2
      <3>5. Size(q) - 1 <= a.out BY <1>1, <1>2
      <3> QED BY <3>2, <3>3, <3>4, <3>5
    <2> QED BY <2>1, <2>2
  <1>6. Len(r) <= Len(Sent(a.out)) /\ r = SubSeq(Sent(a.out), 1, Len(r))
    BY <1>1, <1>5, RunIsSent
  <1>7. Len(r) = (IF Size(q) = 0 THEN 0 ELSE Size(q) - 1) BY <1>5 DEF Size
  <1> QED BY <1>1, <1>6, <1>7 DEF q, r

\* What the application has received is what the server sent.
LEMMA DownReceived ==
    ASSUME NEW p, NEW s, NEW a, NEW v, Between(p, s, a, v)
    PROVE  /\ v.out \in Nat /\ Size(a.got) \in Nat /\ Len(a.got) <= Len(Sent(v.out))
           /\ a.got = SubSeq(Sent(v.out), 1, Len(a.got))
           /\ Size(a.got) = v.out => a.got = Sent(v.out)
  <1>1. a.got \in Seq(Nat) /\ Size(a.got) \in Nat /\ v.out \in Nat BY PeerFields DEF Between, Valid
  <1>2. Good(s) /\ Run(a.got, 1) /\ Size(a.got) + Size(s.tx) <= v.out
    BY DEF Between, Valid, Flow, DownSent
  <1>3. Size(s.tx) \in Nat BY <1>2, Lengths
  <1>4. Size(a.got) <= v.out BY <1>1, <1>2, <1>3
  <1>5. /\ Len(a.got) <= Len(Sent(v.out)) /\ a.got = SubSeq(Sent(v.out), 1, Len(a.got))
        /\ Len(a.got) = v.out => a.got = Sent(v.out)
    BY <1>1, <1>2, <1>4, RunIsSent
  <1> QED BY <1>1, <1>5 DEF Size

\* A step that neither writes nor closes delivers, at most.
Cut(s) == s.rcl /\ s.sock = Nil
LEMMA UpQuiet ==
    ASSUME WInv, WInv', app'.out = app.out, app'.fin = app.fin,
           ~Cut(k) => Size(srv.got) <= Size(srv'.got),
           Cut(k) => srv'.got = srv.got /\ Cut(k')
    PROVE  [Up!Next]_(Up!vars)
  <1>0. /\ Between(pc, k, app, srv) /\ Between(pc', k', app', srv')
        /\ UpGot = AfterRequest(srv) /\ UpGot' = AfterRequest(srv')
    BY DEF WInv, UpGot, AfterRequest, Nil
  <1>1. CASE ~Cut(k)
    <2> DEFINE sent == Sent(app.out)
    <2> DEFINE p == AfterRequest(srv)
    <2> DEFINE q == AfterRequest(srv')
    <2>1. Size(srv.got) \in Nat /\ Len(p) = (IF Size(srv.got) = 0 THEN 0 ELSE Size(srv.got) - 1)
      BY <1>0, UpReceived
    <2>2. /\ Size(srv'.got) \in Nat /\ Len(q) <= Len(sent) /\ q = SubSeq(sent, 1, Len(q))
          /\ Len(q) = (IF Size(srv'.got) = 0 THEN 0 ELSE Size(srv'.got) - 1)
      BY <1>0, UpReceived
    <2>3. app.out \in Nat /\ Len(sent) = app.out
      <3>1. app.out \in Nat BY <1>0, UpReceived
      <3> QED BY <3>1, SentSeq
    <2> HIDE DEF p, q, sent
    <2>4. Len(q) \in Len(p) .. Len(sent)
      <3>1. Size(srv.got) <= Size(srv'.got) BY <1>1
      <3> QED BY <2>1, <2>2, <2>3, <3>1
    <2>5. \E n \in Len(p) .. Len(sent) : q = SubSeq(sent, 1, n) BY <2>2, <2>4
    <2>6. Up!Deliver
      BY <1>0, <1>1, <2>5 DEF Up!Deliver, Cut, p, q, sent, Sent, Nil
    <2> QED BY <2>6 DEF Up!Next
  <1>2. CASE Cut(k)
    <2>1. Cut(k') /\ UpGot' = UpGot BY <1>0, <1>2 DEF AfterRequest
    <2> QED BY <1>2, <2>1 DEF Up!vars, Cut, Nil
  <1> QED BY <1>1, <1>2

LEMMA DownQuiet ==
    ASSUME WInv, WInv', srv'.out = srv.out, srv'.fin = srv.fin,
           app.end = "open" => Size(app.got) <= Size(app'.got),
           app.end = "open" /\ app'.end = "eof" => srv.fin /\ Size(app'.got) = srv.out,
           app.end # "open" => app'.got = app.got /\ app'.end = app.end
    PROVE  [Down!Next]_(Down!vars)
  <1>0. Between(pc, k, app, srv) /\ Between(pc', k', app', srv') BY DEF WInv
  <1>1. CASE app.end = "open"
    <2> DEFINE sent == Sent(srv.out)
    <2> DEFINE p == app.got
    <2> DEFINE q == app'.got
    <2>1. Size(p) \in Nat /\ srv.out \in Nat BY <1>0, DownReceived
    <2>2. /\ Size(q) \in Nat /\ Len(q) <= Len(sent) /\ q = SubSeq(sent, 1, Len(q))
          /\ Size(q) = srv.out => q = sent
      BY <1>0, DownReceived
    <2>3. Len(sent) = srv.out BY <2>1, SentSeq
    <2>4. Size(p) <= Size(q) BY <1>1
    <2>5. app'.end \in {"open", "eof", "cut"} BY <1>0, PeerFields DEF Between, Valid
    <2> HIDE DEF p, q, sent
    <2>6. Len(q) \in Len(p) .. Len(sent) BY <2>1, <2>2, <2>3, <2>4 DEF Size
    <2>7. \E n \in Len(p) .. Len(sent) : q = SubSeq(sent, 1, n) BY <2>2, <2>6
    <2>8. app'.end = "eof" => srv.fin /\ q = sent BY <1>1, <2>2 DEF q
    <2>9. Down!Deliver
      BY <1>1, <2>5, <2>7, <2>8 DEF Down!Deliver, p, q, sent, Sent
    <2> QED BY <2>9 DEF Down!Next
  <1>2. CASE app.end # "open" BY <1>2 DEF Down!vars
  <1> QED BY <1>1, <1>2

\* One direction while the other moves.
LEMMA UpStill ==
    ASSUME WInv, WInv', app'.out = app.out, app'.fin = app.fin, srv'.got = srv.got,
           Cut(k) => Cut(k')
    PROVE  [Up!Next]_(Up!vars)
  <1>1. Between(pc, k, app, srv) BY DEF WInv
  <1>2. Size(srv.got) \in Nat BY <1>1, UpReceived
  <1>3. Size(srv.got) <= Size(srv'.got) BY <1>2
  <1> QED BY <1>3, UpQuiet

LEMMA DownStill ==
    ASSUME WInv, WInv', srv'.out = srv.out, srv'.fin = srv.fin, app'.got = app.got,
           app'.end = app.end \/ (app.end = "open" /\ app'.end = "cut")
    PROVE  [Down!Next]_(Down!vars)
  <1>1. Between(pc, k, app, srv) BY DEF WInv
  <1>2. Size(app.got) \in Nat BY <1>1, DownReceived
  <1>3. Size(app.got) <= Size(app'.got) BY <1>2
  <1>4. ~(app.end = "open" /\ app'.end = "eof") OBVIOUS
  <1>5. app.end # "open" => app'.got = app.got /\ app'.end = app.end OBVIOUS
  <1> QED BY <1>3, <1>4, <1>5, DownQuiet

\* What a step means for the two pipes.
Piped == WInv' /\ [Up!Next]_(Up!vars) /\ [Down!Next]_(Down!vars)

LEMMA TurnedPiped == WInv /\ Turned => Piped
  <1> SUFFICES ASSUME WInv, Turned PROVE Piped OBVIOUS
  <1>1. WInv' /\ app' = app /\ srv' = srv /\ (Cut(k) => Cut(k')) BY DEF Turned, Cut
  <1>2. [Up!Next]_(Up!vars) BY <1>1, UpStill
  <1>3. [Down!Next]_(Down!vars) BY <1>1, DownStill
  <1> QED BY <1>1, <1>2, <1>3 DEF Piped

LEMMA PeersOf == WInv => /\ app \in [out: Nat, fin: {"open", "fin", "rst"}, got: Seq(Nat), end: {"open", "eof", "cut"}]
                         /\ srv \in [out: Nat, fin: BOOLEAN, got: Seq(Nat)]
  BY DEF WInv, Between, Valid, Peers

LEMMA SameCut == ASSUME NEW s, NEW t, SameUp(s, t) PROVE Cut(t) = Cut(s)
  BY DEF SameUp, Cut

LEMMA LoopPiped == WInv /\ (LoopStep \/ CheckTimeout \/ Ages) => Piped
  BY TurnedPiped, LocalNewStep, LocalEventsStep, LocalListeningStep, LocalNoneStep,
     RemoteEventsStep, RemoteNoneStep, CheckTimeoutStep, AgesStep DEF LoopStep

LEMMA NetPiped == WInv /\ (Syn \/ Ack \/ TimeWaitEnds \/ TcpConnects \/ HelloArrives) => Piped
  <1> SUFFICES ASSUME WInv, Syn \/ Ack \/ TimeWaitEnds \/ TcpConnects \/ HelloArrives PROVE Piped OBVIOUS
  <1>1. app' = app /\ srv' = srv
    BY DEF Syn, Ack, TimeWaitEnds, TcpConnects, HelloArrives, Net, Remote
  <1>2. WInv' /\ SameUp(k, k') BY SynStep, AckStep, TimeWaitEndsStep, TcpConnectsStep, HelloArrivesStep
  <1>3. Cut(k) => Cut(k') BY <1>2, SameCut
  <1>4. [Up!Next]_(Up!vars) BY <1>1, <1>2, <1>3, UpStill
  <1>5. [Down!Next]_(Down!vars) BY <1>1, <1>2, DownStill
  <1> QED BY <1>2, <1>4, <1>5 DEF Piped

LEMMA EgressPiped == WInv /\ (Egress \/ EgressFin) => Piped
  <1> SUFFICES ASSUME WInv, Egress \/ EgressFin PROVE Piped OBVIOUS
  <1>0. /\ srv' = srv /\ app'.out = app.out /\ app'.fin = app.fin
        /\ EgressFin => app'.got = app.got /\ app.end = "open"
        /\ Egress => app'.end = app.end
    BY PeersOf DEF Egress, EgressFin, Net
  <1>1. WInv' /\ SameUp(k, k') BY EgressStep, EgressFinStep
  <1>2. Cut(k) => Cut(k') BY <1>1, SameCut
  <1>3. [Up!Next]_(Up!vars) BY <1>0, <1>1, <1>2, UpStill
  <1>4. Size(app.got) \in Nat
    <2>1. Between(pc, k, app, srv) BY DEF WInv
    <2> QED BY <2>1, DownReceived
  <1>5. [Down!Next]_(Down!vars)
    <2>1. CASE Egress
      <3>1. app.end = "open" /\ Size(app'.got) = Size(app.got) + 1 BY <2>1, EgressStep
      <3>2. Size(app.got) <= Size(app'.got) BY <1>4, <3>1
      <3>3. ~(app'.end = "eof") BY <1>0, <2>1, <3>1
      <3> QED BY <1>0, <1>1, <3>1, <3>2, <3>3, DownQuiet
    <2>2. CASE EgressFin
      <3>1. app'.got = app.got /\ app.end = "open" BY <1>0, <2>2
      <3>2. Size(app.got) <= Size(app'.got) BY <1>4, <3>1
      <3>3. app'.end = "eof" => srv.fin /\ Size(app'.got) = srv.out BY <2>2, <3>1, EgressFinStep
      <3> QED BY <1>0, <1>1, <3>1, <3>2, <3>3, DownQuiet
    <2> QED BY <2>1, <2>2
  <1> QED BY <1>1, <1>3, <1>5 DEF Piped

LEMMA AppSendsPiped == WInv /\ AppSends => Piped
  <1> SUFFICES ASSUME WInv, AppSends PROVE Piped OBVIOUS
  <1>1. WInv' /\ k'.sock = k.sock /\ k'.rcl = k.rcl BY AppSendsStep
  <1>2. /\ app.fin = "open" /\ app'.fin = app.fin /\ app'.out = app.out + 1 /\ app.out < NUp
        /\ app'.got = app.got /\ app'.end = app.end /\ srv' = srv /\ app.out \in Nat
    BY PeersOf DEF AppSends, Net
  <1>3. Sent(app.out + 1) = Append(Sent(app.out), app.out + 1) /\ app.out + 1 \in 1 .. NUp
    <2> DEFINE n == app.out
    <2>1. n \in Nat /\ n < NUp /\ NUp \in Nat BY <1>2, TcpAssumption
    <2> HIDE DEF n
    <2>2. n + 1 \in 1 .. NUp BY <2>1
    <2>3. Sent(n + 1) = Append(Sent(n), n + 1) BY <2>1, SentNext
    <2> QED BY <2>2, <2>3 DEF n
  <1>4. \E i \in 1 .. NUp : Sent(app'.out) = Append(Sent(app.out), i) BY <1>2, <1>3
  <1>5. UpGot' = UpGot BY <1>2 DEF UpGot
  <1>6. Up!Write BY <1>1, <1>2, <1>4, <1>5 DEF Up!Write, Sent
  <1>7. [Down!Next]_(Down!vars) BY <1>1, <1>2, DownStill
  <1> QED BY <1>1, <1>6, <1>7 DEF Piped, Up!Next

LEMMA AppEndsPiped == WInv /\ (AppCloses \/ AppResets) => Piped
  <1> SUFFICES ASSUME WInv, AppCloses \/ AppResets PROVE Piped OBVIOUS
  <1>1. WInv' /\ SameUp(k, k') BY AppClosesStep, AppResetsStep
  <1>2. /\ app'.fin \in {"fin", "rst"} /\ app'.out = app.out /\ app'.got = app.got /\ srv' = srv
        /\ app'.end = app.end \/ (app.end = "open" /\ app'.end = "cut")
    BY PeersOf DEF AppCloses, AppResets, Net
  <1>3. UpGot' = UpGot BY <1>2 DEF UpGot
  <1>4. k'.rcl = k.rcl /\ k'.sock = k.sock BY <1>1 DEF SameUp
  <1>5. Up!Close BY <1>2, <1>3, <1>4 DEF Up!Close
  <1>6. [Down!Next]_(Down!vars) BY <1>1, <1>2, DownStill
  <1> QED BY <1>1, <1>5, <1>6 DEF Piped, Up!Next

LEMMA ServerGetsPiped == WInv /\ ServerGets => Piped
  <1> SUFFICES ASSUME WInv, ServerGets PROVE Piped OBVIOUS
  <1>1. WInv' /\ Size(srv'.got) = Size(srv.got) + 1 BY ServerGetsStep
  <1>2. /\ app' = app /\ srv'.out = srv.out /\ srv'.fin = srv.fin /\ ~Cut(k)
    BY PeersOf DEF ServerGets, Cut, Nil
  <1>3. Size(srv.got) \in Nat
    <2>1. Between(pc, k, app, srv) BY DEF WInv
    <2> QED BY <2>1, UpReceived
  <1>4. Size(srv.got) <= Size(srv'.got) BY <1>1, <1>3
  <1>5. [Up!Next]_(Up!vars) BY <1>1, <1>2, <1>4, UpQuiet
  <1>6. [Down!Next]_(Down!vars) BY <1>1, <1>2, DownStill
  <1> QED BY <1>1, <1>5, <1>6 DEF Piped

LEMMA ServerSendsPiped == WInv /\ ServerSends => Piped
  <1> SUFFICES ASSUME WInv, ServerSends PROVE Piped OBVIOUS
  <1>1. WInv' /\ SameUp(k, k') BY ServerSendsStep
  <1>2. /\ srv'.out = srv.out + 1 /\ srv.out < NDown /\ srv'.fin = srv.fin /\ srv'.got = srv.got
        /\ app' = app /\ srv.out \in Nat /\ k.rend = "open"
    BY PeersOf DEF ServerSends, Remote
  <1>3. Cut(k) => Cut(k') BY <1>1, SameCut
  <1>4. [Up!Next]_(Up!vars) BY <1>1, <1>2, <1>3, UpStill
  <1>5. Sent(srv.out + 1) = Append(Sent(srv.out), srv.out + 1) /\ srv.out + 1 \in 1 .. NDown
    <2> DEFINE n == srv.out
    <2>1. n \in Nat /\ n < NDown /\ NDown \in Nat BY <1>2, TcpAssumption
    <2> HIDE DEF n
    <2>2. n + 1 \in 1 .. NDown BY <2>1
    <2>3. Sent(n + 1) = Append(Sent(n), n + 1) BY <2>1, SentNext
    <2> QED BY <2>2, <2>3 DEF n
  <1>6. \E i \in 1 .. NDown : Sent(srv'.out) = Append(Sent(srv.out), i) BY <1>2, <1>5
  <1>7. ~srv.fin BY <1>2 DEF WInv, Between, Valid, Flow, DownSent
  <1>8. Down!Write BY <1>2, <1>6, <1>7 DEF Down!Write, Sent
  <1> QED BY <1>1, <1>4, <1>8 DEF Piped, Down!Next

LEMMA ServerEndsPiped == WInv /\ (ServerCloses \/ ServerResets) => Piped
  <1> SUFFICES ASSUME WInv, ServerCloses \/ ServerResets PROVE Piped OBVIOUS
  <1>1. WInv' /\ ~Cut(k) BY ServerClosesStep, ServerResetsStep DEF ServerCloses, Remote, Cut
  <1>2. /\ srv'.fin = TRUE /\ srv'.out = srv.out /\ srv'.got = srv.got /\ app' = app
    BY PeersOf DEF ServerCloses, ServerResets, Remote
  <1>3. [Up!Next]_(Up!vars) BY <1>1, <1>2, UpStill
  <1>4. Down!Close BY <1>2 DEF Down!Close
  <1> QED BY <1>1, <1>3, <1>4 DEF Piped, Down!Next

LEMMA NextPiped == WInv /\ [Next]_vars => Piped
  <1> SUFFICES ASSUME WInv, [Next]_vars PROVE Piped OBVIOUS
  <1>1. CASE Next
    BY <1>1, LoopPiped, NetPiped, EgressPiped, AppSendsPiped, AppEndsPiped, ServerGetsPiped,
       ServerSendsPiped, ServerEndsPiped DEF Next, NetStep
  <1>2. CASE UNCHANGED vars
    <2>1. pc' = pc /\ k' = k /\ app' = app /\ srv' = srv BY <1>2 DEF vars
    <2>2. WInv' BY <2>1 DEF WInv
    <2> QED BY <2>1, <2>2, TurnedPiped DEF Turned
  <1> QED BY <1>1, <1>2

-----------------------------------------------------------------------------
(* The theorems *)

LEMMA InitInv == Init => WInv
  <1> SUFFICES ASSUME Init PROVE WInv OBVIOUS
  <1>1. /\ pc = "net" /\ k \in Relay /\ app.out = 0 /\ app.end = "open" /\ app.got = Nil
        /\ srv.out = 0 /\ srv.fin = FALSE /\ srv.got = Nil /\ Peers(app, srv)
    BY DEF Init, Relay, Peers, Nil
  <1>2. /\ k.st = "none" /\ k.rx = Nil /\ k.tx = Nil /\ k.wakers = {} /\ k.ev = {} /\ ~k.on
        /\ k.lbuf = Nil /\ k.rbuf = Nil /\ ~k.lcl /\ ~k.rcl /\ ~k.est /\ ~k.hs
        /\ k.sess = Nil /\ k.sock = Nil /\ k.in = Nil /\ k.rend = "open" /\ k.edge = {}
        /\ ~k.removed /\ k.cause = "none"
    BY DEF Init, Nil
  <1>3. Size(Nil) = 0 /\ \A n : Run(Nil, n) BY EmptySeqNat
  <1>4. Good(k)
    <2>1. 0 <= 1 /\ 0 <= SessLimit /\ 0 <= SockCap /\ 0 <= RxCap /\ 0 <= TxCap BY TcpAssumption
    <2> QED BY <1>1, <1>2, <1>3, <2>1 DEF Good
  <1>5. Sides(k) /\ Early(k, srv) /\ Shape("net", k) BY <1>1, <1>2 DEF Sides, Early, Shape
  <1>6. UpSent(k, app, srv) /\ UpWhole(k, app, srv)
    <2>1. 0 <= 0 + 1 /\ 0 + 0 <= 0 + 1 OBVIOUS
    <2> QED BY <1>1, <1>2, <1>3, <2>1 DEF UpSent, UpWhole
  <1>7. DownSent(k, app, srv) /\ DownWhole(k, app, srv) /\ EndWhole(k, app, srv)
    <2>1. 0 + 0 <= 0 /\ 0 <= NDown BY TcpAssumption
    <2> QED BY <1>1, <1>2, <1>3, <2>1 DEF DownSent, DownWhole, EndWhole, Live
  <1> QED BY <1>1, <1>4, <1>5, <1>6, <1>7 DEF WInv, Between, Valid, Flow

LEMMA InitPiped == Init => Up!Init /\ Down!Init
  <1> SUFFICES ASSUME Init PROVE Up!Init /\ Down!Init OBVIOUS
  <1>1. /\ app.out = 0 /\ app.fin = "open" /\ app.end = "open" /\ app.got = <<>> /\ ~k.rcl
        /\ srv.out = 0 /\ srv.fin = FALSE /\ srv.got = <<>>
    BY DEF Init
  <1>2. [n \in 1 .. 0 |-> n] = <<>>
    <2>1. Sent(0) \in Seq(Nat) /\ Len(Sent(0)) = 0 BY SentSeq
    <2> QED BY <2>1, EmptySeq DEF Sent
  <1>3. Up!Init BY <1>1, <1>2 DEF Up!Init, UpGot
  <1>4. Down!Init BY <1>1, <1>2 DEF Down!Init
  <1> QED BY <1>3, <1>4

\* The part of the composed specification that is about TCP.
LEMMA TcpPart == (MCInit => Init) /\ ([MCNext]_all => [Next]_vars)
  BY DEF MCInit, MCNext, TcpTurn, all

LEMMA HandleLemma == WInv => NoStaleHandle
  BY DEF WInv, Between, Valid, Good, Shape, NoStaleHandle, TypeOK, Size

\* A connection and its events are gone no later than its socket, and no buffer
\* grows beyond its limit, whatever the limits are, whenever the peers send, close
\* and reset, and whatever the timeouts fall between: the lookup of a handle in the
\* loop does not fail.
THEOREM TcpNoStaleHandle == MCSpec => []NoStaleHandle
<1>1. MCInit => WInv BY TcpPart, InitInv
<1>2. WInv /\ [MCNext]_all => WInv' BY TcpPart, NextPiped DEF Piped
<1> QED BY <1>1, <1>2, HandleLemma, PTL DEF MCSpec

\* A connection that the wintun proxy relays is a pipe in each direction, however
\* much is sent and however small the buffers are: what reaches the server, after
\* the request, and what reaches the application is what the other has sent, in
\* order and once, nothing comes after the end, and the application that sees the
\* server's end of stream has everything.
THEOREM TcpRelayIsPipes == MCSpec => RelayIsPipes
<1>1. MCInit => WInv /\ Up!Init /\ Down!Init BY TcpPart, InitInv, InitPiped
<1>2. WInv /\ [MCNext]_all => WInv' /\ [Up!Next]_(Up!vars) /\ [Down!Next]_(Down!vars)
  BY TcpPart, NextPiped DEF Piped
<1> QED BY <1>1, <1>2, PTL DEF MCSpec, RelayIsPipes, Up!Spec, Down!Spec

-----------------------------------------------------------------------------
(* TCP: whoever can go on is woken *)

\* P is what is still to be handled: events and edges.  An open connection owes
\* a blocked unit an edge or a full kernel buffer, and what the socket holds, or
\* its end, an event or an edge that makes the connection read it.  One that is not
\* established owes its request an edge, or the connect that will raise it.
Open(s) == ~s.lcl /\ ~s.rcl
UpDue(s, P) ==
    /\ s.rbuf # Nil => s.sock # Nil \/ "w" \in P
    /\ s.est /\ (s.rx # Nil \/ s.st # "est") => "rx" \in P \/ "w" \in P \/ s.rbuf # Nil
    /\ ~s.est => (s.cold /\ s.rend = "open") \/ "w" \in P
\* It owes what has arrived an edge, unless a unit is blocked already; that one a
\* full socket or an event.  Before the request nothing arrives but the handshake.
DownDue(s, P) ==
    /\ s.in # Nil => "r" \in P \/ s.lbuf # Nil
    /\ s.lbuf # Nil => s.tx # Nil \/ "tx" \in P \/ "r" \in P
    /\ ~s.est => s.lbuf = Nil /\ (s.hs => s.in = Nil)
\* A socket has received nothing before the last step of its handshake, and the
\* request is not written to a connection that stays in that state.
Fresh(s) ==
    /\ s.st \in {"none", "synrcvd"} => s.rx = Nil
    /\ s.est => s.st # "synrcvd"
Due(s, P) == Fresh(s) /\ (Open(s) => UpDue(s, P) /\ DownDue(s, P))

\* The wakers that the connection waits for are registered, or have fired.
Registered(s) ==
    /\ s.rbuf = Nil => "rx" \in s.wakers \cup s.ev
    /\ s.lbuf # Nil => "tx" \in s.wakers \cup s.ev
Awake(s) == Fresh(s) /\ (s.on => Due(s, s.ev \cup s.edge) /\ (Open(s) => Registered(s)))

LEMMA MoreDue ==
    ASSUME NEW s, NEW P, NEW Q, Due(s, P), P \subseteq Q PROVE Due(s, Q)
  BY DEF Due, UpDue, DownDue

\* t comes from s by a method that leaves the way to the server alone.
Kin(s, t) == t.est = s.est /\ t.rx = s.rx /\ (t.st = s.st \/ t.st \notin {"none", "synrcvd"})
LEMMA KinFresh == ASSUME NEW s, NEW t, Fresh(s), Kin(s, t) PROVE Fresh(t)
  BY DEF Fresh, Kin
LEMMA KinTrans == ASSUME NEW s, NEW t, NEW u, Kin(s, t), Kin(t, u) PROVE Kin(s, u)
  BY DEF Kin

\* Closing is for good.
LEMMA CloseLocalKin ==
    ASSUME NEW s \in Relay, s.st # "none", NEW c \in {"eof", "cut"}, NEW t, t = CloseLocal(s, c)
    PROVE  Kin(s, t) /\ ~Open(t)
  <1>1. CASE s.lcl
    <2>1. t = s BY <1>1 DEF CloseLocal
    <2> QED BY <1>1, <2>1 DEF Kin, Open
  <1>2. CASE ~s.lcl
    <2>1. t.st = Closing(s.st) /\ t.lcl = TRUE /\ SameUp(s, t) BY <1>2, CloseLocalFields
    <2>2. Closing(s.st) \notin {"none", "synrcvd"}
      <3>1. s.st \in States BY DEF Relay, States
      <3> QED BY <3>1 DEF Closing, States
    <2> QED BY <2>1, <2>2 DEF Kin, Open, SameUp
  <1> QED BY <1>1, <1>2

LEMMA CloseRemoteKin ==
    ASSUME NEW s \in Relay, NEW t, t = CloseRemote(s)
    PROVE  Kin(s, t) /\ ~Open(t)
  <1>1. CASE s.rcl
    <2>1. t = s BY <1>1 DEF CloseRemote
    <2> QED BY <1>1, <2>1 DEF Kin, Open
  <1>2. CASE ~s.rcl
    <2>1. t.rcl = TRUE /\ t.rx = s.rx /\ t.est = s.est /\ SameSide(s, t) BY <1>2, CloseRemoteFields
    <2> QED BY <2>1 DEF Kin, Open, SameSide
  <1> QED BY <1>1, <1>2

\* What the kernel's buffer holds stays there.
LEMMA FlushRemoteDue ==
    ASSUME NEW s, Good(s), NEW t, t = FlushRemote(s)
    PROVE  /\ Kin(s, t)
           /\ Open(t) => /\ Open(s) /\ SameDown(s, t) /\ t.rbuf = s.rbuf /\ t.st = s.st
                         /\ t.edge = s.edge /\ (s.sock # Nil => t.sock # Nil)
                         /\ t.cold = s.cold /\ t.rend = s.rend
  <1>0. s \in Relay /\ s.sock \in Seq(Nat) /\ s.sess \in Seq(Nat) BY Fields
  <1>1. CASE s.rend = "rst"
    <2>1. t = CloseRemote(s) BY <1>1 DEF FlushRemote
    <2> QED BY <1>0, <2>1, CloseRemoteKin
  <1>2. CASE s.rend # "rst"
    <2>1. t = Flushed(s) /\ Size(s.sock) <= SockCap BY <1>2 DEF FlushRemote, Good
    <2>2. PICK m \in 0 .. Size(s.sess) : HandedOn(s, t, m) BY <1>0, <2>1, FlushedFields
    <2>3. /\ t.sock = s.sock \o Take(s.sess, m) /\ t.edge = s.edge /\ t.rbuf = s.rbuf /\ t.rx = s.rx
          /\ SameBut(s, t)
      BY <2>2 DEF HandedOn
    <2>4. s.sock # Nil => t.sock # Nil
      <3>1. /\ s.sock \o Take(s.sess, m) \in Seq(Nat)
            /\ Size(s.sock \o Take(s.sess, m)) = Size(s.sock) + m
        BY <1>0, <2>2, Passed
      <3> DEFINE x == Size(s.sock)
      <3>2. Size(s.sess) \in Nat /\ x \in Nat /\ m \in Nat BY <1>0, <2>2, LenNat
      <3>3. s.sock # Nil => x # 0 BY <1>0, LenNat
      <3>4. t.sock = Nil => Size(t.sock) = 0 BY EmptySeqNat
      <3>5. Size(t.sock) = x + m BY <2>3, <3>1
      <3> HIDE DEF x
      <3> QED BY <3>2, <3>3, <3>4, <3>5
    <2> QED BY <2>3, <2>4 DEF Kin, Open, SameBut, SameSide
  <1> QED BY <1>1, <1>2

\* When copy_stream is blocked, the kernel's buffer is full.
LEMMA Blocked ==
    ASSUME NEW x \in Nat, NEW y \in Nat, NEW z \in Nat, x <= SockCap, y <= SessLimit,
           NEW n, n = Least(z, (SessLimit - y) + (SockCap - x)), n < z, NEW m \in 0 .. y + n,
           x + m <= SockCap, m = y + n \/ x + m = SockCap
    PROVE  x + m = SockCap /\ SockCap # 0
  <1>0. SessLimit \in Nat \ {0} /\ SockCap \in Nat \ {0} BY TcpAssumption
  <1>1. n = (SessLimit - y) + (SockCap - x) BY <1>0 DEF Least
  <1>2. n \in Nat /\ m \in Nat
    <2>1. n \in Nat BY <1>0, <1>1
    <2>2. y + n \in Nat BY <2>1
    <2> QED BY <2>1, <2>2
  <1>3. CASE m = y + n
    <2>1. x + m = SessLimit + SockCap BY <1>0, <1>1, <1>2, <1>3
    <2>2. x + m <= SockCap OBVIOUS
    <2> QED BY <1>0, <2>1, <2>2
  <1> QED BY <1>0, <1>3

\* copy_stream leaves nothing unread unless a unit is blocked behind a full buffer
\* of the kernel; a socket that can receive no more is closed.
LEMMA CopyUpDue ==
    ASSUME NEW s, NEW a, NEW v, InHandler(s, a, v), s.est, NEW t, t = CopyUp(s),
           s.st = "synrcvd" => s.rbuf = Nil /\ s.rx = Nil
    PROVE  /\ t.est = s.est /\ t.st \notin {"none", "synrcvd"}
           /\ Open(t) => /\ Open(s) /\ SameDown(s, t) /\ t.edge = s.edge
                         /\ t.rbuf # Nil => t.sock # Nil
                         /\ t.rbuf = Nil => t.rx = Nil /\ t.st = "est"
  <1> DEFINE h == s.rbuf \o s.rx
  <1> DEFINE n == Copied(s, h)
  <1> DEFINE u == PutSess(s, s.sess \o Take(h, n))
  <1> DEFINE f == Flushed(u)
  <1> DEFINE hand == <<h[n + 1]>>
  <1> DEFINE b == PutRead(f, hand, Rest(h, n + 1))
  <1> DEFINE c == PutRbuf(b, Nil)
  <1> DEFINE d == PutRead(f, Nil, Nil)
  <1>1. t = IF n < Size(h)
            THEN IF s.hs /\ ~s.rcl /\ s.rend # "rst" THEN b ELSE CloseRemote(c)
            ELSE IF d.st \in {"est", "finwait"} THEN d ELSE CloseLocal(d, "cut")
    BY DEF CopyUp, PutRead, PutRbuf, Copied, FitCount, PutSess, Size, Nil
  <1>0. /\ Good(s) /\ s \in Relay /\ Sides(s) /\ s.st \notin {"none", "gone"}
        /\ s.sess \in Seq(Nat) /\ s.sock \in Seq(Nat) /\ s.rbuf \in Seq(Nat) /\ s.rx \in Seq(Nat)
        /\ s.hs \in BOOLEAN /\ s.rcl \in BOOLEAN /\ s.st \in States
    BY Fields DEF InHandler, Handling
  <1>b. h = s.rbuf \o s.rx /\ n = Copied(s, h) /\ u = PutSess(s, s.sess \o Take(h, n)) /\ f = Flushed(u)
    OBVIOUS
  <1> HIDE DEF h, n, u, f
  <1>2. /\ h \in Seq(Nat) /\ Size(h) \in Nat /\ Size(h) = Size(s.rbuf) + Size(s.rx) /\ n \in 0 .. Size(h)
        /\ f \in Relay /\ SameBut(s, f)
    <2>1. UpTaken(s, a, v, h, n, f) BY <1>b, CopyUpFields
    <2> QED BY <2>1 DEF UpTaken
  <1>3. Nil \in Seq(Nat) /\ Size(Nil) = 0 BY EmptySeqNat
  <1> DEFINE q == s.sess \o Take(h, n)
  <1>4. q \in Seq(Nat) /\ Size(q) = Size(s.sess) + n
    <2>1. s.sess \in Seq(Nat) /\ h \in Seq(Nat) /\ n \in 0 .. Size(h) BY <1>0, <1>2
    <2> QED BY ZenonT(60), <2>1, Passed
  <1>5. u = PutSess(s, q) BY <1>b
  <1> HIDE DEF q
  <1>6. u \in Relay /\ u.edge = s.edge /\ u.sess = q /\ u.sock = s.sock /\ SameBut(s, u)
    <2>1. s \in Relay /\ q \in Seq(Nat) BY <1>0, <1>4
    <2> QED BY <1>5, <2>1, SetSess
  <1>7. PICK m \in 0 .. Size(u.sess) : HandedOn(u, f, m)
    <2>1. Size(u.sock) <= SockCap BY <1>0, <1>6 DEF Good
    <2> QED BY <1>b, <1>6, <2>1, FlushedFields
  <1>8. /\ f.edge = s.edge /\ f.sock = s.sock \o Take(q, m) /\ Size(s.sock) + m <= SockCap
        /\ s.hs /\ ~s.rcl => m = Size(q) \/ Size(s.sock) + m = SockCap
    BY <1>6, <1>7 DEF HandedOn, SameBut, SameDown
  <1>9. f.st = s.st /\ f.est = s.est BY <1>2 DEF SameBut, SameSide
  <1>10. CASE n < Size(h)
    <2>0. s.st # "synrcvd"
      <3>1. Size(s.rbuf) = 0 /\ Size(s.rx) = 0 => Size(h) = 0 BY <1>2
      <3> QED BY <1>2, <1>3, <1>10, <3>1
    <2>1. hand \in Seq(Nat) /\ Size(hand) = 1 /\ Rest(h, n + 1) \in Seq(Nat) BY <1>2, <1>10, RunHand
    <2> DEFINE p == Rest(h, n + 1)
    <2> HIDE DEF hand, p
    <2>2. /\ b \in Relay /\ b.edge = f.edge /\ b.rbuf = hand /\ b.sock = f.sock /\ SameBut(f, b)
      <3>1. b = PutRead(f, hand, p) /\ hand \in Seq(Nat) /\ p \in Seq(Nat) BY <2>1 DEF p
      <3>2. f \in Relay BY <1>2
      <3> HIDE DEF b
      <3> QED BY <3>1, <3>2, SetRead
    <2> HIDE DEF b
    <2>3. SameBut(s, b) BY <1>2, <2>2, SameButTrans
    <2>4. c \in Relay /\ SameBut(b, c) BY <1>3, <2>2, SetRbuf
    <2> HIDE DEF c
    <2>5. SameBut(s, c) BY <2>3, <2>4, SameButTrans
    <2>6. CASE s.hs /\ ~s.rcl /\ s.rend # "rst"
      <3>1. t = b BY <1>1, <1>10, <2>6
      <3>2. b.rbuf # Nil BY <1>3, <2>1, <2>2
      <3>3. b.sock # Nil
        <4> DEFINE x == Size(s.sock)
        <4> DEFINE y == Size(s.sess)
        <4> DEFINE z == Size(h)
        <4>1. x \in Nat /\ y \in Nat /\ z \in Nat /\ x <= SockCap /\ y <= SessLimit BY <1>0, <1>2, Lengths
        <4>2. n = Least(z, (SessLimit - y) + (SockCap - x)) BY <1>b, <2>6 DEF Copied, FitCount
        <4>3. /\ n < z /\ m \in 0 .. y + n /\ x + m <= SockCap /\ (m = y + n \/ x + m = SockCap)
              /\ m \in 0 .. Size(q)
          BY <1>4, <1>6, <1>8, <1>10, <2>6
        <4>4. s.sock \o Take(q, m) \in Seq(Nat) /\ Size(s.sock \o Take(q, m)) = x + m
          BY <1>0, <1>4, <4>3, Passed
        <4> HIDE DEF x, y, z
        <4>5. x + m = SockCap /\ SockCap # 0 BY <4>1, <4>2, <4>3, Blocked
        <4> QED BY <1>3, <1>8, <2>2, <4>4, <4>5
      <3> QED BY <1>0, <1>8, <2>0, <2>2, <2>3, <3>1, <3>2, <3>3 DEF Open, SameBut, SameSide
    <2>7. CASE ~(s.hs /\ ~s.rcl /\ s.rend # "rst")
      <3>1. t = CloseRemote(c) BY <1>1, <1>10, <2>7
      <3>2. Kin(c, t) /\ ~Open(t) BY <2>4, <3>1, CloseRemoteKin
      <3> QED BY <1>0, <2>0, <2>5, <3>2 DEF Kin, SameBut, SameSide
    <2> QED BY <2>6, <2>7
  <1>11. CASE ~(n < Size(h))
    <2>1. /\ d \in Relay /\ d.edge = f.edge /\ d.rbuf = Nil /\ d.rx = Nil /\ SameBut(f, d)
      BY <1>2, <1>3, SetRead
    <2> HIDE DEF d
    <2>2. SameBut(s, d) BY <1>2, <2>1, SameButTrans
    <2>3. CASE d.st \in {"est", "finwait"}
      <3>1. t = d BY <1>1, <1>11, <2>3
      <3>2. t.st = s.st /\ t.lcl = s.lcl /\ t.rcl = s.rcl /\ t.est = s.est BY <2>2, <3>1 DEF SameBut, SameSide
      <3>3. Open(t) => t.st = "est" BY <1>0, <2>3, <3>1, <3>2 DEF Sides, Open
      <3> QED BY <1>8, <2>1, <2>2, <2>3, <3>1, <3>2, <3>3 DEF Open, SameBut
    <2>4. CASE d.st \notin {"est", "finwait"}
      <3> DEFINE cut == "cut"
      <3>1. t = CloseLocal(d, cut) /\ cut \in {"eof", "cut"} BY <1>1, <1>11, <2>4
      <3> HIDE DEF cut
      <3>2. d.st # "none" /\ d.est = s.est BY <1>0, <2>2 DEF SameBut, SameSide
      <3>3. Kin(d, t) /\ ~Open(t) BY <2>1, <3>1, <3>2, CloseLocalKin
      <3>4. t.st \notin {"none", "synrcvd"}
        <4>1. CASE d.lcl
          <5>1. t = d BY <3>1, <4>1 DEF CloseLocal
          <5>2. s.lcl /\ s.st = d.st BY <2>2, <4>1 DEF SameBut, SameSide
          <5> QED BY <1>0, <5>1, <5>2 DEF Sides, Live
        <4>2. CASE ~d.lcl
          <5>0. d \in Relay /\ ~d.lcl BY <2>1, <4>2
          <5>1. t.st = Closing(d.st) BY ZenonT(60), <3>1, <5>0, CloseLocalFields
          <5> QED BY <2>1, <3>2, <5>1, ClosingState DEF Closing
        <4> QED BY <4>1, <4>2
      <3> QED BY <3>2, <3>3, <3>4 DEF Kin
    <2> QED BY <2>3, <2>4
  <1> QED BY <1>10, <1>11

LEMMA LocalToRemoteDue ==
    ASSUME NEW s, NEW a, NEW v, InHandler(s, a, v), s.est, NEW t, t = LocalToRemote(s),
           s.st = "synrcvd" => s.rbuf = Nil /\ s.rx = Nil,
           NEW P, Open(s) => DownDue(s, P)
    PROVE  Due(t, P \ {"rx", "w"}) /\ (Open(t) => Open(s) /\ t.edge = s.edge)
  <1> DEFINE u == CopyUp(s)
  <1>1. InHandler(u, a, v) BY CopyUpLemma
  <1>2. /\ u.est = s.est /\ u.st \notin {"none", "synrcvd"}
        /\ Open(u) => /\ Open(s) /\ SameDown(s, u) /\ u.edge = s.edge
                      /\ u.rbuf # Nil => u.sock # Nil
                      /\ u.rbuf = Nil => u.rx = Nil /\ u.st = "est"
    BY CopyUpDue
  <1>3. t = IF u.rcl THEN u ELSE FlushRemote(u) BY LocalToRemoteCases
  <1> HIDE DEF u
  <1>4. CASE u.rcl
    <2>1. t = u /\ ~Open(t) BY <1>3, <1>4 DEF Open
    <2> QED BY <1>2, <2>1 DEF Due, Fresh
  <1>5. CASE ~u.rcl
    <2>1. t = FlushRemote(u) /\ Good(u) BY <1>1, <1>3, <1>5 DEF InHandler, Handling
    <2>2. /\ Kin(u, t)
          /\ Open(t) => /\ Open(u) /\ SameDown(u, t) /\ t.rbuf = u.rbuf /\ t.st = u.st
                        /\ t.edge = u.edge /\ (u.sock # Nil => t.sock # Nil)
      BY <2>1, FlushRemoteDue
    <2>3. Fresh(t) BY <1>2, <2>2 DEF Fresh, Kin
    <2>4. ASSUME Open(t) PROVE UpDue(t, P \ {"rx", "w"}) /\ DownDue(t, P \ {"rx", "w"})
      <3>1. t.rbuf # Nil => t.sock # Nil BY <1>2, <2>2, <2>4
      <3>2. t.rbuf = Nil => t.rx = Nil /\ t.st = "est" BY <1>2, <2>2, <2>4 DEF Kin
      <3>3. SameDown(s, t) /\ t.est BY <1>2, <2>2, <2>4 DEF SameDown, Kin
      <3>4. DownDue(s, P) BY <1>2, <2>2, <2>4
      <3> QED BY <3>1, <3>2, <3>3, <3>4 DEF UpDue, DownDue, SameDown
    <2> QED BY <1>2, <2>2, <2>3, <2>4 DEF Due
  <1> QED BY <1>4, <1>5

\* When copy_stream to the socket is blocked, the socket's buffer is full.
LEMMA CopyDownDue ==
    ASSUME NEW s, NEW a, NEW v, InHandler(s, a, v), NEW t, t = CopyDown(s),
           s.est => s.st # "synrcvd",
           Open(s) /\ ~s.est => s.lbuf = Nil /\ (s.hs => s.in = Nil)
    PROVE  /\ Kin(s, t)
           /\ Open(t) => /\ Open(s) /\ SameUp(s, t) /\ t.st = s.st /\ t.edge = s.edge
                         /\ DownDue(t, {})
  <1> DEFINE h == s.lbuf \o Arrived(s)
  <1> DEFINE n == ToSend(s, h)
  <1> DEFINE p == s.tx \o Take(h, n)
  <1> DEFINE f == PutDown(s, Shaken(s), p)
  <1> DEFINE hand == <<h[n + 1]>>
  <1> DEFINE b == PutLeft(f, hand, Rest(h, n + 1))
  <1> DEFINE c == PutLbuf(b, Nil)
  <1> DEFINE d == PutLeft(f, Nil, Nil)
  <1>1. t = IF n < Size(h)
            THEN IF IsActive(s) THEN b ELSE CloseLocal(c, "cut")
            ELSE IF s.rend = "open" /\ ~s.rcl THEN d ELSE CloseRemote(d)
    BY DEF CopyDown, PutDown, PutLeft, PutLbuf, Arrived, Shaken, GotHello, ToSend, Size, Nil
  <1>0. /\ Handling(s, a, v) /\ Good(s) /\ s \in Relay /\ Sides(s) /\ s.st \notin {"none", "gone"} /\ s.st \in States
        /\ s.lbuf \in Seq(Nat) /\ s.tx \in Seq(Nat)
    BY Fields DEF InHandler, Handling
  <1>b. h = s.lbuf \o Arrived(s) /\ n = ToSend(s, h) /\ p = s.tx \o Take(h, n) OBVIOUS
  <1> HIDE DEF h, n, p
  <1>2. h \in Seq(Nat) /\ n \in 0 .. Size(h) /\ p \in Seq(Nat) /\ Size(p) = Size(s.tx) + n
    <2>1. DownTaken(s, a, v, h, n, p) BY <1>b, SentOn
    <2> QED BY <2>1 DEF DownTaken
  <1>3. Nil \in Seq(Nat) /\ Size(Nil) = 0 BY EmptySeqNat
  <1>4. /\ Shaken(s) \in BOOLEAN /\ Arrived(s) \in Seq(Nat)
        /\ ~s.hs \/ s.in = Nil => Arrived(s) = Nil
    BY <1>0, ArrivedLemma
  <1>5. /\ f \in Relay /\ f.edge = s.edge /\ f.tx = p
        /\ SameUp(s, f) /\ SameSide(s, f)
    BY <1>0, <1>2, <1>4, SetDown
  <1> HIDE DEF f
  <1>6. Open(s) /\ ~s.est => Size(h) = 0
    <2> SUFFICES ASSUME Open(s), ~s.est PROVE Size(h) = 0 OBVIOUS
    <2>1. s.lbuf = Nil /\ Arrived(s) = Nil BY <1>4
    <2>2. Size(h) = Size(s.lbuf) + Size(Arrived(s)) BY <1>0, <1>4, <1>b, ConcatNat
    <2> QED BY <1>3, <2>1, <2>2
  <1>7. CASE n < Size(h)
    <2> DEFINE q == Rest(h, n + 1)
    <2>1. hand \in Seq(Nat) /\ Size(hand) = 1 /\ q \in Seq(Nat) BY <1>2, <1>7, RunHand
    <2> HIDE DEF hand, q
    <2>2. /\ b \in Relay /\ b.edge = f.edge /\ b.tx = p /\ b.lbuf = hand /\ b.in = q
          /\ SameUp(f, b) /\ SameSide(f, b)
      <3>1. b = PutLeft(f, hand, q) BY DEF q
      <3> HIDE DEF b
      <3> QED BY <1>5, <2>1, <3>1, SetLeft
    <2>3. c = PutLbuf(b, Nil) OBVIOUS
    <2> HIDE DEF b, c
    <2>4. c \in Relay /\ SameUp(b, c) /\ SameSide(b, c) BY <1>3, <2>2, <2>3, SetLbuf
    <2>5. SameUp(s, b) /\ SameSide(s, b) /\ SameUp(s, c) /\ SameSide(s, c)
      BY <1>5, <2>2, <2>4 DEF SameUp, SameSide
    <2>6. CASE IsActive(s)
      <3>1. t = b BY <1>1, <1>7, <2>6
      <3>2. Kin(s, t) BY <2>5, <3>1 DEF Kin, SameUp, SameSide
      <3>3. ASSUME Open(t) PROVE Open(s) /\ SameUp(s, t) /\ t.st = s.st /\ t.edge = s.edge /\ DownDue(t, {})
        <4>1. Open(s) /\ SameUp(s, t) /\ t.st = s.st /\ t.edge = s.edge
          BY <1>5, <2>2, <2>5, <3>1, <3>3 DEF Open, SameUp, SameSide
        <4>2. s.est
          <5>1. Size(h) # 0 BY <1>2, <1>7
          <5> QED BY <1>6, <4>1, <5>1
        <4>3. MaySend(s) BY <1>0, <2>6, <4>1, <4>2 DEF IsActive, MaySend, Sides, Open, States
        <4>4. Size(p) # 0
          <5> DEFINE x == Size(s.tx)
          <5> DEFINE z == Size(h)
          <5>1. x \in Nat /\ x <= TxCap /\ TxCap \in Nat \ {0} /\ z \in Nat BY <1>0, <1>2, Lengths, LenNat
          <5>2. n = Least(z, TxCap - x) BY <1>b, <4>3 DEF ToSend
          <5>3. Size(p) = x + n /\ n < z BY <1>2, <1>7
          <5> HIDE DEF x, z
          <5>4. n = TxCap - x BY <5>1, <5>2, <5>3 DEF Least
          <5>5. x + n = TxCap BY <5>1, <5>4
          <5> QED BY <5>1, <5>3, <5>5
        <4>5. t.tx # Nil /\ t.lbuf # Nil BY <1>3, <2>1, <2>2, <3>1, <4>4
        <4>6. t.est BY <4>1, <4>2 DEF SameUp
        <4> QED BY <4>1, <4>5, <4>6 DEF DownDue
      <3> QED BY <3>2, <3>3
    <2>7. CASE ~IsActive(s)
      <3> DEFINE cut == "cut"
      <3>1. t = CloseLocal(c, cut) /\ cut \in {"eof", "cut"} BY <1>1, <1>7, <2>7
      <3> HIDE DEF cut
      <3>2. c \in Relay /\ c.st # "none" BY <1>0, <2>4, <2>5 DEF SameSide
      <3>3. Kin(c, t) /\ ~Open(t) BY <3>1, <3>2, CloseLocalKin
      <3>4. Kin(s, c) BY <2>5 DEF Kin, SameUp, SameSide
      <3> QED BY <3>3, <3>4, KinTrans
    <2> QED BY <2>6, <2>7
  <1>8. CASE ~(n < Size(h))
    <2>1. /\ d \in Relay /\ d.edge = f.edge /\ d.lbuf = Nil /\ d.in = Nil
          /\ SameUp(f, d) /\ SameSide(f, d)
      BY <1>3, <1>5, SetLeft
    <2> HIDE DEF d
    <2>2. SameUp(s, d) /\ SameSide(s, d) BY <1>5, <2>1 DEF SameUp, SameSide
    <2>3. Kin(s, d) BY <2>2 DEF Kin, SameUp, SameSide
    <2>4. CASE s.rend = "open" /\ ~s.rcl
      <3>1. t = d BY <1>1, <1>8, <2>4
      <3>2. DownDue(t, {}) BY <2>1, <3>1 DEF DownDue
      <3> QED BY <1>5, <2>1, <2>2, <2>3, <3>1, <3>2 DEF Open, SameUp, SameSide
    <2>5. CASE ~(s.rend = "open" /\ ~s.rcl)
      <3>1. t = CloseRemote(d) BY <1>1, <1>8, <2>5
      <3>2. Kin(d, t) /\ ~Open(t) BY <2>1, <3>1, CloseRemoteKin
      <3> QED BY <2>3, <3>2, KinTrans
    <2> QED BY <2>4, <2>5
  <1> QED BY <1>7, <1>8

LEMMA RemoteToLocalDue ==
    ASSUME NEW s, NEW a, NEW v, InHandler(s, a, v), NEW t, t = RemoteToLocal(s), NEW P, Due(s, P)
    PROVE  Due(t, P \ {"tx", "r"}) /\ (Open(t) => Open(s) /\ t.edge = s.edge)
  <1> DEFINE u == CopyDown(s)
  <1>1. InHandler(u, a, v) BY CopyDownLemma
  <1>2. /\ Kin(s, u)
        /\ Open(u) => /\ Open(s) /\ SameUp(s, u) /\ u.st = s.st /\ u.edge = s.edge
                      /\ DownDue(u, {})
    <2>1. s.est => s.st # "synrcvd" BY DEF Due, Fresh
    <2>2. Open(s) /\ ~s.est => s.lbuf = Nil /\ (s.hs => s.in = Nil) BY DEF Due, DownDue
    <2> QED BY <2>1, <2>2, CopyDownDue
  <1>3. t = IF u.rcl /\ ~u.lcl /\ u.lbuf = Nil /\ u.tx = Nil THEN CloseLocal(u, Cause(u)) ELSE u
    BY DEF RemoteToLocal, Nil
  <1>4. u \in Relay /\ u.st # "none" BY <1>1, Fields DEF InHandler, Handling
  <1> HIDE DEF u
  <1>5. Fresh(u) BY <1>2, KinFresh DEF Due
  <1>6. CASE u.rcl /\ ~u.lcl /\ u.lbuf = Nil /\ u.tx = Nil
    <2> DEFINE c == Cause(u)
    <2>1. t = CloseLocal(u, c) /\ c \in {"eof", "cut"} BY <1>3, <1>6 DEF Cause
    <2> HIDE DEF c
    <2>2. Kin(u, t) /\ ~Open(t) BY <1>4, <2>1, CloseLocalKin
    <2>3. Fresh(t) BY <1>5, <2>2, KinFresh
    <2> QED BY <2>2, <2>3 DEF Due
  <1>7. CASE ~(u.rcl /\ ~u.lcl /\ u.lbuf = Nil /\ u.tx = Nil)
    <2>1. t = u BY <1>3, <1>7
    <2>2. ASSUME Open(u) PROVE UpDue(u, P \ {"tx", "r"}) /\ DownDue(u, P \ {"tx", "r"})
      <3>1. UpDue(s, P) /\ SameUp(s, u) /\ u.st = s.st /\ DownDue(u, {}) BY <1>2, <2>2 DEF Due
      <3> QED BY <3>1 DEF UpDue, DownDue, SameUp
    <2> QED BY <1>2, <1>5, <2>1, <2>2 DEF Due
  <1> QED BY <1>6, <1>7

\* The wakers are registered again after every handler.
LEMMA SettleDue ==
    ASSUME NEW s, NEW a, NEW v, InHandler(s, a, v), NEW t, t = Settle(s), NEW P, Due(s, P)
    PROVE  Due(t, P) /\ (Open(t) => Open(s) /\ t.edge = s.edge /\ Registered(t))
  <1> DEFINE x == IF s.lcl /\ ~s.rcl /\ s.rbuf = Nil THEN CloseRemote(s) ELSE s
  <1> DEFINE u == CheckHalfClose(s)
  <1> DEFINE w == u.wakers \cup (IF u.lbuf # <<>> THEN {"tx"} ELSE {})
                     \cup (IF u.rbuf = <<>> /\ ~u.rcl THEN {"rx"} ELSE {})
  <1>0. s \in Relay /\ s.st # "none" BY Fields DEF InHandler, Handling
  <1>1. InHandler(u, a, v) BY CheckHalfCloseLemma
  <1>2. t = IF u.lcl THEN u ELSE PutWakers(u, w) BY DEF Settle, ReregisterLocal, PutWakers
  <1>3. u = IF x.rcl /\ ~x.lcl /\ x.lbuf = Nil THEN CloseLocal(x, Cause(x)) ELSE x
    BY DEF CheckHalfClose, Nil
  <1>4. x \in Relay /\ Kin(s, x) /\ (Open(x) => x = s) /\ (x # s => x.lcl)
    <2>1. CASE s.lcl /\ ~s.rcl /\ s.rbuf = Nil
      <3>1. x = CloseRemote(s) BY <2>1
      <3> HIDE DEF x
      <3>2. Kin(s, x) /\ ~Open(x) BY <1>0, <3>1, CloseRemoteKin
      <3>3. x \in Relay /\ SameSide(s, x) BY <1>0, <2>1, <3>1, CloseRemoteFields
      <3> QED BY <2>1, <3>2, <3>3 DEF SameSide
    <2>2. CASE ~(s.lcl /\ ~s.rcl /\ s.rbuf = Nil)
      <3>1. x = s BY <2>2
      <3> QED BY <1>0, <3>1 DEF Kin
    <2> QED BY <2>1, <2>2
  <1>5. u \in Relay /\ u.wakers \in SUBSET {"rx", "tx"} BY <1>1, Fields DEF InHandler, Handling
  <1> HIDE DEF x, u
  <1>6. Kin(s, u) /\ (Open(u) => u = s)
    <2>1. CASE x.rcl /\ ~x.lcl /\ x.lbuf = Nil
      <3> DEFINE c == Cause(x)
      <3>1. u = CloseLocal(x, c) /\ c \in {"eof", "cut"} BY <1>3, <2>1 DEF Cause
      <3>2. x = s BY <1>4, <2>1
      <3> HIDE DEF c
      <3>3. Kin(s, u) /\ ~Open(u) BY <1>0, <3>1, <3>2, CloseLocalKin
      <3> QED BY <3>3
    <2>2. CASE ~(x.rcl /\ ~x.lcl /\ x.lbuf = Nil) BY <1>3, <1>4, <2>2
    <2> QED BY <2>1, <2>2
  <1>7. Due(u, P) BY <1>6, KinFresh DEF Due
  <1>8. CASE u.lcl BY <1>2, <1>7, <1>8 DEF Open
  <1>9. CASE ~u.lcl
    <2>1. t = PutWakers(u, w) /\ w \in SUBSET {"rx", "tx"} BY <1>2, <1>5, <1>9
    <2>2. /\ u.lbuf # Nil => "tx" \in w
          /\ u.rbuf = Nil /\ ~u.rcl => "rx" \in w
      BY DEF Nil
    <2> HIDE DEF w
    <2>3. /\ t.wakers = w /\ t.edge = u.edge
          /\ SameUp(u, t) /\ SameDown(u, t) /\ SameSide(u, t)
      BY <1>5, <2>1, SetWakers
    <2>4. Due(t, P) BY <1>7, <2>3 DEF Due, Fresh, UpDue, DownDue, Open, SameUp, SameDown, SameSide
    <2>5. Open(t) => Open(u) /\ Registered(t)
      BY <2>2, <2>3 DEF Registered, Open, SameUp, SameDown, SameSide
    <2> QED BY <1>6, <2>3, <2>4, <2>5
  <1> QED BY <1>8, <1>9

LEMMA YoungDue ==
    ASSUME NEW s \in Relay, NEW t, t = [s EXCEPT !.age = 0], NEW P, Due(s, P)
    PROVE  /\ Due(t, P) /\ t.edge = s.edge
           /\ SameUp(s, t) /\ SameDown(s, t) /\ SameSide(s, t)
  <1> DEFINE n == 0
  <1>1. t = PutAge(s, n) /\ n \in 0 .. 2 BY DEF PutAge
  <1> HIDE DEF n
  <1>2. t.edge = s.edge /\ SameUp(s, t) /\ SameDown(s, t) /\ SameSide(s, t) BY <1>1, SetAge
  <1>3. Due(t, P) BY <1>2 DEF Due, Fresh, UpDue, DownDue, Open, SameUp, SameDown, SameSide
  <1> QED BY <1>2, <1>3

\* The events that make the connection read the socket are served.
LEMMA UpServed ==
    ASSUME NEW s, NEW a, NEW v, InHandler(s, a, v), NEW t, t = LocalToRemote(s), NEW P, Due(s, P)
    PROVE  Due(t, P \ {"rx"}) /\ (Open(t) => Open(s) /\ t.edge = s.edge)
  <1>0. s \in Relay /\ s.st # "none" /\ Flow(s, a, v) BY Fields DEF InHandler, Handling
  <1>1. CASE s.est
    <2>1. s.st # "synrcvd" BY <1>1 DEF Due, Fresh
    <2>2. Open(s) => DownDue(s, P) BY DEF Due
    <2>3. Due(t, P \ {"rx", "w"}) /\ (Open(t) => Open(s) /\ t.edge = s.edge)
      BY <1>1, <2>1, <2>2, LocalToRemoteDue
    <2>4. (P \ {"rx", "w"}) \subseteq (P \ {"rx"}) OBVIOUS
    <2> QED BY <2>3, <2>4, MoreDue
  <1>2. CASE ~s.est /\ IsActive(s)
    <2>1. t = s BY <1>2, LocalToRemoteCases
    <2>2. s.rbuf = Nil BY <1>0, <1>2 DEF Flow, Early
    <2> QED BY <1>2, <2>1, <2>2 DEF Due, UpDue, DownDue
  <1>3. CASE ~s.est /\ ~IsActive(s)
    <2> DEFINE cut == "cut"
    <2>1. t = CloseLocal(s, cut) /\ cut \in {"eof", "cut"} BY <1>3, LocalToRemoteCases
    <2> HIDE DEF cut
    <2>2. Kin(s, t) /\ ~Open(t) BY <1>0, <2>1, CloseLocalKin
    <2>3. Fresh(t) BY <2>2, KinFresh DEF Due
    <2> QED BY <2>2, <2>3 DEF Due
  <1> QED BY <1>1, <1>2, <1>3

\* do_local serves its events; the edges are left to do_remote.
LEMMA DoLocalDue ==
    ASSUME NEW s, NEW a, NEW v, InHandler(s, a, v), NEW e, e \subseteq {"rx", "tx"}, Due(s, e \cup s.edge),
           NEW t \in DoLocal(s, e)
    PROVE  Due(t, s.edge) /\ (Open(t) => t.edge = s.edge /\ Registered(t))
  <1> DEFINE P == e \cup s.edge
  <1> DEFINE y == [s EXCEPT !.age = 0]
  <1> DEFINE b == IF "rx" \in e THEN LocalToRemote(y) ELSE y
  <1> DEFINE c == IF "tx" \in e THEN RemoteToLocal(b) ELSE b
  <1>1. t = Settle(c) BY DEF DoLocal, LocalToRemote
  <1>0. s \in Relay /\ s.edge \subseteq {"r", "w"} BY Fields DEF InHandler, Handling
  <1>2. InHandler(y, a, v) BY YoungLemma
  <1>3. Due(y, P) /\ y.edge = s.edge
    <2>1. Due(s, P) OBVIOUS
    <2> HIDE DEF P
    <2> QED BY <1>0, <2>1, YoungDue
  <1>4. P \ {"rx"} \subseteq P /\ ((P \ {"rx"}) \ {"tx"}) \subseteq s.edge
    BY <1>0
  <1>5. /\ "rx" \notin e => (P \ {"rx"}) = P
        /\ "tx" \notin e => ((P \ {"rx"}) \ {"tx"}) = P \ {"rx"}
        /\ ((P \ {"rx"}) \ {"tx", "r"}) \subseteq ((P \ {"rx"}) \ {"tx"})
    BY <1>0
  <1> HIDE DEF y, P
  <1>6. InHandler(b, a, v) /\ Due(b, P \ {"rx"}) /\ (Open(b) => b.edge = s.edge)
    <2>1. CASE "rx" \in e
      <3>1. b = LocalToRemote(y) BY <2>1
      <3> HIDE DEF b
      <3>2. InHandler(b, a, v) BY <1>2, <3>1, LocalToRemoteLemma
      <3>3. Due(b, P \ {"rx"}) /\ (Open(b) => b.edge = y.edge) BY <1>2, <1>3, <3>1, UpServed
      <3> QED BY <1>3, <3>2, <3>3
    <2>2. CASE "rx" \notin e BY <1>2, <1>3, <1>5, <2>2
    <2> QED BY <2>1, <2>2
  <1> HIDE DEF b
  <1>7. InHandler(c, a, v) /\ Due(c, (P \ {"rx"}) \ {"tx"}) /\ (Open(c) => c.edge = s.edge)
    <2>1. CASE "tx" \in e
      <3> DEFINE Q == P \ {"rx"}
      <3>1. c = RemoteToLocal(b) BY <2>1
      <3>2. Due(b, Q) BY <1>6
      <3>a. (Q \ {"tx", "r"}) \subseteq (Q \ {"tx"}) BY <1>5
      <3> HIDE DEF c, Q
      <3>3. InHandler(c, a, v) BY <1>6, <3>1, RemoteToLocalLemma
      <3>4. Due(c, Q \ {"tx", "r"}) /\ (Open(c) => Open(b) /\ c.edge = b.edge) BY <1>6, <3>1, <3>2, RemoteToLocalDue
      <3>5. Due(c, Q \ {"tx"}) BY <3>a, <3>4, MoreDue
      <3> QED BY <1>6, <3>3, <3>4, <3>5 DEF Q
    <2>2. CASE "tx" \notin e BY <1>5, <1>6, <2>2
    <2> QED BY <2>1, <2>2
  <1> HIDE DEF c
  <1>8. Due(c, s.edge) BY <1>4, <1>7, MoreDue
  <1>9. Due(t, s.edge) /\ (Open(t) => Open(c) /\ t.edge = c.edge /\ Registered(t)) BY <1>1, <1>7, <1>8, SettleDue
  <1> QED BY <1>7, <1>9

\* do_remote serves all that is left.
LEMMA DoRemoteDue ==
    ASSUME NEW s, NEW a, NEW v, InHandler(s, a, v), NEW e, e \subseteq {"r", "w"}, Due(s, e),
           NEW t \in DoRemote(s, e)
    PROVE  Due(t, {}) /\ (Open(t) => Registered(t))
  <1> DEFINE y == [s EXCEPT !.age = 0]
  <1>0. s \in Relay BY Fields DEF InHandler, Handling
  <1>1. InHandler(y, a, v) /\ y.est = s.est BY YoungLemma
  <1>2. Due(y, e) BY <1>0, YoungDue
  <1>3. CASE "w" \in e /\ ~s.est /\ (s.lcl \/ s.st = "closed")
    <2> DEFINE cut == "cut"
    <2>1. t = CloseRemote(CloseLocal(y, cut)) /\ cut \in {"eof", "cut"} BY <1>3 DEF DoRemote
    <2>2. InHandler(CloseLocal(y, cut), a, v) BY <1>1, CutLemma
    <2> HIDE DEF y, cut
    <2> DEFINE u == CloseLocal(y, cut)
    <2>3. y \in Relay /\ y.st # "none" BY <1>1, Fields DEF InHandler, Handling
    <2>4. u \in Relay BY <2>2, Fields DEF InHandler, Handling
    <2>5. Kin(y, u) BY <2>1, <2>3, CloseLocalKin
    <2>6. t = CloseRemote(u) BY <2>1
    <2> HIDE DEF u
    <2>7. Kin(u, t) /\ ~Open(t) BY <2>4, <2>6, CloseRemoteKin
    <2>8. Fresh(t) BY <1>2, <2>5, <2>7, KinFresh DEF Due
    <2> QED BY <2>7, <2>8 DEF Due
  <1>4. CASE ~("w" \in e /\ ~s.est /\ (s.lcl \/ s.st = "closed"))
    <2>1. t \in DoRemoteEdges(y, e) BY <1>4 DEF DoRemote
    <2> HIDE DEF y
    <2> DEFINE x == IF "w" \in e THEN LocalToRemote(Established(y)) ELSE y
    <2> DEFINE b == IF "r" \in e THEN RemoteToLocal(x) ELSE x
    <2> DEFINE c == IF "r" \in e THEN FlushRemote(b) ELSE b
    <2>2. t = Settle(c) BY <2>1 DEF DoRemoteEdges, LocalToRemote
    <2>3. InHandler(x, a, v) /\ Due(x, e \ {"w"})
      <3>1. CASE "w" \in e
        <4> DEFINE z == Established(y)
        <4>1. InHandler(z, a, v) BY <1>1, EstablishedLemma
        <4>2. /\ z.est /\ (z.st = "synrcvd" => z.rbuf = Nil /\ z.rx = Nil)
              /\ Open(z) => DownDue(z, e)
          <5>1. CASE y.est
            <6>1. z = y BY <5>1 DEF Established
            <6> QED BY <1>2, <5>1, <6>1 DEF Due, Fresh
          <5>2. CASE ~y.est
            <6> DEFINE q == Append(y.sess, Request)
            <6>1. z = PutFirst(y, q) BY <5>2 DEF Established, PutFirst
            <6>2. y \in Relay /\ y.rbuf = Nil /\ y.sess \in Seq(Nat)
              BY <1>1, <5>2, Fields DEF InHandler, Handling, Flow, Early
            <6>3. q \in Seq(Nat)
              <7>1. Request \in Nat BY DEF Request
              <7> HIDE DEF z
              <7> QED BY <6>2, <7>1, AppendProperties
            <6> HIDE DEF z, q
            <6>4. z.est /\ z.rbuf = y.rbuf /\ z.rx = y.rx /\ z.rcl = y.rcl /\ SameDown(y, z) /\ SameSide(y, z)
              BY <6>1, <6>2, <6>3, SetFirst
            <6>5. z.st = "synrcvd" => z.rx = Nil BY <1>2, <6>4 DEF Due, Fresh, SameSide
            <6>6. Open(z) => DownDue(z, e)
              BY <1>2, <6>4 DEF Due, Open, DownDue, SameDown, SameSide
            <6> QED BY <6>2, <6>4, <6>5, <6>6
          <5> QED BY <5>1, <5>2
        <4>3. x = LocalToRemote(z) BY <3>1
        <4> HIDE DEF z, x
        <4>4. InHandler(x, a, v) BY <4>1, <4>3, LocalToRemoteLemma
        <4>5. Due(x, e \ {"rx", "w"}) BY <4>1, <4>2, <4>3, LocalToRemoteDue
        <4>6. (e \ {"rx", "w"}) \subseteq (e \ {"w"}) OBVIOUS
        <4>7. Due(x, e \ {"w"}) BY <4>5, <4>6, MoreDue
        <4> QED BY <4>4, <4>7
      <3>2. CASE "w" \notin e
        <4>1. x = y /\ e \ {"w"} = e BY <3>2
        <4> QED BY <1>1, <1>2, <4>1
      <3> QED BY <3>1, <3>2
    <2> HIDE DEF x
    <2>4. InHandler(b, a, v) /\ Due(b, {})
      <3> DEFINE Q == e \ {"w"}
      <3>1. CASE "r" \in e
        <4>1. b = RemoteToLocal(x) /\ Due(x, Q) BY <2>3, <3>1
        <4>2. (Q \ {"tx", "r"}) \subseteq {} OBVIOUS
        <4> HIDE DEF b, Q
        <4>3. InHandler(b, a, v) BY <2>3, <4>1, RemoteToLocalLemma
        <4>4. Due(b, Q \ {"tx", "r"}) BY <2>3, <4>1, RemoteToLocalDue
        <4>5. Due(b, {}) BY <4>2, <4>4, MoreDue
        <4> QED BY <4>3, <4>5
      <3>2. CASE "r" \notin e
        <4>1. b = x /\ Q \subseteq {} BY <3>2
        <4> HIDE DEF b
        <4>2. Due(x, {}) BY <2>3, <4>1, MoreDue
        <4> QED BY <2>3, <4>1, <4>2
      <3> QED BY <3>1, <3>2
    <2> HIDE DEF b
    <2>5. InHandler(c, a, v) /\ Due(c, {})
      <3>1. CASE "r" \in e
        <4>1. c = FlushRemote(b) BY <3>1
        <4> HIDE DEF c
        <4>2. InHandler(c, a, v) /\ Good(b) BY <2>4, <4>1, FlushRemoteLemma DEF InHandler, Handling
        <4>3. /\ Kin(b, c)
              /\ Open(c) => /\ Open(b) /\ SameDown(b, c) /\ c.rbuf = b.rbuf /\ c.st = b.st
                            /\ c.cold = b.cold /\ c.rend = b.rend /\ (b.sock # Nil => c.sock # Nil)
          BY <4>1, <4>2, FlushRemoteDue
        <4>4. Fresh(c) BY <2>4, <4>3, KinFresh DEF Due
        <4>5. Open(c) => UpDue(c, {}) /\ DownDue(c, {})
          BY <2>4, <4>3 DEF Due, UpDue, DownDue, SameDown, Kin
        <4> QED BY <4>2, <4>4, <4>5 DEF Due
      <3>2. CASE "r" \notin e BY <2>4, <3>2
      <3> QED BY <3>1, <3>2
    <2> HIDE DEF c
    <2>6. Due(t, {}) /\ (Open(t) => Registered(t)) BY <2>2, <2>5, SettleDue
    <2> QED BY <2>6
  <1> QED BY <1>3, <1>4

-----------------------------------------------------------------------------
(* TCP: every step keeps the connection awake *)

\* A handler has served the events, and the edges that are left are in the record.
LEMMA HandlerAwake ==
    ASSUME NEW t, NEW P, Due(t, P), Open(t) => P \subseteq t.edge /\ Registered(t)
    PROVE  Awake(t)
  <1>1. CASE Open(t)
    <2>1. P \subseteq t.ev \cup t.edge BY <1>1
    <2>2. Due(t, t.ev \cup t.edge) BY <2>1, MoreDue
    <2> QED BY <1>1, <2>2 DEF Awake, Due
  <1>2. CASE ~Open(t) BY <1>2 DEF Awake, Due
  <1> QED BY <1>1, <1>2

\* Fields that Awake looks at.
Alike(s, t) ==
    /\ SameUp(s, t) /\ SameDown(s, t) /\ SameSide(s, t)
    /\ t.edge = s.edge /\ t.wakers = s.wakers /\ t.on = s.on /\ t.ev = s.ev
LEMMA AlikeAwake == ASSUME NEW s, NEW t, Awake(s), Alike(s, t) PROVE Awake(t)
  BY DEF Awake, Alike, Due, Fresh, UpDue, DownDue, Registered, Open, SameUp, SameDown, SameSide

LEMMA MarkedAwake == ASSUME NEW s \in Relay, Awake(s), NEW t, t = Marked(s) PROVE Awake(t) /\ t \in Relay
  <1> DEFINE b == s.removed \/ IsClosed(s)
  <1>1. t = PutMark(s, b) BY DEF Marked, PutMark
  <1>2. b \in BOOLEAN BY DEF Relay, IsClosed
  <1> HIDE DEF b
  <1>3. t \in Relay /\ Alike(s, t) BY <1>1, <1>2, SetMark DEF Alike
  <1> QED BY <1>3, AlikeAwake

LEMMA RemovedAwake == ASSUME NEW s \in Relay, Awake(s), s.st # "none", NEW t, t = Removed(s) PROVE Awake(t)
  <1>1. CASE ~s.removed
    <2>1. t = s BY <1>1 DEF Removed
    <2> QED BY <2>1
  <1>2. CASE s.removed
    <2>1. t.on = FALSE /\ t.st = "gone" BY <1>2 DEF Removed, Relay
    <2> QED BY <2>1 DEF Awake, Fresh
  <1> QED BY <1>1, <1>2

\* The record and the events that WInv gives a step of the loop.
LEMMA Found == WInv => k \in Relay /\ k.ev \subseteq {"rx", "tx"} /\ k.edge \subseteq {"r", "w"}
  <1> SUFFICES ASSUME WInv PROVE k \in Relay /\ k.ev \subseteq {"rx", "tx"} /\ k.edge \subseteq {"r", "w"} OBVIOUS
  <1>1. Good(k) BY DEF WInv, Between, Valid
  <1> QED BY <1>1, Fields

LEMMA LocalEventsAwake == WInv /\ Awake(k) /\ LocalEvents => Awake(k')
  <1> SUFFICES ASSUME WInv, Awake(k), LocalEvents PROVE Awake(k') OBVIOUS
  <1> DEFINE e == {}
  <1> DEFINE s == PutEv(k, e)
  <1>1. k.on BY DEF LocalEvents
  <1>2. PICK r \in DoLocal(s, k.ev) : k' = Marked(r) BY DEF LocalEvents, Loop, PutEv
  <1>3. Between(pc, k, app, srv) BY DEF WInv
  <1>4. e \in SUBSET {"rx", "tx"} OBVIOUS
  <1> HIDE DEF e
  <1>5. /\ s \in Relay /\ s.edge = k.edge /\ s.on = k.on /\ s.removed = k.removed
        /\ SameUp(k, s) /\ SameDown(k, s) /\ SameSide(k, s)
    <2>1. k \in Relay BY Found
    <2> QED BY <1>4, <2>1, SetEv
  <1> HIDE DEF s
  <1>6. InHandler(s, app, srv) BY <1>1, <1>3, <1>5, Starts
  <1>7. Due(s, k.ev \cup s.edge)
    <2>1. Due(k, k.ev \cup k.edge) BY <1>1 DEF Awake
    <2> QED BY <1>5, <2>1 DEF Due, Fresh, UpDue, DownDue, Open, SameUp, SameDown, SameSide
  <1>8. Due(r, s.edge) /\ (Open(r) => r.edge = s.edge /\ Registered(r)) BY <1>2, <1>6, <1>7, Found, DoLocalDue
  <1>9. Awake(r) BY <1>8, HandlerAwake
  <1>10. r \in Relay
    <2>1. InHandler(r, app, srv) BY <1>2, <1>6, DoLocalLemma
    <2> QED BY <2>1, Fields DEF InHandler, Handling
  <1> QED BY <1>2, <1>9, <1>10, MarkedAwake

LEMMA LocalNewAwake == WInv /\ Awake(k) /\ LocalNew => Awake(k')
  <1> SUFFICES ASSUME WInv, Awake(k), LocalNew PROVE Awake(k') OBVIOUS
  <1>0. pc = "net" /\ k.ev # {} /\ ~k.on /\ k.st # "listen" BY DEF LocalNew
  <1>1. PICK h \in Handover, arrived \in BOOLEAN :
          /\ arrived => h = "hello"
          /\ Loop("poll", { Marked(r) : r \in DoLocal(
                [k EXCEPT !.on = TRUE, !.ev = {}, !.cold = (h = "cold"), !.hs = (h = "warm"),
                          !.edge = IF h = "cold" THEN {} ELSE {"r", "w"},
                          !.in = IF arrived THEN <<Hello>> ELSE <<>>], k.ev) })
    BY DEF LocalNew
  <1> DEFINE on == TRUE
  <1> DEFINE none == {}
  <1> DEFINE cold == (h = "cold")
  <1> DEFINE hs == (h = "warm")
  <1> DEFINE edges == IF h = "cold" THEN {} ELSE {"r", "w"}
  <1> DEFINE in == IF arrived THEN <<Hello>> ELSE Nil
  <1> DEFINE s == PutNew(k, on, none, cold, hs, edges, in)
  <1>2. PICK r \in DoLocal(s, k.ev) : k' = Marked(r) BY <1>1 DEF Loop, PutNew, Nil
  <1>3. Between("net", k, app, srv) /\ k \in Relay BY <1>0, Found DEF WInv
  <1>4. k.st \notin {"none", "gone"} /\ ~k.est /\ ~k.hs /\ k.rend = "open" BY <1>0, <1>3 DEF Between, Shape
  <1>5. k.rbuf = Nil /\ k.lbuf = Nil BY <1>3, <1>4 DEF Between, Valid, Flow, Early
  <1>6. /\ on \in BOOLEAN /\ none \in SUBSET {"rx", "tx"} /\ hs \in BOOLEAN /\ edges \in SUBSET {"r", "w"}
        /\ cold \in BOOLEAN /\ in \in Seq(Nat)
    BY HelloSeq, EmptySeqNat
  <1>7. /\ on = TRUE /\ (in = Nil \/ (~hs /\ in = <<Hello>> /\ "r" \in edges))
        /\ cold \/ "w" \in edges
    BY <1>1
  <1> HIDE DEF on, none, cold, hs, edges, in
  <1>8. /\ s \in Relay /\ s.edge = edges /\ s.on = on /\ s.cold = cold /\ s.hs = hs /\ s.in = in /\ s.removed = k.removed
        /\ s.tx = k.tx /\ s.lbuf = k.lbuf /\ SameWay(k, s) /\ SameSide(k, s)
    BY <1>3, <1>6, SetNew
  <1> HIDE DEF s
  <1>9. s.on /\ (s.in = Nil \/ (~s.hs /\ s.in = <<Hello>>)) BY <1>7, <1>8
  <1>10. InHandler(s, app, srv) BY <1>0, <1>3, <1>4, <1>8, <1>9, NewLemma
  <1>11. Due(s, k.ev \cup s.edge)
    <2>1. /\ s.rbuf = Nil /\ s.lbuf = Nil /\ ~s.est /\ (s.in # Nil => ~s.hs /\ "r" \in s.edge)
          /\ s.rend = "open" /\ (s.cold \/ "w" \in s.edge)
      BY <1>4, <1>5, <1>7, <1>8, <1>9 DEF SameWay
    <2>2. Fresh(s) BY <1>8 DEF Awake, Fresh, SameWay, SameSide
    <2> QED BY <2>1, <2>2 DEF Due, UpDue, DownDue
  <1>12. Due(r, s.edge) /\ (Open(r) => r.edge = s.edge /\ Registered(r)) BY <1>2, <1>10, <1>11, Found, DoLocalDue
  <1>13. Awake(r) BY <1>12, HandlerAwake
  <1>14. r \in Relay
    <2>1. InHandler(r, app, srv) BY <1>2, <1>10, DoLocalLemma
    <2> QED BY <2>1, Fields DEF InHandler, Handling
  <1> QED BY <1>2, <1>13, <1>14, MarkedAwake

LEMMA RemoteEventsAwake == WInv /\ Awake(k) /\ RemoteEvents => Awake(k')
  <1> SUFFICES ASSUME WInv, Awake(k), RemoteEvents PROVE Awake(k') OBVIOUS
  <1> DEFINE e == {}
  <1> DEFINE s == PutEdge(k, e)
  <1>1. pc = "poll" /\ k.edge # {} BY DEF RemoteEvents
  <1>2. PICK r \in DoRemote(s, k.edge) : k' = Removed(Marked(r)) BY DEF RemoteEvents, Loop, PutEdge
  <1>3. Between(pc, k, app, srv) /\ k.on /\ k.ev = {} BY <1>1 DEF WInv, Between, Shape
  <1>4. e \in SUBSET {"r", "w"} OBVIOUS
  <1> HIDE DEF e
  <1>5. s \in Relay /\ SameUp(k, s) /\ SameDown(k, s) /\ SameSide(k, s) /\ SameLoop(k, s)
    <2>1. k \in Relay BY Found
    <2> QED BY <1>4, <2>1, SetEdge
  <1> HIDE DEF s
  <1>6. InHandler(s, app, srv) BY <1>3, <1>5, Starts DEF SameLoop
  <1>7. Due(s, k.edge)
    <2>1. Due(k, k.ev \cup k.edge) /\ k.ev \cup k.edge = k.edge BY <1>3 DEF Awake
    <2>2. Due(k, k.edge) BY <2>1
    <2> QED BY <1>5, <2>2 DEF Due, Fresh, UpDue, DownDue, Open, SameUp, SameDown, SameSide
  <1>8. Due(r, {}) /\ (Open(r) => Registered(r)) BY <1>2, <1>6, <1>7, Found, DoRemoteDue
  <1>9. Awake(r) BY <1>8, HandlerAwake
  <1>10. InHandler(r, app, srv) BY <1>2, <1>6, DoRemoteLemma
  <1>11. r \in Relay BY <1>10, Fields DEF InHandler, Handling
  <1> DEFINE m == Marked(r)
  <1>12. Awake(m) /\ m \in Relay BY <1>9, <1>11, MarkedAwake
  <1>13. m.st # "none" BY <1>10, MarkedLemma DEF InHandler, Handling
  <1>14. k' = Removed(m) BY <1>2
  <1> HIDE DEF m
  <1> QED BY <1>12, <1>13, <1>14, RemovedAwake

\* Both sides are closed, or the connection was not there.
LEMMA ShutAwake ==
    ASSUME NEW s, NEW t, Fresh(s), t.st = "gone" \/ Kin(s, t), ~t.on \/ ~Open(t)
    PROVE  Awake(t)
  <1>1. Fresh(t) BY KinFresh DEF Fresh
  <1> QED BY <1>1 DEF Awake, Due

LEMMA LoopAwake ==
    WInv /\ Awake(k) /\ (LocalListening \/ LocalNone \/ RemoteNone \/ CheckTimeout \/ Ages) => Awake(k')
  <1> SUFFICES ASSUME WInv, Awake(k), LocalListening \/ LocalNone \/ RemoteNone \/ CheckTimeout \/ Ages
               PROVE  Awake(k')
    OBVIOUS
  <1> DEFINE cut == "cut"
  <1> DEFINE x == CloseLocal(k, cut)
  <1> DEFINE u == CloseRemote(x)
  <1>0. k \in Relay /\ Shape(pc, k) /\ cut \in {"eof", "cut"} /\ Fresh(k) /\ Between(pc, k, app, srv)
    BY Found DEF WInv, Between, Awake
  <1>1. k.on => k.st # "none" BY <1>0 DEF Shape
  <1>2. k.on => u \in Relay /\ Kin(k, u) /\ ~Open(u) /\ u.st # "none"
    <2> SUFFICES ASSUME k.on PROVE u \in Relay /\ Kin(k, u) /\ ~Open(u) /\ u.st # "none" OBVIOUS
    <2>1. InHandler(k, app, srv)
      <3>1. SameUp(k, k) /\ SameDown(k, k) /\ SameSide(k, k) BY DEF SameUp, SameDown, SameSide
      <3> QED BY <1>0, <3>1, Starts
    <2>2. InHandler(x, app, srv) BY <2>1, CutLemma
    <2>3. InHandler(u, app, srv) BY <2>1, BothClosed
    <2>4. x \in Relay /\ u \in Relay /\ u.st # "none" BY <2>2, <2>3, Fields DEF InHandler, Handling
    <2>5. Kin(k, x) BY <1>0, <1>1, CloseLocalKin
    <2> HIDE DEF x
    <2>6. Kin(x, u) /\ ~Open(u) BY <2>4, CloseRemoteKin
    <2> QED BY <2>4, <2>5, <2>6, KinTrans
  <1>3. CASE LocalListening
    <2>1. k' = [(IF k.on THEN u ELSE k) EXCEPT !.ev = {}, !.removed = TRUE] BY <1>3 DEF LocalListening, Loop
    <2> HIDE DEF u
    <2>2. CASE k.on
      <3>1. k' = [u EXCEPT !.ev = {}, !.removed = TRUE] BY <2>1, <2>2
      <3>2. Kin(u, k') /\ ~Open(k') BY <1>2, <2>2, <3>1 DEF Kin, Open, Relay
      <3>3. Kin(k, k') BY <1>2, <2>2, <3>2, KinTrans
      <3> QED BY <1>0, <3>2, <3>3, ShutAwake
    <2>3. CASE ~k.on
      <3>1. k' = [k EXCEPT !.ev = {}, !.removed = TRUE] BY <2>1, <2>3
      <3>2. Kin(k, k') /\ ~k'.on BY <1>0, <2>3, <3>1 DEF Kin, Relay
      <3> QED BY <1>0, <3>2, ShutAwake
    <2> QED BY <2>2, <2>3
  <1>4. CASE LocalNone
    <2>1. k' = k BY <1>4 DEF LocalNone, Loop
    <2> QED BY <2>1
  <1>5. CASE RemoteNone
    <2>1. k' = Removed(k) BY <1>5 DEF RemoteNone, Loop
    <2>2. CASE ~k.removed
      <3>1. k' = k BY <2>1, <2>2 DEF Removed
      <3> QED BY <3>1
    <2>3. CASE k.removed
      <3>1. k'.st = "gone" /\ ~k'.on BY <1>0, <2>1, <2>3 DEF Removed, Relay
      <3> QED BY <1>0, <3>1, ShutAwake
    <2> QED BY <2>2, <2>3
  <1>6. CASE CheckTimeout
    <2> DEFINE m == [u EXCEPT !.removed = TRUE]
    <2>1. k' = Removed(m) /\ k.on BY <1>6 DEF CheckTimeout, Loop
    <2> HIDE DEF u
    <2>2. m \in Relay /\ m.removed BY <1>2, <2>1 DEF Relay
    <2> HIDE DEF m
    <2>3. k'.st = "gone" /\ ~k'.on BY <2>1, <2>2 DEF Removed, Relay
    <2> QED BY <1>0, <2>3, ShutAwake
  <1>7. CASE Ages
    <2> DEFINE n == k.age + 1
    <2>1. k' = PutAge(k, n) /\ k.age < 2 BY <1>7 DEF Ages, PutAge
    <2>2. k.age \in 0 .. 2 BY <1>0 DEF Relay
    <2>3. n \in 0 .. 2 BY <2>1, <2>2
    <2> HIDE DEF n
    <2>4. Alike(k, k') BY <1>0, <2>1, <2>3, SetAge DEF Alike, SameLoop
    <2> QED BY <2>4, AlikeAwake
  <1> QED BY <1>3, <1>4, <1>5, <1>6, <1>7

\* A change of the socket's state fires every waker.
LEMMA StateAwake ==
    ASSUME NEW s \in Relay, Awake(s), NEW x \in States, x \notin {"none", "synrcvd"},
           NEW t, t = SetState(s, x)
    PROVE  Awake(t)
  <1>1. CASE t = s BY <1>1
  <1>2. CASE t # s
    <2>1. /\ t.st = x /\ t.lcl = s.lcl /\ t.ev = s.ev \cup s.wakers /\ t.on = s.on
          /\ t.edge = s.edge /\ SameUp(s, t) /\ SameDown(s, t)
      BY <1>2, SetStateFields
    <2>2. Fresh(t) BY <2>1 DEF Fresh
    <2>3. ASSUME t.on, Open(t)
          PROVE  UpDue(t, t.ev \cup t.edge) /\ DownDue(t, t.ev \cup t.edge) /\ Registered(t)
      <3>1. UpDue(s, s.ev \cup s.edge) /\ DownDue(s, s.ev \cup s.edge) /\ Registered(s)
        BY <2>1, <2>3 DEF Awake, Due, Open, SameUp
      <3>2. Registered(t) BY <2>1, <3>1 DEF Registered, SameUp, SameDown
      <3>3. t.rbuf = Nil => "rx" \in t.ev BY <2>1, <3>1 DEF Registered, SameUp
      <3>4. UpDue(t, t.ev \cup t.edge) BY <2>1, <3>1, <3>3 DEF UpDue, SameUp
      <3>5. DownDue(t, t.ev \cup t.edge) BY <2>1, <3>1 DEF DownDue, SameUp, SameDown
      <3> QED BY <3>2, <3>4, <3>5
    <2> QED BY <2>2, <2>3 DEF Awake, Due
  <1> QED BY <1>1, <1>2

LEMMA StatesAwake == WInv /\ Awake(k) /\ (Ack \/ AppCloses \/ EgressFin \/ TimeWaitEnds) => Awake(k')
  <1> SUFFICES ASSUME WInv, Awake(k), Ack \/ AppCloses \/ EgressFin \/ TimeWaitEnds PROVE Awake(k') OBVIOUS
  <1>0. k \in Relay BY Found
  <1>1. k' = k \/ \E x \in States : x \notin {"none", "synrcvd"} /\ k' = SetState(k, x)
    <2>1. CASE Ack
      <3>1. k' = SetState(k, "est") BY <2>1 DEF Ack, Net
      <3> QED BY <3>1 DEF States
    <2>2. CASE AppCloses
      <3>1. k' = SetState(k, IF k.st = "est" THEN "closewait" ELSE "timewait") BY <2>2 DEF AppCloses, Net
      <3> QED BY <3>1 DEF States
    <2>3. CASE EgressFin
      <3>1. k' = IF k.st = "lastack" THEN SetState(k, "closed") ELSE k BY <2>3 DEF EgressFin, Net
      <3> QED BY <3>1 DEF States
    <2>4. CASE TimeWaitEnds
      <3>1. k' = SetState(k, "closed") BY <2>4 DEF TimeWaitEnds, Net
      <3> QED BY <3>1 DEF States
    <2> QED BY <2>1, <2>2, <2>3, <2>4
  <1>2. CASE k' = k BY <1>2
  <1>3. ASSUME NEW x \in States, x \notin {"none", "synrcvd"}, k' = SetState(k, x) PROVE Awake(k')
    BY <1>0, <1>3, StateAwake
  <1> QED BY <1>1, <1>2, <1>3

LEMMA AppResetsAwake == WInv /\ Awake(k) /\ AppResets => Awake(k')
  <1> SUFFICES ASSUME WInv, Awake(k), AppResets PROVE Awake(k') OBVIOUS
  <1> DEFINE x == IF k.st = "synrcvd" THEN "listen" ELSE "closed"
  <1> DEFINE r == SetState(k, x)
  <1> DEFINE t == k'
  <1>1. IsActive(k) /\ t = PutTx(r, Nil) BY DEF AppResets, Net, PutTx, Nil
  <1>0. k \in Relay /\ Nil \in Seq(Nat) BY Found, EmptySeqNat
  <1>2. x \in States /\ x \notin {"none", "synrcvd"} /\ k.st # x BY <1>1 DEF States, IsActive
  <1> HIDE DEF x
  <1>3. r \in Relay /\ r.st = x /\ (r = k \/ r.ev = k.ev \cup k.wakers) /\ SameUp(k, r) /\ SameDown(k, r) /\ r.lcl = k.lcl /\ r.on = k.on
    BY <1>0, <1>2, SetStateFields
  <1>4. Awake(r) BY <1>0, <1>2, StateAwake
  <1>5. r # k /\ r.ev = k.ev \cup k.wakers BY <1>2, <1>3
  <1> HIDE DEF r, t
  <1>6. /\ t.tx = Nil /\ t.lbuf = r.lbuf /\ t.hs = r.hs /\ t.in = r.in
        /\ t.wakers = r.wakers /\ t.edge = r.edge
        /\ SameUp(r, t) /\ SameSide(r, t) /\ SameLoop(r, t)
    BY <1>0, <1>1, <1>3, SetTx
  <1>7. Fresh(t) BY <1>4, <1>6 DEF Awake, Fresh, SameUp, SameSide
  <1>8. ASSUME t.on, Open(t)
        PROVE  UpDue(t, t.ev \cup t.edge) /\ DownDue(t, t.ev \cup t.edge) /\ Registered(t)
    <2>1. UpDue(r, r.ev \cup r.edge) /\ DownDue(r, r.ev \cup r.edge) /\ Registered(r) /\ Registered(k)
      BY <1>3, <1>4, <1>6, <1>8 DEF Awake, Due, Open, SameUp, SameSide, SameLoop
    <2>2. t.lbuf # Nil => "tx" \in t.ev BY <1>3, <1>5, <1>6, <2>1 DEF Registered, SameDown, SameLoop
    <2>3. UpDue(t, t.ev \cup t.edge) BY <1>6, <2>1 DEF UpDue, SameUp, SameSide, SameLoop
    <2>4. DownDue(t, t.ev \cup t.edge) BY <1>6, <2>1, <2>2 DEF DownDue, SameUp, SameLoop
    <2>5. Registered(t) BY <1>6, <2>1 DEF Registered, SameUp, SameLoop
    <2> QED BY <2>3, <2>4, <2>5
  <1>9. Awake(t) BY <1>7, <1>8 DEF Awake, Due
  <1> QED BY <1>9 DEF t

LEMMA SynAwake == WInv /\ Awake(k) /\ Syn => Awake(k')
  <1> SUFFICES ASSUME WInv, Awake(k), Syn PROVE Awake(k') OBVIOUS
  <1> DEFINE x == "synrcvd"
  <1> DEFINE e == {"tx"}
  <1> DEFINE t == k'
  <1>1. k.st = "none" /\ t = PutSyn(k, x, e) BY DEF Syn, Net, PutSyn
  <1>2. k \in Relay /\ Shape(pc, k) /\ Fresh(k) BY Found DEF WInv, Between, Awake
  <1>3. ~k.on /\ ~k.est /\ k.rx = Nil BY <1>1, <1>2 DEF Shape, Fresh
  <1>4. x \in States /\ e \in SUBSET {"rx", "tx"} BY DEF States
  <1> HIDE DEF x, e, t
  <1>5. /\ t \in Relay /\ t.wakers = k.wakers /\ t.st = x /\ t.ev = e /\ t.on = k.on /\ t.removed = k.removed
        /\ t.edge = k.edge /\ t.lcl = k.lcl /\ t.cause = k.cause /\ SameUp(k, t) /\ SameDown(k, t)
    <2>1. k \in Relay /\ t = PutSyn(k, x, e) BY <1>1, <1>2
    <2> QED BY <1>4, <2>1, SetSyn
  <1>6. Awake(t) BY <1>3, <1>5 DEF Awake, Fresh, SameUp
  <1> QED BY <1>6 DEF t

\* A segment from the application wakes the reader, and room the writer.
LEMMA SocketAwake ==
    ASSUME NEW s \in Relay, NEW r \in Relay, Awake(s), NEW w \in SUBSET {"rx", "tx"}, NEW t, t = Wake(r, w),
           r.wakers = s.wakers, r.edge = s.edge, SameSide(s, r), SameLoop(s, r),
           r.sock = s.sock, r.rbuf = s.rbuf, r.est = s.est, r.rcl = s.rcl,
           r.lbuf = s.lbuf, r.hs = s.hs, r.in = s.in, r.cold = s.cold, r.rend = s.rend,
           r.rx = s.rx \/ ("rx" \in w /\ s.st \notin {"none", "synrcvd"}),
           r.tx = s.tx \/ "tx" \in w
    PROVE  Awake(t)
  <1>1. /\ t.wakers = s.wakers \ w /\ t.ev = s.ev \cup (w \cap s.wakers)
        /\ t.on = s.on /\ t.edge = s.edge /\ SameUp(r, t) /\ SameDown(r, t) /\ SameSide(r, t)
    BY WakeFields DEF SameLoop
  <1>2. Fresh(t) BY <1>1 DEF Awake, Fresh, SameUp, SameSide
  <1>3. ASSUME t.on, Open(t)
        PROVE  UpDue(t, t.ev \cup t.edge) /\ DownDue(t, t.ev \cup t.edge) /\ Registered(t)
    <2>1. UpDue(s, s.ev \cup s.edge) /\ DownDue(s, s.ev \cup s.edge) /\ Registered(s)
      BY <1>1, <1>3 DEF Awake, Due, Open, SameUp, SameSide
    <2>2. Registered(t) BY <1>1, <2>1 DEF Registered, SameUp, SameDown
    <2>3. t.rbuf = Nil /\ "rx" \in w => "rx" \in t.ev BY <1>1, <2>1 DEF Registered, SameUp
    <2>4. t.lbuf # Nil /\ "tx" \in w => "tx" \in t.ev BY <1>1, <2>1 DEF Registered, SameDown
    <2>5. UpDue(t, t.ev \cup t.edge) BY <1>1, <2>1, <2>3 DEF UpDue, SameUp, SameSide
    <2>6. DownDue(t, t.ev \cup t.edge) BY <1>1, <2>1, <2>4 DEF DownDue, SameUp, SameDown
    <2> QED BY <2>2, <2>5, <2>6
  <1> QED BY <1>2, <1>3 DEF Awake, Due

LEMMA AppSendsAwake == WInv /\ Awake(k) /\ AppSends => Awake(k')
  <1> SUFFICES ASSUME WInv, Awake(k), AppSends PROVE Awake(k') OBVIOUS
  <1> DEFINE q == Append(k.rx, app.out + 1)
  <1> DEFINE r == PutRx(k, q)
  <1> DEFINE w == {"rx"}
  <1> DEFINE t == k'
  <1>1. k.st \in {"est", "finwait"} /\ t = Wake(r, w) BY DEF AppSends, Net, PutRx
  <1>2. k \in Relay /\ k.rx \in Seq(Nat) /\ app.out \in Nat
    <2>1. Good(k) /\ Peers(app, srv) BY DEF WInv, Between, Valid
    <2> QED BY <2>1, Fields, PeerFields
  <1>3. q \in Seq(Nat) BY <1>2
  <1>4. w \in SUBSET {"rx", "tx"} /\ "rx" \in w OBVIOUS
  <1> HIDE DEF q, w, t
  <1>5. /\ r \in Relay /\ r.wakers = k.wakers /\ r.sock = k.sock /\ r.rbuf = k.rbuf
        /\ r.edge = k.edge /\ SameBut(k, r)
    BY <1>2, <1>3, SetRx
  <1> HIDE DEF r
  <1>6. Awake(t) BY <1>1, <1>2, <1>4, <1>5, SocketAwake DEF SameBut, SameDown
  <1> QED BY <1>6 DEF t

LEMMA EgressAwake == WInv /\ Awake(k) /\ Egress => Awake(k')
  <1> SUFFICES ASSUME WInv, Awake(k), Egress PROVE Awake(k') OBVIOUS
  <1> DEFINE q == Tail(k.tx)
  <1> DEFINE r == PutTx(k, q)
  <1> DEFINE w == {"tx"}
  <1> DEFINE t == k'
  <1>1. k.tx # <<>> /\ t = Wake(r, w) BY DEF Egress, Net, PutTx
  <1>2. k \in Relay /\ k.tx \in Seq(Nat)
    <2>1. Good(k) BY DEF WInv, Between, Valid
    <2> QED BY <2>1, Fields
  <1>3. q \in Seq(Nat) BY <1>1, <1>2
  <1>4. w \in SUBSET {"rx", "tx"} /\ "tx" \in w OBVIOUS
  <1> HIDE DEF q, w, t
  <1>5. /\ r \in Relay /\ r.lbuf = k.lbuf /\ r.hs = k.hs /\ r.in = k.in /\ r.wakers = k.wakers
        /\ r.edge = k.edge /\ SameUp(k, r) /\ SameSide(k, r) /\ SameLoop(k, r)
    BY <1>2, <1>3, SetTx
  <1> HIDE DEF r
  <1>6. Awake(t) BY <1>1, <1>2, <1>4, <1>5, SocketAwake DEF SameUp
  <1> QED BY <1>6 DEF t

\* What arrives from the server, and room in the kernel's buffer, raise an edge.
LEMMA ServerAwake ==
    ASSUME NEW s, NEW t, Awake(s), SameSide(s, t), SameLoop(s, t), t.wakers = s.wakers,
           t.est = s.est, t.rcl = s.rcl, t.rx = s.rx, t.rbuf = s.rbuf, t.tx = s.tx, t.lbuf = s.lbuf, t.hs = s.hs,
           s.edge \subseteq t.edge,
           s.on /\ ~s.rcl => /\ t.sock = s.sock \/ "w" \in t.edge
                             /\ t.in = s.in \/ "r" \in t.edge
                             /\ ~s.est /\ s.hs => t.in = s.in \/ t.in = Nil
                             /\ ~s.est /\ ~s.lcl => (t.cold = s.cold /\ t.rend = s.rend) \/ "w" \in t.edge
    PROVE  Awake(t)
  <1>1. Fresh(t) BY DEF Awake, Fresh, SameSide
  <1>2. ASSUME t.on, Open(t)
        PROVE  UpDue(t, t.ev \cup t.edge) /\ DownDue(t, t.ev \cup t.edge) /\ Registered(t)
    <2>1. s.on /\ Open(s) BY <1>2 DEF Open, SameSide, SameLoop
    <2>2. UpDue(s, s.ev \cup s.edge) /\ DownDue(s, s.ev \cup s.edge) /\ Registered(s)
      BY <2>1 DEF Awake, Due
    <2>3. Registered(t) BY <2>2 DEF Registered, SameLoop
    <2>4. UpDue(t, t.ev \cup t.edge) BY <2>1, <2>2 DEF UpDue, Open, SameSide, SameLoop
    <2>5. DownDue(t, t.ev \cup t.edge) BY <2>1, <2>2 DEF DownDue, Open, SameLoop
    <2> QED BY <2>3, <2>4, <2>5
  <1> QED BY <1>1, <1>2 DEF Awake, Due

LEMMA TcpConnectsAwake == WInv /\ Awake(k) /\ TcpConnects => Awake(k')
  <1> SUFFICES ASSUME WInv, Awake(k), TcpConnects PROVE Awake(k') OBVIOUS
  <1> DEFINE e == k.edge \cup {"w"}
  <1> DEFINE t == k'
  <1>1. t = PutEdge(k, e) BY DEF TcpConnects, Remote, PutEdge
  <1>2. k \in Relay /\ k.edge \subseteq {"r", "w"} BY Found
  <1>3. e \in SUBSET {"r", "w"} /\ k.edge \subseteq e BY <1>2
  <1> HIDE DEF e, t
  <1>4. /\ t.wakers = k.wakers /\ t.edge = e
        /\ SameUp(k, t) /\ SameDown(k, t) /\ SameSide(k, t) /\ SameLoop(k, t)
    BY <1>1, <1>2, <1>3, SetEdge
  <1>5. Awake(t) BY <1>3, <1>4, ServerAwake DEF SameUp, SameDown
  <1> QED BY <1>5 DEF t

LEMMA ArrivesAwake == WInv /\ Awake(k) /\ (HelloArrives \/ ServerSends) => Awake(k')
  <1> SUFFICES ASSUME WInv, Awake(k), HelloArrives \/ ServerSends PROVE Awake(k') OBVIOUS
  <1> DEFINE e == k.edge \cup {"r"}
  <1> DEFINE t == k'
  <1>1. k \in Relay /\ k.in \in Seq(Nat) /\ srv.out \in Nat /\ Early(k, srv) /\ k.edge \subseteq {"r", "w"}
    <2>1. Good(k) /\ Peers(app, srv) /\ Flow(k, app, srv) BY DEF WInv, Between, Valid
    <2> QED BY <2>1, Fields, PeerFields DEF Flow
  <1>2. PICK q \in Seq(Nat) : t = PutIn(k, q, e) /\ (~k.hs \/ k.est)
    <2>1. CASE HelloArrives BY <2>1, HelloSeq DEF HelloArrives, Remote, PutIn
    <2>2. CASE ServerSends
      <3>1. k.est BY <1>1, <2>2 DEF ServerSends, Early, Nil
      <3>2. Append(k.in, srv.out + 1) \in Seq(Nat) BY <1>1
      <3> QED BY <2>2, <3>1, <3>2 DEF ServerSends, Remote, PutIn
    <2> QED BY <2>1, <2>2
  <1>3. e \in SUBSET {"r", "w"} /\ "r" \in e /\ k.edge \subseteq e BY <1>1
  <1> HIDE DEF e, t
  <1>4. /\ t.wakers = k.wakers /\ t.edge = e /\ t.tx = k.tx /\ t.lbuf = k.lbuf /\ t.hs = k.hs
        /\ SameUp(k, t) /\ SameSide(k, t) /\ SameLoop(k, t)
    <2>1. k \in Relay /\ q \in Seq(Nat) /\ e \in SUBSET {"r", "w"} /\ t = PutIn(k, q, e) BY <1>1, <1>2, <1>3
    <2> QED BY <2>1, SetIn
  <1>5. Awake(t) BY <1>2, <1>3, <1>4, ServerAwake DEF SameUp
  <1> QED BY <1>5 DEF t

LEMMA EndsAwake == WInv /\ Awake(k) /\ (ServerCloses \/ ServerResets) => Awake(k')
  <1> SUFFICES ASSUME WInv, Awake(k), ServerCloses \/ ServerResets PROVE Awake(k') OBVIOUS
  <1> DEFINE t == k'
  <1>0. k \in Relay /\ k.edge \subseteq {"r", "w"} BY Found
  <1>1. CASE ServerCloses
    <2> DEFINE x == "fin"
    <2> DEFINE e == k.edge \cup {"r"}
    <2>1. t = PutRend(k, x, e) /\ k.on /\ ~k.rcl /\ k.rend = "open" /\ (k.cold => "w" \in k.edge)
      BY <1>1 DEF ServerCloses, Remote, PutRend
    <2>a. ~k.est /\ ~k.lcl => "w" \in k.edge
      <3>1. ~k.est /\ ~k.lcl => k.cold \/ "w" \in k.ev \cup k.edge BY <2>1 DEF Awake, Due, Open, UpDue
      <3>2. "w" \notin k.ev BY Found
      <3> QED BY <2>1, <3>1, <3>2
    <2>2. x \in {"open", "fin", "rst"} /\ e \in SUBSET {"r", "w"} /\ k.edge \subseteq e BY <1>0
    <2> HIDE DEF x, e, t
    <2>3. /\ t.wakers = k.wakers /\ t.edge = e /\ t.sock = k.sock /\ t.rbuf = k.rbuf /\ t.rx = k.rx
          /\ t.est = k.est /\ t.rcl = k.rcl /\ SameDown(k, t) /\ SameSide(k, t) /\ SameLoop(k, t)
      BY <1>0, <2>1, <2>2, SetRend
    <2>4. Awake(t) BY <2>2, <2>3, <2>a, ServerAwake DEF SameDown
    <2> QED BY <2>4 DEF t
  <1>2. CASE ServerResets
    <2> DEFINE x == "rst"
    <2> DEFINE e == {"r", "w"}
    <2>1. t = PutReset(k, x, Nil, e) BY <1>2 DEF ServerResets, Remote, PutReset, Nil
    <2>2. /\ x \in {"open", "fin", "rst"} /\ e \in SUBSET {"r", "w"} /\ k.edge \subseteq e
          /\ "r" \in e /\ "w" \in e
      BY <1>0
    <2>a. Nil \in Seq(Nat) BY EmptySeqNat
    <2> HIDE DEF x, e, t
    <2>3. /\ t.wakers = k.wakers /\ t.edge = e /\ t.in = Nil /\ t.rbuf = k.rbuf /\ t.rx = k.rx
          /\ t.est = k.est /\ t.rcl = k.rcl /\ t.tx = k.tx /\ t.lbuf = k.lbuf /\ t.hs = k.hs
          /\ SameSide(k, t) /\ SameLoop(k, t)
      <3>1. k \in Relay /\ t = PutReset(k, x, Nil, e) BY <1>0, <2>1
      <3> QED BY <2>2, <2>a, <3>1, SetReset
    <2>4. Awake(t) BY <2>2, <2>3, ServerAwake
    <2> QED BY <2>4 DEF t
  <1> QED BY <1>1, <1>2

LEMMA GetsAwake == WInv /\ Awake(k) /\ ServerGets => Awake(k')
  <1> SUFFICES ASSUME WInv, Awake(k), ServerGets PROVE Awake(k') OBVIOUS
  <1> DEFINE q == Tail(k.sock)
  <1> DEFINE e == IF k.on /\ ~k.rcl THEN k.edge \cup {"w"} ELSE k.edge
  <1> DEFINE t == k'
  <1>1. k.sock # <<>> /\ t = PutSock(k, q, e) BY DEF ServerGets, PutSock
  <1>2. k \in Relay /\ k.sock \in Seq(Nat) /\ k.edge \subseteq {"r", "w"}
    <2>1. Good(k) BY DEF WInv, Between, Valid
    <2> QED BY <2>1, Fields
  <1>3. q \in Seq(Nat) BY <1>1, <1>2
  <1>4. e \in SUBSET {"r", "w"} /\ k.edge \subseteq e /\ (k.on /\ ~k.rcl => "w" \in e) BY <1>2
  <1> HIDE DEF q, e, t
  <1>5. /\ t.edge = e /\ t.rbuf = k.rbuf /\ t.rx = k.rx /\ t.wakers = k.wakers /\ SameBut(k, t)
    BY <1>1, <1>2, <1>3, <1>4, SetSock
  <1>6. Awake(t) BY <1>4, <1>5, ServerAwake DEF SameBut, SameDown
  <1> QED BY <1>6 DEF t

LEMMA NextAwake == WInv /\ Awake(k) /\ [Next]_vars => Awake(k')
  <1> SUFFICES ASSUME WInv, Awake(k), [Next]_vars PROVE Awake(k') OBVIOUS
  <1>1. CASE Next
    BY <1>1, LocalNewAwake, LocalEventsAwake, RemoteEventsAwake, LoopAwake, StatesAwake, AppResetsAwake,
       SynAwake, AppSendsAwake, EgressAwake, TcpConnectsAwake, ArrivesAwake, EndsAwake, GetsAwake
    DEF Next, LoopStep, NetStep
  <1>2. CASE UNCHANGED vars
    <2>1. k' = k BY <1>2 DEF vars
    <2> QED BY <2>1
  <1> QED BY <1>1, <1>2

LEMMA InitAwake == Init => Awake(k)
  BY DEF Init, Awake, Fresh, Nil

LEMMA AwakeLemma == WInv /\ Awake(k) => NoStall
  <1> SUFFICES ASSUME WInv, Awake(k), k.on, ~k.lcl, ~k.rcl
               PROVE  IF ~k.est THEN (k.cold /\ k.rend = "open") \/ "w" \in k.edge ELSE
                      /\ (k.rx # <<>> \/ k.st = "closewait") => k.ev # {} \/ k.edge # {} \/ k.rbuf # <<>>
                      /\ k.rbuf # <<>> => k.sock # <<>> \/ "w" \in k.edge
                      /\ k.rx = <<>> /\ k.rbuf = <<>> /\ k.st = "est" => "rx" \in k.wakers \/ k.ev # {}
                      /\ k.lbuf # <<>> => ("tx" \in k.wakers /\ k.tx # <<>>) \/ k.ev # {} \/ k.edge # {}
                      /\ k.in # <<>> => "r" \in k.edge \/ k.lbuf # <<>>
    BY DEF NoStall
  <1> DEFINE P == k.ev \cup k.edge
  <1>0. k.ev \subseteq {"rx", "tx"} /\ "w" \notin k.ev /\ "r" \notin k.ev BY Found
  <1>1. UpDue(k, P) /\ DownDue(k, P) /\ Registered(k) BY DEF Awake, Due, Open
  <1>2. ("w" \in P <=> "w" \in k.edge) /\ ("r" \in P <=> "r" \in k.edge) BY <1>0
  <1>3. \A y : y \in P => k.ev # {} \/ k.edge # {} OBVIOUS
  <1>4. \A y : y \in k.wakers \cup k.ev => y \in k.wakers \/ k.ev # {} OBVIOUS
  <1> HIDE DEF P
  <1>5. k.est /\ (k.rx # <<>> \/ k.st = "closewait") => k.ev # {} \/ k.edge # {} \/ k.rbuf # <<>>
    BY <1>1, <1>3 DEF UpDue, Nil
  <1>6. k.rbuf # <<>> => k.sock # <<>> \/ "w" \in k.edge BY <1>1, <1>2 DEF UpDue, Nil
  <1>7. k.rbuf = <<>> => "rx" \in k.wakers \/ k.ev # {} BY <1>1, <1>4 DEF Registered, Nil
  <1>8. k.lbuf # <<>> => ("tx" \in k.wakers /\ k.tx # <<>>) \/ k.ev # {} \/ k.edge # {}
    BY <1>1, <1>3, <1>4 DEF DownDue, Registered, Nil
  <1>9. k.in # <<>> => "r" \in k.edge \/ k.lbuf # <<>> BY <1>1, <1>2 DEF DownDue, Nil
  <1>10. ~k.est => (k.cold /\ k.rend = "open") \/ "w" \in k.edge BY <1>1, <1>2 DEF UpDue
  <1> QED BY <1>10, <1>5, <1>6, <1>7, <1>8, <1>9

\* No wake-up is lost in an open connection, whatever the order in which the
\* socket's wakers fire, epoll's edges come and the handlers block: a unit that
\* does not fit waits for room that is going to be reported, what has arrived and
\* what has ended is going to be read, and the wakers, which smoltcp fires once,
\* are registered again before the handler returns.
THEOREM TcpNoLostWakeUp == MCSpec => []NoStall
<1>1. MCInit => WInv /\ Awake(k) BY TcpPart, InitInv, InitAwake
<1>2. WInv /\ Awake(k) /\ [MCNext]_all => WInv' /\ Awake(k)'
  <2> SUFFICES ASSUME WInv, Awake(k), [MCNext]_all PROVE WInv' /\ Awake(k)' OBVIOUS
  <2>1. WInv' BY TcpPart, NextPiped DEF Piped
  <2>2. Awake(k') BY TcpPart, NextAwake
  <2> QED BY <2>1, <2>2 DEF Awake, Fresh, Due, Open, UpDue, DownDue, Registered
<1> QED BY <1>1, <1>2, AwakeLemma, PTL DEF MCSpec

-----------------------------------------------------------------------------
(* UDP: a connection keeps its source and its socket *)

Users(cs, t) == {tok \in DOMAIN cs : cs[tok].local = t}

\* Tokens and types of the connections.
ConnsOK(cs, n) ==
    /\ n \in Nat /\ DOMAIN cs \subseteq 1 .. n
    /\ \A tok \in DOMAIN cs : cs[tok] \in U!UdpConn

\* The sockets count their connections.
Counted(cs, hs) ==
    /\ \A tok \in DOMAIN cs : cs[tok].local \in DOMAIN hs
    /\ \A t \in DOMAIN hs : /\ hs[t] \in [refs: Nat, old: BOOLEAN]
                            /\ hs[t].refs = Cardinality(Users(cs, t))

\* addr2conns and token2conns are one relation.
Named(cs, by) ==
    /\ DOMAIN by = Sources
    /\ \A s \in Sources : by[s] # U!Nobody => by[s] \in DOMAIN cs /\ cs[by[s]].src = s
    /\ \A tok \in DOMAIN cs : by[cs[tok].src] = tok

\* Connections that are closed are to be removed, in this round.
Swept(cs, gone) == \A tok \in DOMAIN cs : cs[tok].rclosed => tok \in gone

Sockets(hs, es, ws, qs) ==
    /\ DOMAIN hs \cup es \cup ws \subseteq DOMAIN qs
    /\ \A t \in DOMAIN qs : qs[t] \in Seq(Sources)

UInv ==
    /\ at \in {"net", "local", "poll"} /\ cur \in Targets \cup {U!Nobody}
    /\ ConnsOK(conns, counts.made) /\ counts.made <= MaxConns
    /\ Counted(conns, handles) /\ Named(conns, byAddr) /\ Swept(conns, removed)
    /\ Sockets(handles, events, waiting, rx)
    /\ at = "net" => removed = {}
    /\ cur # U!Nobody => at = "local" /\ cur \in DOMAIN handles

\* d is c after some method.
Keeps(c, d) == d \in U!UdpConn /\ d.src = c.src /\ d.local = c.local

LEMMA KeepsTrans == ASSUME NEW a, NEW b, NEW c, Keeps(a, b), Keeps(b, c) PROVE Keeps(a, c)
  BY DEF Keeps
LEMMA KeepsSelf == ASSUME NEW c \in U!UdpConn PROVE Keeps(c, c)
  BY DEF Keeps

\* What the fields of a connection may be set to.
LEMMA SetClosed ==
    ASSUME NEW c \in U!UdpConn, NEW b \in BOOLEAN, NEW e \in SUBSET {"r", "w"}
    PROVE  Keeps(c, [c EXCEPT !.rclosed = b, !.edge = e])
  BY DEF Keeps, U!UdpConn
LEMMA SetBuffers ==
    ASSUME NEW c \in U!UdpConn, NEW x \in 0 .. UdpSess, NEW y \in 0 .. UdpSock
    PROVE  Keeps(c, [c EXCEPT !.sess = x, !.sock = y])
  BY DEF Keeps, U!UdpConn
PutWritten(c, x, y, d) == [c EXCEPT !.sess = x, !.sock = y, !.due = d]
LEMMA SetWritten ==
    ASSUME NEW c \in U!UdpConn, NEW x \in 0 .. UdpSess, NEW y \in 0 .. UdpSock, NEW d \in Nat
    PROVE  Keeps(c, PutWritten(c, x, y, d))
  BY DEF Keeps, U!UdpConn, PutWritten
LEMMA SetCache ==
    ASSUME NEW c \in U!UdpConn, NEW n \in Nat, NEW d \in Nat
    PROVE  /\ Keeps(c, [c EXCEPT !.rbuf = n]) /\ Keeps(c, [c EXCEPT !.rbuf = n, !.due = d])
           /\ Keeps(c, [c EXCEPT !.due = d])
  BY DEF Keeps, U!UdpConn
LEMMA SetFlags ==
    ASSUME NEW c \in U!UdpConn, NEW b \in BOOLEAN
    PROVE  /\ Keeps(c, [c EXCEPT !.hs = b]) /\ Keeps(c, [c EXCEPT !.silent = b])
  BY DEF Keeps, U!UdpConn
LEMMA SetEdges ==
    ASSUME NEW c \in U!UdpConn, NEW e \in SUBSET {"r", "w"}, NEW y \in 0 .. UdpSock,
           NEW h \in {"open", "fin", "rst"}
    PROVE  /\ Keeps(c, [c EXCEPT !.edge = e]) /\ Keeps(c, [c EXCEPT !.sock = y, !.edge = e])
           /\ Keeps(c, [c EXCEPT !.rend = h, !.edge = e])
  BY DEF Keeps, U!UdpConn
LEMMA ConnFields ==
    ASSUME NEW c \in U!UdpConn
    PROVE  /\ c.sess \in 0 .. UdpSess /\ c.sock \in 0 .. UdpSock /\ c.due \in Nat /\ c.rbuf \in Nat
           /\ c.edge \in SUBSET {"r", "w"} /\ c.hs \in BOOLEAN /\ c.src \in Sources /\ c.local \in Targets
  BY DEF U!UdpConn

LEMMA CloseKeeps == ASSUME NEW c \in U!UdpConn PROVE Keeps(c, U!CloseRemoteUdp(c))
  BY SetClosed, KeepsSelf DEF U!CloseRemoteUdp

LEMMA LessNat ==
    ASSUME NEW a \in Nat, NEW b \in Nat
    PROVE  U!Less(a, b) \in Nat /\ U!Less(a, b) <= a /\ U!Less(a, b) <= b
           /\ (U!Less(a, b) = a \/ U!Less(a, b) = b)
  BY DEF U!Less

LEMMA WriteTlsKeeps == ASSUME NEW c \in U!UdpConn PROVE Keeps(c, U!WriteTls(c))
  <1> DEFINE n == IF c.hs THEN U!Less(c.sess, UdpSock - c.sock) ELSE 0
  <1>1. c.sess \in 0 .. UdpSess /\ c.sock \in 0 .. UdpSock /\ UdpSess \in Nat /\ UdpSock \in Nat
    BY ConnFields, UdpAssumption
  <1>2. c.sess \in Nat /\ UdpSock - c.sock \in Nat BY <1>1
  <1>3. n \in Nat /\ n <= c.sess /\ n <= UdpSock - c.sock BY <1>2, LessNat
  <1>4. U!WriteTls(c) = [c EXCEPT !.sess = c.sess - n, !.sock = c.sock + n] BY DEF U!WriteTls
  <1> HIDE DEF n
  <1>5. c.sess - n \in 0 .. UdpSess /\ c.sock + n \in 0 .. UdpSock BY <1>1, <1>3
  <1> QED BY <1>4, <1>5, SetBuffers

LEMMA FlushKeeps == ASSUME NEW c \in U!UdpConn PROVE Keeps(c, U!FlushRemoteUdp(c))
  BY CloseKeeps, WriteTlsKeeps DEF U!FlushRemoteUdp

\* A loop over write takes no more than there is room for.
LEMMA TakenNat ==
    ASSUME NEW c \in U!UdpConn, NEW n \in Nat
    PROVE  /\ U!Taken(c, n) \in Nat /\ U!Taken(c, n) <= n
           /\ U!Taken(c, n) <= UdpSess - c.sess + (IF c.hs THEN UdpSock - c.sock ELSE 0)
  <1> DEFINE room == UdpSess - c.sess + (IF c.hs THEN UdpSock - c.sock ELSE 0)
  <1>1. c.sess \in 0 .. UdpSess /\ c.sock \in 0 .. UdpSock /\ UdpSess \in Nat /\ UdpSock \in Nat
    BY ConnFields, UdpAssumption
  <1>2. room \in Nat BY <1>1
  <1>3. U!Taken(c, n) = U!Less(n, room) BY DEF U!Taken
  <1> HIDE DEF room
  <1>4. U!Taken(c, n) \in Nat /\ U!Taken(c, n) <= n /\ U!Taken(c, n) <= room BY <1>2, <1>3, LessNat
  <1> QED BY <1>4 DEF room

LEMMA WrittenKeeps ==
    ASSUME NEW c \in U!UdpConn, NEW n \in Nat,
           n <= UdpSess - c.sess + (IF c.hs THEN UdpSock - c.sock ELSE 0)
    PROVE  Keeps(c, U!Written(c, n))
  <1> DEFINE m == IF c.hs THEN U!Less(c.sess + n, UdpSock - c.sock) ELSE 0
  <1> DEFINE d == c.due - U!Less(n, c.due)
  <1>1. c.sess \in 0 .. UdpSess /\ c.sock \in 0 .. UdpSock /\ UdpSess \in Nat /\ UdpSock \in Nat /\ c.due \in Nat
    BY ConnFields, UdpAssumption
  <1>2. c.sess + n \in Nat /\ UdpSock - c.sock \in Nat BY <1>1
  <1>3. /\ m \in Nat /\ (c.hs => m <= c.sess + n /\ m <= UdpSock - c.sock)
        /\ c.hs => m = c.sess + n \/ m = UdpSock - c.sock
        /\ ~c.hs => m = 0
    BY <1>2, LessNat
  <1>4. d \in Nat
    <2> DEFINE l == U!Less(n, c.due)
    <2>1. l \in Nat /\ l <= c.due BY <1>1, LessNat
    <2> HIDE DEF l
    <2>2. c.due - l \in Nat BY <1>1, <2>1
    <2> QED BY <2>2 DEF l
  <1> DEFINE x == c.sess + n - m
  <1> DEFINE y == c.sock + m
  <1>5. U!Written(c, n) = PutWritten(c, x, y, d)
    BY DEF U!Written, PutWritten
  <1> HIDE DEF m, d
  <1>6. x \in 0 .. UdpSess /\ y \in 0 .. UdpSock
    <2>1. CASE c.hs BY <1>1, <1>3, <2>1
    <2>2. CASE ~c.hs BY <1>1, <1>3, <2>2
    <2> QED BY <2>1, <2>2
  <1> HIDE DEF x, y
  <1> QED BY <1>4, <1>5, <1>6, SetWritten

LEMMA CacheNat ==
    ASSUME NEW n \in Nat, n <= HeaderLen + BodyLen
    PROVE  U!CacheOf(n) \in Nat
  BY UdpAssumption DEF U!CacheOf

LEMMA SendFrameKeeps ==
    ASSUME NEW c \in U!UdpConn, NEW len \in {0, HeaderLen + BodyLen}
    PROVE  Keeps(c, U!SendFrame(c, len))
  <1> DEFINE n == U!Taken(c, len)
  <1> DEFINE b == [c EXCEPT !.due = c.due + len]
  <1> DEFINE w == U!Written(b, n)
  <1> DEFINE x == IF len = 0 THEN 0 ELSE U!CacheOf(n)
  <1> DEFINE z == [w EXCEPT !.rbuf = x]
  <1>0. len \in Nat BY UdpAssumption
  <1>1. /\ n \in Nat /\ n <= len
        /\ n <= UdpSess - c.sess + (IF c.hs THEN UdpSock - c.sock ELSE 0)
    BY <1>0, TakenNat
  <1>2. c.due + len \in Nat BY <1>0, ConnFields
  <1>3. Keeps(c, b) /\ b.sess = c.sess /\ b.sock = c.sock /\ b.hs = c.hs
    BY <1>2, SetCache DEF U!UdpConn
  <1> HIDE DEF n, b
  <1>4. b \in U!UdpConn BY <1>3 DEF Keeps
  <1>5. Keeps(b, w) BY <1>1, <1>3, <1>4, WrittenKeeps
  <1>6. Keeps(c, w) /\ w \in U!UdpConn BY <1>3, <1>5, KeepsTrans DEF Keeps
  <1>7. x \in Nat
    <2>1. len # 0 => len = HeaderLen + BodyLen OBVIOUS
    <2> QED BY <1>1, <2>1, CacheNat
  <1>8. U!SendFrame(c, len) \in {U!CloseRemoteUdp(w), U!FlushRemoteUdp(z)}
    BY DEF U!SendFrame, n, b
  <1> HIDE DEF w, x
  <1>9. Keeps(w, z) BY <1>6, <1>7, SetCache
  <1>10. z \in U!UdpConn BY <1>9 DEF Keeps
  <1> HIDE DEF z
  <1>11. Keeps(c, U!CloseRemoteUdp(w)) BY <1>6, CloseKeeps, KeepsTrans
  <1>12. Keeps(z, U!FlushRemoteUdp(z)) BY <1>10, FlushKeeps
  <1>13. Keeps(c, U!FlushRemoteUdp(z)) BY <1>6, <1>9, <1>12, KeepsTrans
  <1> QED BY <1>8, <1>11, <1>13

LEMMA LocalToRemoteKeeps ==
    ASSUME NEW c \in U!UdpConn, NEW len \in {0, HeaderLen + BodyLen}
    PROVE  Keeps(c, U!LocalToRemoteUdp(c, len))
  <1> DEFINE n == U!Taken(c, c.rbuf)
  <1> DEFINE w == U!Written(c, n)
  <1>1. c.rbuf \in Nat BY ConnFields
  <1>2. /\ n \in Nat /\ n <= c.rbuf
        /\ n <= UdpSess - c.sess + (IF c.hs THEN UdpSock - c.sock ELSE 0)
    BY <1>1, TakenNat
  <1> HIDE DEF n
  <1>3. Keeps(c, w) /\ w \in U!UdpConn BY <1>2, WrittenKeeps DEF Keeps
  <1>4. w.rbuf = c.rbuf BY <1>2 DEF U!Written, U!UdpConn
  <1>5. U!LocalToRemoteUdp(c, len) \in
            { U!SendFrame([w EXCEPT !.rbuf = 0], len), U!FlushRemoteUdp([w EXCEPT !.rbuf = w.rbuf - n]),
              U!CloseRemoteUdp([w EXCEPT !.rbuf = 0]) }
    BY DEF U!LocalToRemoteUdp, n
  <1>6. w.rbuf - n \in Nat BY <1>1, <1>2, <1>4
  <1> HIDE DEF w
  <1> DEFINE x == [w EXCEPT !.rbuf = 0]
  <1> DEFINE y == [w EXCEPT !.rbuf = w.rbuf - n]
  <1>7. Keeps(w, x) /\ Keeps(w, y) BY <1>3, <1>6, SetCache
  <1>8. x \in U!UdpConn /\ y \in U!UdpConn BY <1>7 DEF Keeps
  <1>9. U!LocalToRemoteUdp(c, len) \in {U!SendFrame(x, len), U!FlushRemoteUdp(y), U!CloseRemoteUdp(x)} BY <1>5
  <1> HIDE DEF x, y
  <1>10. Keeps(x, U!SendFrame(x, len)) /\ Keeps(y, U!FlushRemoteUdp(y)) /\ Keeps(x, U!CloseRemoteUdp(x))
    BY <1>8, SendFrameKeeps, FlushKeeps, CloseKeeps
  <1>11. Keeps(c, x) /\ Keeps(c, y) BY <1>3, <1>7, KeepsTrans
  <1>12. Keeps(c, U!SendFrame(x, len)) /\ Keeps(c, U!FlushRemoteUdp(y)) /\ Keeps(c, U!CloseRemoteUdp(x))
    BY <1>10, <1>11, KeepsTrans
  <1> QED BY <1>9, <1>12

LEMMA DoLocalKeeps == ASSUME NEW c \in U!UdpConn PROVE Keeps(c, U!DoLocalUdp(c))
  <1> DEFINE len == HeaderLen + BodyLen
  <1>1. len \in Nat BY UdpAssumption
  <1>2. Keeps(c, U!CloseRemoteUdp(c)) /\ Keeps(c, c) /\ Keeps(c, U!LocalToRemoteUdp(c, len))
    BY CloseKeeps, KeepsSelf, LocalToRemoteKeeps
  <1>3. Keeps(c, [c EXCEPT !.rbuf = len, !.due = len]) BY <1>1, SetCache
  <1>4. U!DoLocalUdp(c) \in {U!CloseRemoteUdp(c), c, U!LocalToRemoteUdp(c, len), [c EXCEPT !.rbuf = len, !.due = len]}
    BY DEF U!DoLocalUdp
  <1> HIDE DEF len
  <1> QED BY <1>2, <1>3, <1>4

LEMMA RemoteToLocalKeeps == ASSUME NEW c \in U!UdpConn PROVE Keeps(c, U!RemoteToLocalUdp(c))
  BY CloseKeeps, SetFlags DEF U!RemoteToLocalUdp

LEMMA DoRemoteKeeps == ASSUME NEW c \in U!UdpConn, NEW e PROVE Keeps(c, U!DoRemoteUdp(c, e))
  <1> DEFINE a == [c EXCEPT !.silent = FALSE]
  <1> DEFINE x == [a EXCEPT !.est = TRUE, !.cold = FALSE]
  <1> DEFINE b == IF "w" \in e THEN U!LocalToRemoteUdp(x, 0) ELSE a
  <1> DEFINE d == IF "r" \in e THEN U!FlushRemoteUdp(U!RemoteToLocalUdp(b)) ELSE b
  <1>0. d = U!DoRemoteUdp(c, e) BY DEF U!DoRemoteUdp
  <1>1. Keeps(c, a) /\ a \in U!UdpConn BY SetFlags DEF Keeps
  <1> HIDE DEF a
  <1>2. Keeps(c, x) /\ x \in U!UdpConn
    <2>1. Keeps(a, x) BY <1>1 DEF Keeps, U!UdpConn
    <2> QED BY <1>1, <2>1, KeepsTrans DEF Keeps
  <1> HIDE DEF x
  <1>3. Keeps(c, b) /\ b \in U!UdpConn
    <2>1. Keeps(x, U!LocalToRemoteUdp(x, 0)) BY <1>2, LocalToRemoteKeeps
    <2>2. Keeps(c, U!LocalToRemoteUdp(x, 0)) BY <1>2, <2>1, KeepsTrans
    <2> QED BY <1>1, <2>2 DEF Keeps
  <1> HIDE DEF b
  <1>4. Keeps(c, d)
    <2> DEFINE r == U!RemoteToLocalUdp(b)
    <2>1. Keeps(b, r) BY <1>3, RemoteToLocalKeeps
    <2>2. r \in U!UdpConn BY <2>1 DEF Keeps
    <2> HIDE DEF r
    <2>3. Keeps(r, U!FlushRemoteUdp(r)) BY <2>2, FlushKeeps
    <2>4. Keeps(c, U!FlushRemoteUdp(r)) BY <1>3, <2>1, <2>3, KeepsTrans
    <2>5. Keeps(c, U!FlushRemoteUdp(U!RemoteToLocalUdp(b))) BY <2>4 DEF r
    <2> QED BY <1>3, <2>5
  <1> HIDE DEF d
  <1> QED BY <1>0, <1>4

-----------------------------------------------------------------------------
(* UDP: the maps *)

LEMMA UsersFinite ==
    ASSUME NEW cs, NEW n, ConnsOK(cs, n), NEW t
    PROVE  IsFiniteSet(DOMAIN cs) /\ IsFiniteSet(Users(cs, t))
  <1>1. IsFiniteSet(1 .. n) BY FS_Interval DEF ConnsOK
  <1>2. IsFiniteSet(DOMAIN cs) BY <1>1, FS_Subset DEF ConnsOK
  <1>3. Users(cs, t) \subseteq DOMAIN cs BY DEF Users
  <1> QED BY <1>2, <1>3, FS_Subset

\* Connections that change, each by some method.
Aligned(cs, ds) ==
    /\ DOMAIN ds = DOMAIN cs
    /\ \A tok \in DOMAIN cs : Keeps(cs[tok], ds[tok])
LEMMA AlignedLemma ==
    ASSUME NEW cs, NEW ds, NEW n, NEW hs, NEW by, Aligned(cs, ds),
           ConnsOK(cs, n), Counted(cs, hs), Named(cs, by)
    PROVE  ConnsOK(ds, n) /\ Counted(ds, hs) /\ Named(ds, by)
  <1>1. ConnsOK(ds, n) /\ Named(ds, by) BY DEF Aligned, Keeps, ConnsOK, Named
  <1>2. \A t : Users(ds, t) = Users(cs, t) BY DEF Aligned, Keeps, Users
  <1>3. \A tok \in DOMAIN ds : ds[tok].local \in DOMAIN hs BY DEF Aligned, Keeps, Counted
  <1> QED BY <1>1, <1>2, <1>3 DEF Counted

\* One more connection, for a source that has none.
LEMMA NewConn ==
    ASSUME NEW cs, NEW n, NEW hs, NEW by, ConnsOK(cs, n), Counted(cs, hs), Named(cs, by),
           NEW c \in U!UdpConn, c.local \in DOMAIN hs, by[c.src] = U!Nobody
    PROVE  /\ ConnsOK(U!Put(cs, n + 1, c), n + 1)
           /\ Counted(U!Put(cs, n + 1, c), [hs EXCEPT ![c.local].refs = @ + 1])
           /\ Named(U!Put(cs, n + 1, c), [by EXCEPT ![c.src] = n + 1])
  <1> DEFINE ds == U!Put(cs, n + 1, c)
  <1> DEFINE gs == [hs EXCEPT ![c.local].refs = @ + 1]
  <1> DEFINE t == c.local
  <1>0. n \in Nat /\ n + 1 \notin DOMAIN cs /\ n + 1 # U!Nobody /\ c.src \in Sources
    BY ConnFields DEF ConnsOK, U!Nobody
  <1>1. /\ DOMAIN ds = DOMAIN cs \cup {n + 1} /\ ds[n + 1] = c
        /\ \A x \in DOMAIN cs : ds[x] = cs[x]
    BY <1>0 DEF U!Put
  <1>2. DOMAIN gs = DOMAIN hs /\ (\A x \in DOMAIN hs : x # t => gs[x] = hs[x])
    OBVIOUS
  <1>3. gs[t] = [hs[t] EXCEPT !.refs = hs[t].refs + 1] OBVIOUS
  <1> HIDE DEF ds, gs
  <1>4. ConnsOK(ds, n + 1) BY <1>0, <1>1 DEF ConnsOK
  <1>5. Named(ds, [by EXCEPT ![c.src] = n + 1])
    <2> DEFINE bs == [by EXCEPT ![c.src] = n + 1]
    <2>1. /\ DOMAIN bs = Sources /\ bs[c.src] = n + 1
          /\ \A s \in Sources : s # c.src => bs[s] = by[s]
      BY <1>0 DEF Named
    <2> HIDE DEF bs
    <2>2. \A s \in Sources : bs[s] # U!Nobody => bs[s] \in DOMAIN ds /\ ds[bs[s]].src = s
      BY <1>1, <2>1 DEF Named
    <2>3. ASSUME NEW x \in DOMAIN ds PROVE bs[ds[x].src] = x
      <3>1. CASE x = n + 1 BY <1>1, <2>1, <3>1
      <3>2. CASE x \in DOMAIN cs
        <4>1. ds[x] = cs[x] /\ by[cs[x].src] = x /\ x # U!Nobody BY <1>1, <3>2 DEF Named, ConnsOK, U!Nobody
        <4>2. cs[x].src \in Sources BY <3>2, ConnFields DEF ConnsOK
        <4> QED BY <2>1, <4>1, <4>2
      <3> QED BY <1>1, <3>1, <3>2
    <2>4. Named(ds, bs) BY <2>1, <2>2, <2>3 DEF Named
    <2> QED BY <2>4 DEF bs
  <1>6. Users(ds, t) = Users(cs, t) \cup {n + 1} BY <1>1 DEF Users
  <1>7. \A x : x # t => Users(ds, x) = Users(cs, x) BY <1>1 DEF Users
  <1>8. n + 1 \notin Users(cs, t) BY <1>0 DEF Users
  <1>9. Cardinality(Users(ds, t)) = Cardinality(Users(cs, t)) + 1
    BY <1>6, <1>8, UsersFinite, FS_AddElement
  <1>10. gs[t] \in [refs: Nat, old: BOOLEAN] /\ gs[t].refs = Cardinality(Users(ds, t))
    <2>1. hs[t] \in [refs: Nat, old: BOOLEAN] /\ hs[t].refs = Cardinality(Users(cs, t)) BY DEF Counted
    <2> HIDE DEF t
    <2> QED BY <1>3, <1>9, <2>1
  <1>11. \A x \in DOMAIN gs : gs[x] \in [refs: Nat, old: BOOLEAN] /\ gs[x].refs = Cardinality(Users(ds, x))
    BY <1>2, <1>7, <1>10 DEF Counted
  <1>12. \A x \in DOMAIN ds : ds[x].local \in DOMAIN gs BY <1>1, <1>2 DEF Counted
  <1>13. Counted(ds, gs) BY <1>11, <1>12 DEF Counted
  <1> QED BY <1>4, <1>5, <1>13 DEF ds, gs

\* Connections leave both maps, and their sockets' counts.
FewerUsers(hs, cs, gone) ==
    [t \in DOMAIN hs |-> [hs[t] EXCEPT !.refs = hs[t].refs - Cardinality({m \in gone : cs[m].local = t})]]
OtherNames(by, gone) == [s \in Sources |-> IF by[s] \in gone THEN U!Nobody ELSE by[s]]
LEMMA ConnsLeave ==
    ASSUME NEW cs, NEW n, NEW hs, NEW by, ConnsOK(cs, n), Counted(cs, hs), Named(cs, by),
           NEW gone, gone \subseteq DOMAIN cs,
           NEW ds, ds = U!Restrict(cs, DOMAIN cs \ gone),
           NEW gs, gs = FewerUsers(hs, cs, gone),
           NEW bs, bs = OtherNames(by, gone)
    PROVE  ConnsOK(ds, n) /\ Counted(ds, gs) /\ Named(ds, bs)
  <1>1. DOMAIN ds = DOMAIN cs \ gone /\ \A x \in DOMAIN ds : ds[x] = cs[x] BY DEF U!Restrict
  <1>2. ConnsOK(ds, n) BY <1>1 DEF ConnsOK
  <1>3. Named(ds, bs)
    <2>1. DOMAIN bs = Sources BY DEF OtherNames
    <2>2. ASSUME NEW s \in Sources, bs[s] # U!Nobody PROVE bs[s] \in DOMAIN ds /\ ds[bs[s]].src = s
      <3>1. bs[s] = by[s] /\ by[s] \notin gone BY <2>2 DEF OtherNames
      <3>2. by[s] \in DOMAIN cs /\ cs[by[s]].src = s BY <2>2, <3>1 DEF Named
      <3>3. by[s] \in DOMAIN ds BY <1>1, <3>1, <3>2
      <3> QED BY <1>1, <3>1, <3>2, <3>3
    <2>3. ASSUME NEW x \in DOMAIN ds PROVE bs[ds[x].src] = x
      <3>1. ds[x] = cs[x] /\ x \in DOMAIN cs /\ x \notin gone /\ by[cs[x].src] = x BY <1>1 DEF Named
      <3>2. cs[x].src \in Sources BY <3>1, ConnFields DEF ConnsOK
      <3> QED BY <3>1, <3>2 DEF OtherNames
    <2> QED BY <2>1, <2>2, <2>3 DEF Named
  <1>4. ASSUME NEW t \in DOMAIN hs
        PROVE  gs[t] \in [refs: Nat, old: BOOLEAN] /\ gs[t].refs = Cardinality(Users(ds, t))
    <2> DEFINE G == {m \in gone : cs[m].local = t}
    <2> DEFINE A == Users(cs, t)
    <2> DEFINE B == Users(ds, t)
    <2>1. IsFiniteSet(A) /\ B = A \ G /\ G \subseteq A BY <1>1, UsersFinite DEF Users
    <2>2. hs[t] \in [refs: Nat, old: BOOLEAN] /\ hs[t].refs = Cardinality(A) BY DEF Counted
    <2>3. gs[t] = [hs[t] EXCEPT !.refs = hs[t].refs - Cardinality(G)] BY DEF FewerUsers
    <2> HIDE DEF G, A, B
    <2>4. IsFiniteSet(G) BY <2>1, FS_Subset
    <2>5. Cardinality(B) = Cardinality(A) - Cardinality(A \cap G) BY <2>1, FS_Difference
    <2>6. A \cap G = G BY <2>1
    <2>7. Cardinality(B) \in Nat
      <3>1. IsFiniteSet(B) BY <2>1, FS_Difference
      <3> QED BY <3>1, FS_CardinalityType
    <2>8. hs[t].refs - Cardinality(G) = Cardinality(B) BY <2>2, <2>5, <2>6
    <2>9. gs[t] = [hs[t] EXCEPT !.refs = Cardinality(B)] BY <2>3, <2>8
    <2> QED BY <2>2, <2>7, <2>9 DEF B
  <1>5. DOMAIN gs = DOMAIN hs BY DEF FewerUsers
  <1>6. \A x \in DOMAIN ds : ds[x].local \in DOMAIN gs BY <1>1, <1>5 DEF Counted
  <1> QED BY <1>2, <1>3, <1>4, <1>5, <1>6 DEF Counted

-----------------------------------------------------------------------------
(* UDP: the steps *)

LEMMA OpenedConn ==
    ASSUME NEW s \in Sources, NEW t \in Targets, NEW b
    PROVE  U!Opened(s, t, b) \in U!UdpConn /\ U!Opened(s, t, b).src = s /\ U!Opened(s, t, b).local = t
  <1>1. 0 \in 0 .. UdpSess /\ 0 \in 0 .. UdpSock BY UdpAssumption
  <1> QED BY <1>1 DEF U!Opened, U!UdpConn

\* One connection changes; that it is closed is noted.
LEMMA ChangeLemma ==
    ASSUME UInv, NEW tok \in DOMAIN conns, NEW c, Keeps(conns[tok], c),
           conns' = [conns EXCEPT ![tok] = c],
           removed' = removed \/ removed' = removed \cup {tok},
           c.rclosed => tok \in removed',
           at # "net" \/ removed' = removed,
           UNCHANGED <<at, rx, waiting, events, cur, handles, byAddr, counts>>
    PROVE  UInv'
  <1>1. /\ DOMAIN conns' = DOMAIN conns /\ conns'[tok] = c
        /\ \A x \in DOMAIN conns : x # tok => conns'[x] = conns[x]
    OBVIOUS
  <1>2. \A x \in DOMAIN conns : conns[x] \in U!UdpConn BY DEF UInv, ConnsOK
  <1>3. Aligned(conns, conns')
    <2>1. \A x \in DOMAIN conns : Keeps(conns[x], conns'[x]) BY <1>1, <1>2, KeepsSelf
    <2> QED BY <1>1, <2>1 DEF Aligned
  <1> DEFINE n == counts.made
  <1>4. /\ ConnsOK(conns, n) /\ Counted(conns, handles) /\ Named(conns, byAddr)
        /\ counts' = counts /\ handles' = handles /\ byAddr' = byAddr
    BY DEF UInv
  <1>5. ConnsOK(conns', n) /\ Counted(conns', handles) /\ Named(conns', byAddr)
    <2> HIDE DEF n
    <2> QED BY <1>3, <1>4, AlignedLemma
  <1>6. Swept(conns', removed') BY <1>1 DEF UInv, Swept
  <1>7. /\ at' \in {"net", "local", "poll"} /\ cur' \in Targets \cup {U!Nobody} /\ counts'.made <= MaxConns
        /\ Sockets(handles', events', waiting', rx')
        /\ at' = "net" => removed' = {}
        /\ cur' # U!Nobody => at' = "local" /\ cur' \in DOMAIN handles'
    BY DEF UInv
  <1>8. ConnsOK(conns', counts'.made) /\ Counted(conns', handles') /\ Named(conns', byAddr')
    BY <1>4, <1>5
  <1> QED BY <1>6, <1>7, <1>8 DEF UInv

LEMMA NextEventStep == ASSUME UInv, NEW tok \in DOMAIN conns, U!NextEvent(tok) PROVE UInv'
  <1> DEFINE b == [conns[tok] EXCEPT !.edge = {}]
  <1> DEFINE c == U!DoRemoteUdp(b, conns[tok].edge)
  <1>1. conns[tok] \in U!UdpConn BY DEF UInv, ConnsOK
  <1>2. Keeps(conns[tok], b)
    <2>1. {} \in SUBSET {"r", "w"} /\ 0 \in 0 .. UdpSock BY UdpAssumption
    <2> QED BY <1>1, <2>1, SetEdges
  <1>3. /\ conns' = [conns EXCEPT ![tok] = c] /\ at = "poll"
        /\ removed' = IF c.rclosed THEN removed \cup {tok} ELSE removed
        /\ UNCHANGED <<at, rx, waiting, events, cur, handles, byAddr, counts>>
    BY DEF U!NextEvent
  <1> HIDE DEF b
  <1>4. b \in U!UdpConn BY <1>2 DEF Keeps
  <1>5. Keeps(b, c) BY <1>4, DoRemoteKeeps
  <1>6. Keeps(conns[tok], c) BY <1>2, <1>5, KeepsTrans
  <1> HIDE DEF c
  <1> QED BY <1>3, <1>6, ChangeLemma

LEMMA ServerStep ==
    ASSUME UInv, NEW tok \in DOMAIN conns,
           \/ U!Falls(tok) \/ U!Connected(tok) \/ U!ServerReads(tok) \/ U!ServerAnswers(tok)
           \/ \E how \in {"fin", "rst"} : U!ServerEnds(tok, how)
    PROVE  UInv'
  <1> DEFINE d == conns[tok]
  <1>1. d \in U!UdpConn /\ d.edge \in SUBSET {"r", "w"} /\ 0 \in 0 .. UdpSock
    BY ConnFields, UdpAssumption DEF UInv, ConnsOK
  <1>2. at = "net" /\ ~d.rclosed BY DEF UInv, Swept, U!Falls, U!Connected, U!ServerReads, U!ServerAnswers, U!ServerEnds, U!Open
  <1>3. PICK c : U!Change(tok, c) /\ Keeps(d, c) /\ ~c.rclosed
    <2>1. CASE U!Falls(tok)
      <3> DEFINE c == [d EXCEPT !.silent = TRUE]
      <3>1. U!Change(tok, c) BY <2>1 DEF U!Falls
      <3>2. Keeps(d, c) BY <1>1, SetFlags
      <3>3. ~c.rclosed BY <1>1, <1>2 DEF U!UdpConn
      <3> QED BY <3>1, <3>2, <3>3
    <2>2. CASE U!ServerReads(tok)
      <3> DEFINE e == d.edge \cup {"w"}
      <3> DEFINE c == [d EXCEPT !.sock = 0, !.edge = e]
      <3>1. U!Change(tok, c) BY <2>2 DEF U!ServerReads
      <3>2. ~c.rclosed BY <1>1, <1>2 DEF U!UdpConn
      <3>3. e \in SUBSET {"r", "w"} BY <1>1
      <3> HIDE DEF e
      <3>4. Keeps(d, c) BY <1>1, <3>3, SetEdges
      <3> QED BY <3>1, <3>2, <3>4
    <2>3. CASE U!ServerAnswers(tok)
      <3> DEFINE e == d.edge \cup {"r"}
      <3> DEFINE c == [d EXCEPT !.edge = e]
      <3>1. U!Change(tok, c) BY <2>3 DEF U!ServerAnswers
      <3>2. ~c.rclosed BY <1>1, <1>2 DEF U!UdpConn
      <3>3. e \in SUBSET {"r", "w"} BY <1>1
      <3> HIDE DEF e
      <3>4. Keeps(d, c) BY <1>1, <3>3, SetEdges
      <3> QED BY <3>1, <3>2, <3>4
    <2>4. ASSUME NEW how \in {"fin", "rst"}, U!ServerEnds(tok, how)
          PROVE  \E c : U!Change(tok, c) /\ Keeps(d, c) /\ ~c.rclosed
      <3> DEFINE e == d.edge \cup (IF how = "rst" THEN {"r", "w"} ELSE {"r"})
      <3> DEFINE c == [d EXCEPT !.rend = how, !.edge = e]
      <3>1. U!Change(tok, c) BY <2>4 DEF U!ServerEnds
      <3>2. ~c.rclosed BY <1>1, <1>2 DEF U!UdpConn
      <3>3. e \in SUBSET {"r", "w"} /\ how \in {"open", "fin", "rst"} BY <1>1
      <3> HIDE DEF e
      <3>4. Keeps(d, c) BY <1>1, <3>3, SetEdges
      <3> QED BY <3>1, <3>2, <3>4
    <2>5. CASE U!Connected(tok)
      <3> DEFINE e == d.edge \cup {"w"}
      <3> DEFINE c == [d EXCEPT !.edge = e]
      <3>1. U!Change(tok, c) BY <2>5 DEF U!Connected
      <3>2. ~c.rclosed BY <1>1, <1>2 DEF U!UdpConn
      <3>3. e \in SUBSET {"r", "w"} BY <1>1
      <3> HIDE DEF e
      <3>4. Keeps(d, c) BY <1>1, <3>3, SetEdges
      <3> QED BY <3>1, <3>2, <3>4
    <2> QED BY <2>1, <2>2, <2>3, <2>4, <2>5
  <1>4. /\ conns' = [conns EXCEPT ![tok] = c] /\ removed' = removed
        /\ UNCHANGED <<at, rx, waiting, events, cur, handles, byAddr, counts>>
    BY <1>3 DEF U!Change
  <1> QED BY <1>3, <1>4, ChangeLemma

LEMMA ArriveStep == ASSUME UInv, NEW s \in Sources, NEW t \in Targets, U!Arrive(s, t) PROVE UInv'
  <1> DEFINE q == IF t \notin DOMAIN rx THEN <<>> ELSE rx[t]
  <1> DEFINE p == IF Len(q) < UdpRx THEN Append(q, s) ELSE q
  <1>1. /\ rx' = U!Put(rx, t, p) /\ events' \subseteq events \cup {t} /\ waiting' = waiting \ {t}
        /\ counts' = [counts EXCEPT !.packets = @ + 1]
        /\ UNCHANGED <<at, cur, handles, conns, byAddr, removed>>
    BY DEF U!Arrive
  <1>2. p \in Seq(Sources) BY DEF UInv, Sockets
  <1> HIDE DEF p
  <1>3. DOMAIN rx' = DOMAIN rx \cup {t} /\ \A x \in DOMAIN rx' : rx'[x] \in Seq(Sources)
    BY <1>1, <1>2 DEF U!Put, UInv, Sockets
  <1>4. Sockets(handles', events', waiting', rx') BY <1>1, <1>3 DEF UInv, Sockets
  <1>5. counts'.made = counts.made BY <1>1
  <1> QED BY <1>1, <1>4, <1>5 DEF UInv

LEMMA NextHandleStep == ASSUME UInv, NEW t \in Targets, U!NextHandle(t) PROVE UInv'
  <1> DEFINE n == IF t \in DOMAIN handles THEN handles[t].refs ELSE 0
  <1>1. /\ at = "local" /\ t \in events /\ events' = events \ {t} /\ waiting' = waiting \cup {t} /\ cur' = t
        /\ handles' = U!Put(handles, t, [refs |-> n, old |-> FALSE])
        /\ UNCHANGED <<at, rx, conns, byAddr, removed, counts>>
    BY DEF U!NextHandle
  <1>2. n \in Nat /\ n = Cardinality(Users(conns, t))
    <2>1. CASE t \in DOMAIN handles BY <2>1 DEF UInv, Counted
    <2>2. CASE t \notin DOMAIN handles
      <3>1. Users(conns, t) = {} BY <2>2 DEF UInv, Counted, Users
      <3> QED BY <2>2, <3>1, FS_EmptySet
    <2> QED BY <2>1, <2>2
  <1> HIDE DEF n
  <1>3. /\ DOMAIN handles' = DOMAIN handles \cup {t} /\ handles'[t] = [refs |-> n, old |-> FALSE]
        /\ \A x \in DOMAIN handles : x # t => handles'[x] = handles[x]
    BY <1>1 DEF U!Put
  <1>4. Counted(conns', handles')
    <2>1. \A x \in DOMAIN handles : handles[x] \in [refs: Nat, old: BOOLEAN] /\ handles[x].refs = Cardinality(Users(conns, x))
      BY DEF UInv, Counted
    <2>2. handles'[t] \in [refs: Nat, old: BOOLEAN] /\ handles'[t].refs = Cardinality(Users(conns, t))
      BY <1>2, <1>3
    <2>3. \A x \in DOMAIN handles' : handles'[x] \in [refs: Nat, old: BOOLEAN] /\ handles'[x].refs = Cardinality(Users(conns, x))
      BY <1>3, <2>1, <2>2
    <2>4. \A tok \in DOMAIN conns : conns[tok].local \in DOMAIN handles' BY <1>3 DEF UInv, Counted
    <2>5. Counted(conns, handles') BY <2>3, <2>4 DEF Counted
    <2> QED BY <1>1, <2>5
  <1>5. Sockets(handles', events', waiting', rx') BY <1>1, <1>3 DEF UInv, Sockets
  <1> QED BY <1>1, <1>3, <1>4, <1>5 DEF UInv

LEMMA HandleAgesStep == ASSUME UInv, NEW t \in Targets, U!HandleAges(t) PROVE UInv'
  <1>1. /\ t \in DOMAIN handles /\ handles' = [handles EXCEPT ![t].old = TRUE]
        /\ UNCHANGED <<at, rx, waiting, events, cur, conns, byAddr, removed, counts>>
    BY DEF U!HandleAges
  <1>2. \A x \in DOMAIN handles : handles[x] \in [refs: Nat, old: BOOLEAN] /\ handles[x].refs = Cardinality(Users(conns, x))
    BY DEF UInv, Counted
  <1>3. /\ DOMAIN handles' = DOMAIN handles
        /\ \A x \in DOMAIN handles : handles'[x] \in [refs: Nat, old: BOOLEAN] /\ handles'[x].refs = handles[x].refs
    BY <1>1, <1>2
  <1>4. \A tok \in DOMAIN conns : conns[tok].local \in DOMAIN handles' BY <1>3 DEF UInv, Counted
  <1>5. Counted(conns, handles') BY <1>2, <1>3, <1>4 DEF Counted
  <1>6. Sockets(handles', events', waiting', rx') BY <1>1, <1>3 DEF UInv, Sockets
  <1> QED BY <1>1, <1>3, <1>5, <1>6 DEF UInv

\* Sockets that nobody uses leave.
LEMMA CheckTimeoutUdpStep == UInv /\ U!CheckTimeoutUdp => UInv'
  <1> SUFFICES ASSUME UInv, U!CheckTimeoutUdp PROVE UInv' OBVIOUS
  <1> DEFINE N == U!Unused
  <1>1. /\ at = "net" /\ events = {} /\ handles' = U!Restrict(handles, DOMAIN handles \ N)
        /\ rx' = U!Restrict(rx, DOMAIN rx \ N) /\ waiting' = waiting \ N
        /\ UNCHANGED <<at, events, cur, conns, byAddr, removed, counts>>
    BY DEF U!CheckTimeoutUdp
  <1>2. ASSUME NEW tok \in DOMAIN conns PROVE conns[tok].local \notin N
    <2> DEFINE t == conns[tok].local
    <2>1. tok \in Users(conns, t) /\ IsFiniteSet(Users(conns, t)) BY UsersFinite DEF Users, UInv
    <2>2. Cardinality(Users(conns, t)) # 0 BY <2>1, FS_EmptySet
    <2>3. t \in DOMAIN handles /\ handles[t].refs = Cardinality(Users(conns, t)) BY DEF UInv, Counted
    <2> QED BY <2>2, <2>3 DEF U!Unused
  <1> HIDE DEF N
  <1>3. /\ DOMAIN handles' = DOMAIN handles \ N /\ \A x \in DOMAIN handles' : handles'[x] = handles[x]
        /\ DOMAIN rx' = DOMAIN rx \ N /\ \A x \in DOMAIN rx' : rx'[x] = rx[x]
    BY <1>1 DEF U!Restrict
  <1>4. Counted(conns, handles') BY <1>2, <1>3 DEF UInv, Counted
  <1>5. Sockets(handles', events', waiting', rx') BY <1>1, <1>3 DEF UInv, Sockets
  <1>6. cur = U!Nobody BY <1>1 DEF UInv
  <1> QED BY <1>1, <1>4, <1>5, <1>6 DEF UInv

LEMMA RemoveClosedStep == UInv /\ U!RemoveClosed => UInv'
  <1> SUFFICES ASSUME UInv, U!RemoveClosed PROVE UInv' OBVIOUS
  <1> DEFINE gone == removed \cap DOMAIN conns
  <1> DEFINE n == counts.made
  <1>1. /\ at = "poll" /\ conns' = U!Restrict(conns, DOMAIN conns \ gone)
        /\ handles' = FewerUsers(handles, conns, gone) /\ byAddr' = OtherNames(byAddr, gone)
        /\ removed' = {} /\ at' = "net" /\ UNCHANGED <<rx, waiting, events, cur, counts>>
    <2>1. handles' = FewerUsers(handles, conns, gone) BY Zenon DEF U!RemoveClosed, FewerUsers, Cardinality, U!Cardinality
    <2>2. byAddr' = OtherNames(byAddr, gone) BY DEF U!RemoveClosed, U!Forgotten, OtherNames
    <2>3. /\ at = "poll" /\ conns' = U!Restrict(conns, DOMAIN conns \ gone) /\ removed' = {} /\ at' = "net"
          /\ UNCHANGED <<rx, waiting, events, cur, counts>>
      BY DEF U!RemoveClosed
    <2> QED BY <2>1, <2>2, <2>3
  <1>2. ConnsOK(conns, n) /\ Counted(conns, handles) /\ Named(conns, byAddr) /\ gone \subseteq DOMAIN conns
    BY DEF UInv
  <1>3. \A tok \in DOMAIN conns \ gone : ~conns[tok].rclosed BY DEF UInv, Swept
  <1> HIDE DEF gone, n
  <1>4. ConnsOK(conns', n) /\ Counted(conns', handles') /\ Named(conns', byAddr')
    BY <1>1, <1>2, ConnsLeave
  <1>5. Swept(conns', removed') BY <1>1, <1>3 DEF Swept, U!Restrict
  <1>6. DOMAIN handles' = DOMAIN handles BY <1>1 DEF FewerUsers
  <1>7. Sockets(handles', events', waiting', rx') BY <1>1, <1>6 DEF UInv, Sockets
  <1>8. cur = U!Nobody BY <1>1 DEF UInv
  <1> QED BY <1>1, <1>4, <1>5, <1>7, <1>8 DEF UInv, n

\* A packet goes to the connection of its source, or makes one.
LEMMA NextPacketStep == ASSUME UInv, NEW h \in {"cold", "hello", "warm"}, U!NextPacket(h) PROVE UInv'
  <1> DEFINE s == Head(rx[cur])
  <1> DEFINE new == byAddr[s] = U!Nobody
  <1> DEFINE n == counts.made
  <1> DEFINE tok == IF new THEN n + 1 ELSE byAddr[s]
  <1> DEFINE d == IF new THEN U!Opened(s, cur, h) ELSE conns[tok]
  <1> DEFINE c == U!DoLocalUdp(d)
  <1> DEFINE x == IF new THEN 1 ELSE 0
  <1>1. /\ at = "local" /\ cur # U!Nobody /\ rx[cur] # <<>> /\ tok \in U!Tokens
        /\ conns' = U!Put(conns, tok, c) /\ removed' = IF c.rclosed THEN removed \cup {tok} ELSE removed
        /\ byAddr' = [byAddr EXCEPT ![s] = tok]
        /\ handles' = [handles EXCEPT ![cur].refs = @ + x]
        /\ counts' = [counts EXCEPT !.made = IF new THEN n + 1 ELSE n]
        /\ rx' = [rx EXCEPT ![cur] = Tail(rx[cur])]
        /\ UNCHANGED <<at, waiting, events, cur>>
    BY DEF U!NextPacket, U!RefsOf
  <1>2. /\ ConnsOK(conns, n) /\ Counted(conns, handles) /\ Named(conns, byAddr) /\ Swept(conns, removed)
        /\ cur \in Targets /\ cur \in DOMAIN handles /\ n <= MaxConns
    BY <1>1 DEF UInv
  <1>3. cur \in DOMAIN rx /\ rx[cur] \in Seq(Sources) BY <1>1, <1>2 DEF UInv, Sockets
  <1>4. s \in Sources /\ Tail(rx[cur]) \in Seq(Sources) BY <1>1, <1>3
  <1>5. DOMAIN rx' = DOMAIN rx /\ \A y \in DOMAIN rx : rx'[y] \in Seq(Sources)
    BY <1>1, <1>4 DEF UInv, Sockets
  <1>6. DOMAIN handles' = DOMAIN handles BY <1>1
  <1>7. Sockets(handles', events', waiting', rx') BY <1>1, <1>5, <1>6 DEF UInv, Sockets
  <1>8. d \in U!UdpConn /\ (new => d.src = s /\ d.local = cur)
    BY <1>2, <1>4, OpenedConn DEF ConnsOK, Named
  <1>9. Keeps(d, c) BY <1>8, DoLocalKeeps
  <1>10. n \in Nat BY <1>2 DEF ConnsOK
  <1>11. counts'.made = IF new THEN n + 1 ELSE n BY <1>1
  <1> HIDE DEF s, n, c
  <1>12. ConnsOK(conns', counts'.made) /\ Counted(conns', handles') /\ Named(conns', byAddr') /\ counts'.made <= MaxConns
    <2>1. CASE new
      <3>1. c \in U!UdpConn /\ c.src = s /\ c.local = cur BY <1>8, <1>9, <2>1 DEF Keeps
      <3>2. c.local \in DOMAIN handles /\ byAddr[c.src] = U!Nobody BY <1>2, <2>1, <3>1
      <3>3. /\ ConnsOK(U!Put(conns, n + 1, c), n + 1)
            /\ Counted(U!Put(conns, n + 1, c), [handles EXCEPT ![c.local].refs = @ + 1])
            /\ Named(U!Put(conns, n + 1, c), [byAddr EXCEPT ![c.src] = n + 1])
        BY <1>2, <3>1, <3>2, NewConn
      <3>4. /\ conns' = U!Put(conns, n + 1, c) /\ handles' = [handles EXCEPT ![c.local].refs = @ + 1]
            /\ byAddr' = [byAddr EXCEPT ![c.src] = n + 1] /\ counts'.made = n + 1
        BY <1>1, <1>11, <2>1, <3>1
      <3>5. n + 1 <= MaxConns BY <1>1, <1>10, <2>1 DEF U!Tokens
      <3> QED BY <3>3, <3>4, <3>5
    <2>2. CASE ~new
      <3>1. tok = byAddr[s] /\ tok \in DOMAIN conns /\ d = conns[tok] BY <1>2, <1>4, <2>2 DEF Named
      <3>2. DOMAIN conns' = DOMAIN conns /\ conns'[tok] = c /\ \A y \in DOMAIN conns : y # tok => conns'[y] = conns[y]
        BY <1>1, <3>1 DEF U!Put
      <3>3. Aligned(conns, conns')
        <4>1. \A y \in DOMAIN conns : Keeps(conns[y], conns'[y])
          BY <1>2, <1>9, <3>1, <3>2, KeepsSelf DEF ConnsOK
        <4> QED BY <3>2, <4>1 DEF Aligned
      <3>4. Named(conns, byAddr')
        <4>1. DOMAIN byAddr = Sources /\ byAddr[s] = tok BY <1>2, <3>1 DEF Named
        <4>2. DOMAIN byAddr' = Sources /\ \A y \in Sources : byAddr'[y] = byAddr[y] BY <1>1, <4>1
        <4>3. \A y \in DOMAIN conns : conns[y].src \in Sources BY <1>2, ConnFields DEF ConnsOK
        <4> QED BY <1>2, <4>2, <4>3 DEF Named
      <3>5. \A y \in DOMAIN handles : handles'[y] = handles[y]
        <4>1. handles[cur] \in [refs: Nat, old: BOOLEAN] BY <1>2 DEF Counted
        <4>2. handles[cur].refs + x = handles[cur].refs BY <2>2, <4>1
        <4>3. handles'[cur] = [handles[cur] EXCEPT !.refs = handles[cur].refs + x] BY <1>1, <1>2
        <4>4. handles'[cur] = handles[cur] BY <4>1, <4>2, <4>3
        <4> QED BY <1>1, <4>4
      <3>6. Counted(conns, handles') BY <1>2, <1>6, <3>5 DEF Counted
      <3>7. counts'.made = n BY <1>11, <2>2
      <3>8. ConnsOK(conns', n) /\ Counted(conns', handles') /\ Named(conns', byAddr')
        BY <1>2, <3>3, <3>4, <3>6, AlignedLemma
      <3> QED BY <1>2, <3>7, <3>8
    <2> QED BY <2>1, <2>2
  <1>13. Swept(conns', removed')
    <2> HIDE DEF tok
    <2>1. /\ DOMAIN conns' = DOMAIN conns \cup {tok} /\ conns'[tok] = c
          /\ \A y \in DOMAIN conns : y # tok => conns'[y] = conns[y]
      BY <1>1 DEF U!Put
    <2> QED BY <1>1, <1>2, <2>1 DEF Swept
  <1> QED BY <1>1, <1>2, <1>6, <1>7, <1>12, <1>13 DEF UInv

LEMMA UInitInv == U!UInit => UInv
  <1> SUFFICES ASSUME U!UInit PROVE UInv OBVIOUS
  <1>1. /\ at = "net" /\ rx = <<>> /\ waiting = {} /\ events = {} /\ cur = U!Nobody /\ handles = <<>>
        /\ conns = <<>> /\ byAddr = [s \in Sources |-> U!Nobody] /\ removed = {} /\ counts.made = 0
    BY DEF U!UInit
  <1>2. DOMAIN rx = {} /\ DOMAIN handles = {} /\ DOMAIN conns = {} BY <1>1
  <1>3. ConnsOK(conns, counts.made) BY <1>1, <1>2 DEF ConnsOK
  <1>4. Counted(conns, handles) /\ Named(conns, byAddr) /\ Swept(conns, removed)
    BY <1>1, <1>2 DEF Counted, Named, Swept
  <1>5. Sockets(handles, events, waiting, rx) BY <1>1, <1>2 DEF Sockets
  <1>6. counts.made <= MaxConns BY <1>1, UdpAssumption
  <1> QED BY <1>1, <1>3, <1>4, <1>5, <1>6 DEF UInv

LEMMA UNextInv == UInv /\ [U!UNext]_udp => UInv'
  <1> SUFFICES ASSUME UInv, [U!UNext]_udp PROVE UInv' OBVIOUS
  <1>1. CASE U!PollDone \/ U!HandleDone \/ U!LocalDone \/ UNCHANGED udp
    BY <1>1 DEF UInv, U!PollDone, U!HandleDone, U!LocalDone, udp
  <1>2. CASE U!UNext
    BY <1>1, <1>2, ArriveStep, RemoveClosedStep, CheckTimeoutUdpStep, NextHandleStep, HandleAgesStep,
       NextPacketStep, NextEventStep, ServerStep DEF U!UNext
  <1> QED BY <1>1, <1>2

LEMMA InUseLemma == UInv => SocketsInUse
  <1> SUFFICES ASSUME UInv PROVE SocketsInUse OBVIOUS
  <1>1. DOMAIN conns \subseteq U!Tokens
    BY UdpAssumption DEF UInv, ConnsOK, U!Tokens
  <1>2. U!UTypeOK BY <1>1 DEF U!UTypeOK, UInv, ConnsOK, Counted
  <1>3. U!SocketOutlivesConns
    <2>1. \A t \in DOMAIN handles : handles[t].refs = Cardinality({tok \in DOMAIN conns : conns[tok].local = t})
      BY Zenon DEF UInv, Counted, Users
    <2>2. /\ \A tok \in DOMAIN conns : conns[tok].local \in DOMAIN handles
          /\ DOMAIN handles \cup events \cup waiting \subseteq DOMAIN rx
      BY DEF UInv, Counted, Sockets
    <2> QED BY Zenon, <1>2, <2>1, <2>2 DEF U!SocketOutlivesConns, Cardinality, U!Cardinality
  <1>4. U!UdpMapsAgree BY DEF U!UdpMapsAgree, UInv, Named, Swept
  <1> QED BY <1>3, <1>4 DEF SocketsInUse

\* A UDP socket and its entry stay as long as some connection answers through them,
\* the count of an entry is the number of its connections, and the two maps of
\* connections agree, for any applications, addresses, sizes of frames and buffers.
THEOREM UdpSocketsInUse == MCSpec => []SocketsInUse
<1>1. MCInit => UInv BY UInitInv DEF MCInit
<1>2. UInv /\ [MCNext]_all => UInv'
  <2>1. [MCNext]_all => [U!UNext]_udp BY DEF MCNext, TcpTurn, all, udp
  <2> QED BY <2>1, UNextInv
<1> QED BY <1>1, <1>2, InUseLemma, PTL DEF MCSpec
=============================================================================
