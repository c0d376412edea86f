--------------------------- MODULE AsyncUdpProofs ---------------------------
(***************************************************************************)
(* The notices of the two async UDP proxies are about the connection that  *)
(* the table holds, for any number of connections and any capacities.      *)
(*                                                                         *)
(* The argument: a connection that runs is the one its source has; a       *)
(* notice is about a connection that no longer runs, and there is one      *)
(* notice of it; so no notice finds the table changed by another.          *)
(***************************************************************************)
EXTENDS MCAsyncUdp, SequenceTheorems, TLAPS

-----------------------------------------------------------------------------
(* run_udp of aproxy *)

\* A connection connects before it has answers to wait for.
OneStage == \A c \in Ids : conn[c].st \in {"connecting", "failed"} => conn[c].rd = "none"

\* A connection with a task that has still to tell its end is its source's.
RunningIsCurrent == \A c \in Ids : Holds(c) => remotes[conn[c].src] = c

\* A notice is about a connection that has ended and that its source still has.
NoticeOfEnded ==
    \A k \in 1 .. Len(notices), c \in Ids :
        notices[k][2] = c => ~Holds(c) /\ notices[k][1] = conn[c].src /\ remotes[conn[c].src] = c

\* No connection is told of twice.
ToldOnce == \A j, k \in 1 .. Len(notices) : notices[j][2] = notices[k][2] => j = k

IInv == TypeOK /\ OneStage /\ RunningIsCurrent /\ NoticeOfEnded /\ ToldOnce /\ SocketsCached

\* The beginning: nothing runs and nothing is told.
LEMMA InitInv == Init => IInv
<1> SUFFICES ASSUME Init PROVE IInv
  OBVIOUS
<1> USE ConstAssumption DEF Init
<1>1. PICK s \in Srcs, d \in Dsts :
        conn = [c \in Ids |-> [ src |-> s, sock |-> d, q |-> <<>>, tx |-> FALSE,
                                st |-> "done", rd |-> "done", link |-> "shut", asked |-> {} ]]
  OBVIOUS
<1>2. TypeOK
  BY <1>1 DEF TypeOK, Conn, Ids, None
<1> QED
  BY <1>1, <1>2 DEF IInv, OneStage, RunningIsCurrent, NoticeOfEnded, ToldOnce, SocketsCached, Holds

\* A step of a connection's tasks that tells nothing: it keeps the source and the
\* socket, and it starts nothing that has ended.
LEMMA TaskStep ==
    ASSUME IInv, NEW c \in Ids, NEW r \in Conn,
           conn' = [conn EXCEPT ![c] = r], UNCHANGED <<remotes, locals, loop, delivered, notices>>,
           r.src = conn[c].src, r.sock = conn[c].sock, Len(r.q) <= QCap,
           r.st \in {"connecting", "failed"} => r.rd = "none",
           r.st \in {"connecting", "failed"} \/ r.rd \in {"read", "closing"} => Holds(c)
    PROVE  IInv'
<1>0. conn \in [Ids -> Conn] /\ notices \in Seq(Srcs \X Ids)
  BY DEF IInv, TypeOK
<1>1. \A b \in Ids : conn'[b] = IF b = c THEN r ELSE conn[b]
  BY <1>0
<1>2. \A b \in Ids : /\ conn'[b].src = conn[b].src /\ conn'[b].sock = conn[b].sock
                     /\ Holds(b)' => Holds(b)
  BY <1>1 DEF Holds
<1>3. TypeOK'
  BY <1>0, <1>1 DEF IInv, TypeOK
<1>4. OneStage'
  BY <1>1 DEF IInv, OneStage
<1>5. RunningIsCurrent' /\ SocketsCached'
  BY <1>2 DEF IInv, RunningIsCurrent, SocketsCached
<1>6. NoticeOfEnded'
  BY <1>0, <1>2 DEF IInv, NoticeOfEnded
<1>7. ToldOnce'
  BY DEF IInv, ToldOnce
<1> QED BY <1>3, <1>4, <1>5, <1>6, <1>7 DEF IInv

\* The step that tells the end of a connection which runs until then.
LEMMA TellStep ==
    ASSUME IInv, NEW c \in Ids, NEW r \in Conn, Holds(c), Notify(c),
           conn' = [conn EXCEPT ![c] = r], UNCHANGED <<remotes, locals, loop, delivered>>,
           r.src = conn[c].src, Len(r.q) <= QCap,
           ~(r.st \in {"connecting", "failed"} \/ r.rd \in {"read", "closing"})
    PROVE  IInv'
<1>0. /\ conn \in [Ids -> Conn] /\ notices \in Seq(Srcs \X Ids) /\ conn[c].src \in Srcs
      /\ Len(notices) < NoticeCap /\ notices' = Append(notices, <<conn[c].src, c>>)
  BY DEF IInv, TypeOK, Conn, Notify
<1>1. \A b \in Ids : conn'[b] = IF b = c THEN r ELSE conn[b]
  BY <1>0
<1>2. \A b \in Ids : /\ conn'[b].src = conn[b].src
                     /\ Holds(b)' => Holds(b) /\ conn'[b].sock = conn[b].sock
  BY <1>1 DEF Holds
<1>3. ~Holds(c)'
  BY <1>1 DEF Holds
<1>4. /\ Len(notices') = Len(notices) + 1 /\ notices'[Len(notices) + 1] = <<conn[c].src, c>>
      /\ \A k \in 1 .. Len(notices) : notices'[k] = notices[k]
      /\ \A k \in 1 .. Len(notices) : notices[k] \in Srcs \X Ids
  BY <1>0
<1>5. \A k \in 1 .. Len(notices) : notices[k][2] # c
  BY <1>4 DEF IInv, NoticeOfEnded
<1>6. TypeOK'
  BY <1>0, <1>1, ConstAssumption DEF IInv, TypeOK
<1>7. OneStage'
  BY <1>1 DEF IInv, OneStage
<1>8. RunningIsCurrent' /\ SocketsCached'
  BY <1>2 DEF IInv, RunningIsCurrent, SocketsCached
<1>9. NoticeOfEnded'
  <2> SUFFICES ASSUME NEW k \in 1 .. Len(notices'), NEW b \in Ids, notices'[k][2] = b
               PROVE  ~Holds(b)' /\ notices'[k][1] = conn'[b].src /\ remotes'[conn'[b].src] = b
    BY DEF NoticeOfEnded
  <2>1. CASE k = Len(notices) + 1
    BY <2>1, <1>2, <1>3, <1>4 DEF IInv, RunningIsCurrent
  <2>2. CASE k \in 1 .. Len(notices)
    BY <2>2, <1>2, <1>4 DEF IInv, NoticeOfEnded
  <2> QED BY <1>0, <1>4, <2>1, <2>2
<1>10. ToldOnce'
  BY <1>0, <1>4, <1>5 DEF IInv, ToldOnce
<1> QED BY <1>6, <1>7, <1>8, <1>9, <1>10 DEF IInv

\* A packet of a known source; a packet is queued, or its queue is gone.
LEMMA LoopSteps ==
    ASSUME IInv, PacketKnown \/ SendDone
    PROVE  IInv'
<1>1. CASE PacketKnown
  <2>1. TypeOK'
    BY <1>1 DEF IInv, TypeOK, PacketKnown, None
  <2> QED BY <1>1, <2>1 DEF IInv, PacketKnown, OneStage, RunningIsCurrent, NoticeOfEnded, ToldOnce, SocketsCached, Holds
<1>2. CASE SendDone
  <2> DEFINE c == loop[1]
             r == [conn[c] EXCEPT !.q = Append(@, loop[2])]
  <2>0. c \in Ids /\ loop[2] \in Dsts /\ conn \in [Ids -> Conn] /\ conn[c] \in Conn /\ Len(conn[c].q) <= QCap
    BY <1>2 DEF IInv, TypeOK, SendDone
  <2>1. /\ locals' \in {locals, Swept} /\ loop' = <<>> /\ UNCHANGED <<remotes, notices, delivered>>
        /\ conn' = conn \/ (conn' = [conn EXCEPT ![c] = r] /\ Len(conn[c].q) < QCap)
    BY <1>2, <2>0 DEF SendDone
  <2>q. /\ conn[c].q \in Seq(Dsts) /\ Append(conn[c].q, loop[2]) \in Seq(Dsts)
        /\ Len(Append(conn[c].q, loop[2])) = Len(conn[c].q) + 1 /\ Len(conn[c].q) \in Nat /\ QCap \in Nat
    BY <2>0, ConstAssumption DEF Conn
  <2>2. r \in Conn /\ (Len(conn[c].q) < QCap => Len(r.q) <= QCap)
    <3>1. r.q = Append(conn[c].q, loop[2])
      BY <2>0 DEF Conn
    <3>2. r \in Conn
      BY <2>0, <2>q DEF Conn
    <3> QED BY <3>1, <3>2, <2>q
  <2>3. \A b \in Ids : /\ conn'[b].src = conn[b].src /\ conn'[b].sock = conn[b].sock
                       /\ conn'[b].st = conn[b].st /\ conn'[b].rd = conn[b].rd
    BY <2>0, <2>1 DEF Conn
  <2>4. TypeOK'
    <3>1. conn' \in [Ids -> Conn] /\ \A b \in Ids : Len(conn'[b].q) <= QCap
      <4> HIDE DEF r, c
      <4>1. CASE conn' = conn
        BY <4>1, <2>0 DEF IInv, TypeOK
      <4>2. CASE conn' = [conn EXCEPT ![c] = r] /\ Len(conn[c].q) < QCap
        BY <4>2, <2>0, <2>2 DEF IInv, TypeOK
      <4> QED BY <4>1, <4>2, <2>1
    <3>2. locals' \subseteq Dsts
      BY <2>1 DEF IInv, TypeOK, Swept
    <3> QED BY <3>1, <3>2, <2>1 DEF IInv, TypeOK
  <2>5. OneStage' /\ RunningIsCurrent' /\ NoticeOfEnded' /\ ToldOnce'
    BY <2>1, <2>3 DEF IInv, OneStage, RunningIsCurrent, NoticeOfEnded, ToldOnce, Holds
  <2>6. SocketsCached'
    BY <2>1, <2>3 DEF IInv, SocketsCached, Swept, Holds
  <2> QED BY <2>4, <2>5, <2>6 DEF IInv
<1> QED BY <1>1, <1>2

\* A packet of a source without a connection: the connection that is made is free,
\* so no notice is about it, and no other connection is its source's.
LEMMA PacketNewStep ==
    ASSUME IInv, PacketNew
    PROVE  IInv'
<1>1. PICK s \in Srcs, d \in Dsts, c \in Ids :
        /\ remotes[s] = None /\ Free(c)
        /\ locals' = locals \cup {d}
        /\ remotes' = [remotes EXCEPT ![s] = c]
        /\ conn' = [conn EXCEPT ![c] =
                      [ src |-> s, sock |-> d, q |-> <<>>, tx |-> TRUE, st |-> "connecting",
                        rd |-> "none", link |-> "up", asked |-> {} ]]
        /\ loop' = <<c, d>>
        /\ UNCHANGED <<notices, delivered>>
  BY DEF PacketNew
<1>0. conn \in [Ids -> Conn] /\ notices \in Seq(Srcs \X Ids) /\ remotes \in [Srcs -> {None} \cup Ids] /\ None \notin Ids
  BY ConstAssumption DEF IInv, TypeOK, Ids, None
<1> DEFINE r == [ src |-> s, sock |-> d, q |-> <<>>, tx |-> TRUE, st |-> "connecting",
                  rd |-> "none", link |-> "up", asked |-> {} ]
<1>2. r \in Conn /\ Len(r.q) <= QCap
  BY ConstAssumption DEF Conn
<1>3. \A b \in Ids : conn'[b] = IF b = c THEN r ELSE conn[b]
  BY <1>0, <1>1
<1>4. \A b \in Ids : b # c => (Holds(b)' <=> Holds(b))
  BY <1>3 DEF Holds
<1>5. TypeOK'
  BY <1>0, <1>1, <1>2, <1>3 DEF IInv, TypeOK
<1>6. OneStage'
  BY <1>3 DEF IInv, OneStage
<1>7. RunningIsCurrent'
  BY <1>0, <1>1, <1>3, <1>4 DEF IInv, RunningIsCurrent, Conn
<1>8. NoticeOfEnded'
  <2> SUFFICES ASSUME NEW k \in 1 .. Len(notices), NEW b \in Ids, notices[k][2] = b
               PROVE  ~Holds(b)' /\ notices[k][1] = conn'[b].src /\ remotes'[conn'[b].src] = b
    BY <1>1 DEF NoticeOfEnded
  <2>1. ~Holds(b) /\ notices[k][1] = conn[b].src /\ remotes[conn[b].src] = b /\ b # c
    BY <1>1 DEF IInv, NoticeOfEnded, Free
  <2> QED BY <2>1, <1>0, <1>1, <1>3, <1>4 DEF Conn
<1>9. ToldOnce'
  BY <1>1 DEF IInv, ToldOnce
<1>10. SocketsCached'
  BY <1>1, <1>3, <1>4 DEF IInv, SocketsCached
<1> QED BY <1>5, <1>6, <1>7, <1>8, <1>9, <1>10 DEF IInv

\* A notice takes out its own connection, and no other notice is about that one.
LEMMA HandleNoticeStep ==
    ASSUME IInv, HandleNotice
    PROVE  IInv'
<1> DEFINE s == Head(notices)[1]
           c == Head(notices)[2]
<1>0. /\ conn \in [Ids -> Conn] /\ notices \in Seq(Srcs \X Ids) /\ remotes \in [Srcs -> {None} \cup Ids]
      /\ None \notin Ids /\ notices # <<>>
  BY ConstAssumption DEF IInv, TypeOK, Ids, None, HandleNotice
<1>1. s \in Srcs /\ c \in Ids /\ notices[1] = Head(notices) /\ 1 \in 1 .. Len(notices) /\ Len(notices) \in Nat
  BY <1>0
<1>2. ~Holds(c) /\ conn[c].src = s /\ remotes[s] = c
  BY <1>1 DEF IInv, NoticeOfEnded
<1>3. /\ remotes' = [remotes EXCEPT ![s] = None] /\ conn' = [conn EXCEPT ![c].tx = FALSE]
      /\ notices' = Tail(notices) /\ UNCHANGED <<locals, loop, delivered>>
  BY <1>0, <1>1, <1>2 DEF HandleNotice
<1>4. /\ notices' \in Seq(Srcs \X Ids) /\ Len(notices') = Len(notices) - 1
      /\ \A k \in 1 .. Len(notices') : notices'[k] = notices[k + 1] /\ k + 1 \in 1 .. Len(notices)
  BY <1>0, <1>1, <1>3
<1>5. \A b \in Ids : /\ conn'[b] \in Conn /\ conn'[b].q = conn[b].q
                     /\ conn'[b].src = conn[b].src /\ conn'[b].sock = conn[b].sock
                     /\ conn'[b].st = conn[b].st /\ conn'[b].rd = conn[b].rd
  <2> SUFFICES ASSUME NEW b \in Ids
               PROVE  /\ conn'[b] \in Conn /\ conn'[b].q = conn[b].q
                      /\ conn'[b].src = conn[b].src /\ conn'[b].sock = conn[b].sock
                      /\ conn'[b].st = conn[b].st /\ conn'[b].rd = conn[b].rd
    OBVIOUS
  <2>1. conn[b] \in Conn /\ conn'[b] \in {conn[b], [conn[b] EXCEPT !.tx = FALSE]}
    BY <1>0, <1>3
  <2> QED BY <2>1 DEF Conn
<1>6. \A b \in Ids : Holds(b)' <=> Holds(b)
  BY <1>5 DEF Holds
<1>7. TypeOK'
  <2>1. conn' \in [Ids -> Conn] /\ \A b \in Ids : Len(conn'[b].q) <= QCap
    BY <1>0, <1>3, <1>5 DEF IInv, TypeOK
  <2>2. Len(notices') <= NoticeCap
    BY <1>1, <1>4, ConstAssumption DEF IInv, TypeOK
  <2> QED BY <2>1, <2>2, <1>0, <1>3, <1>4 DEF IInv, TypeOK
<1>8. OneStage' /\ SocketsCached'
  BY <1>3, <1>5, <1>6 DEF IInv, OneStage, SocketsCached
<1>9. RunningIsCurrent'
  BY <1>0, <1>1, <1>2, <1>3, <1>5, <1>6 DEF IInv, RunningIsCurrent, Conn
<1>10. NoticeOfEnded'
  <2> SUFFICES ASSUME NEW k \in 1 .. Len(notices'), NEW b \in Ids, notices'[k][2] = b
               PROVE  ~Holds(b)' /\ notices'[k][1] = conn'[b].src /\ remotes'[conn'[b].src] = b
    BY DEF NoticeOfEnded
  <2>1. ~Holds(b) /\ notices[k + 1][1] = conn[b].src /\ remotes[conn[b].src] = b
    BY <1>4 DEF IInv, NoticeOfEnded
  <2>2. b # c
    <3>1. k + 1 # 1 /\ k + 1 \in 1 .. Len(notices)
      BY <1>1, <1>4
    <3>2. notices[k + 1][2] # notices[1][2]
      BY <1>1, <3>1 DEF IInv, ToldOnce
    <3> QED BY <1>1, <1>4, <3>2
  <2> QED BY <2>1, <2>2, <1>0, <1>2, <1>3, <1>4, <1>5, <1>6 DEF Conn
<1>11. ToldOnce'
  <2> SUFFICES ASSUME NEW j \in 1 .. Len(notices'), NEW k \in 1 .. Len(notices'), notices'[j][2] = notices'[k][2]
               PROVE  j = k
    BY DEF ToldOnce
  <2>0. /\ j + 1 \in 1 .. Len(notices) /\ k + 1 \in 1 .. Len(notices)
        /\ notices[j + 1][2] = notices[k + 1][2]
    BY <1>4
  <2>1. j + 1 = k + 1
    BY <2>0 DEF IInv, ToldOnce
  <2> QED BY <2>1, <1>1, <1>4
<1> QED BY <1>7, <1>8, <1>9, <1>10, <1>11 DEF IInv

\* Every step of run_udp or of a connection's tasks.
LEMMA NextInv == IInv /\ [Next]_vars => IInv'
<1> SUFFICES ASSUME IInv, [Next]_vars PROVE IInv'
  OBVIOUS
<1>0. conn \in [Ids -> Conn] /\ \A c \in Ids : conn[c] \in Conn /\ Len(conn[c].q) <= QCap
  BY DEF IInv, TypeOK
<1>1. CASE PacketKnown \/ SendDone
  BY <1>1, LoopSteps
<1>2. CASE PacketNew
  BY <1>2, PacketNewStep
<1>3. CASE HandleNotice
  BY <1>3, HandleNoticeStep
<1>4. ASSUME NEW c \in Ids, Connected(c) PROVE IInv'
  <2> DEFINE r == [conn[c] EXCEPT !.st = "up", !.rd = "read"]
  <2>1. r \in Conn /\ r.src = conn[c].src /\ r.sock = conn[c].sock /\ r.q = conn[c].q /\ r.st = "up"
    BY <1>0 DEF Conn
  <2>2. Holds(c)
    BY <1>4 DEF Connected, Holds
  <2> HIDE DEF r
  <2> QED BY <1>0, <1>4, <2>1, <2>2, TaskStep DEF Connected, Step, r
<1>5. ASSUME NEW c \in Ids, ConnectFails(c) PROVE IInv'
  <2> DEFINE r == [conn[c] EXCEPT !.st = "failed", !.link = "shut"]
  <2>1. /\ r \in Conn /\ r.src = conn[c].src /\ r.sock = conn[c].sock /\ r.q = conn[c].q
        /\ r.st = "failed" /\ r.rd = conn[c].rd
    BY <1>0 DEF Conn
  <2>2. Holds(c) /\ conn[c].rd = "none"
    BY <1>5 DEF ConnectFails, Holds, IInv, OneStage
  <2> HIDE DEF r
  <2> QED BY <1>0, <1>5, <2>1, <2>2, TaskStep DEF ConnectFails, Step, r
<1>6. ASSUME NEW c \in Ids, FailedNotice(c) PROVE IInv'
  <2> DEFINE e == << >>
             r == [conn[c] EXCEPT !.st = "done", !.q = e]
  <2>e. e \in Seq(Dsts) /\ Len(e) = 0 /\ e = << >>
    OBVIOUS
  <2> HIDE DEF e
  <2>1. /\ r \in Conn /\ r.src = conn[c].src /\ r.q = e
        /\ r.st = "done" /\ r.rd = conn[c].rd
    BY <1>0, <2>e DEF Conn
  <2>2. Holds(c) /\ conn[c].rd = "none"
    BY <1>6 DEF FailedNotice, Holds, IInv, OneStage
  <2>3. Len(r.q) <= QCap
    BY <2>1, <2>e, ConstAssumption
  <2>4. Notify(c) /\ conn' = [conn EXCEPT ![c] = r] /\ UNCHANGED <<remotes, locals, loop, delivered>>
    BY <1>6, <2>e DEF FailedNotice, Step
  <2> HIDE DEF r
  <2> QED BY <2>1, <2>2, <2>3, <2>4, TellStep
<1>7. ASSUME NEW c \in Ids, Forward(c) PROVE IInv'
  <2> DEFINE a == IF conn[c].link = "up" THEN conn[c].asked \cup {Head(conn[c].q)} ELSE conn[c].asked
             r == [conn[c] EXCEPT !.q = Tail(conn[c].q), !.asked = a]
  <2>0. conn[c].q \in Seq(Dsts) /\ conn[c].q # <<>> /\ conn[c].asked \subseteq Dsts
    BY <1>0, <1>7 DEF Forward, Conn
  <2>q. Tail(conn[c].q) \in Seq(Dsts) /\ Len(Tail(conn[c].q)) <= QCap /\ a \subseteq Dsts
    BY <1>0, <2>0, ConstAssumption
  <2> HIDE DEF a
  <2>1. /\ r \in Conn /\ r.src = conn[c].src /\ r.sock = conn[c].sock /\ r.q = Tail(conn[c].q)
        /\ r.st = "up" /\ r.rd = conn[c].rd
    BY <1>0, <1>7, <2>q DEF Conn, Forward
  <2>2. r.rd \in {"read", "closing"} => Holds(c)
    BY <2>1 DEF Holds
  <2>3. conn' = [conn EXCEPT ![c] = r] /\ UNCHANGED <<remotes, locals, loop, delivered, notices>>
    BY <1>0, <1>7 DEF Forward, Step, a
  <2> HIDE DEF r
  <2> QED BY <2>1, <2>2, <2>3, <2>q, TaskStep
<1>8. ASSUME NEW c \in Ids, WriteFails(c) PROVE IInv'
  <2> DEFINE e == << >>
             r == [conn[c] EXCEPT !.st = "done", !.q = e]
  <2>e. e \in Seq(Dsts) /\ Len(e) = 0 /\ e = << >>
    OBVIOUS
  <2> HIDE DEF e
  <2>1. /\ r \in Conn /\ r.src = conn[c].src /\ r.sock = conn[c].sock /\ r.q = e
        /\ r.st = "done" /\ r.rd = conn[c].rd
    BY <1>0, <2>e DEF Conn
  <2>2. r.rd \in {"read", "closing"} => Holds(c)
    BY <2>1 DEF Holds
  <2>3. Len(r.q) <= QCap
    BY <2>1, <2>e, ConstAssumption
  <2>4. conn' = [conn EXCEPT ![c] = r] /\ UNCHANGED <<remotes, locals, loop, delivered, notices>>
    BY <1>8, <2>e DEF WriteFails, Step
  <2> HIDE DEF r
  <2> QED BY <2>1, <2>2, <2>3, <2>4, TaskStep
<1>9. ASSUME NEW c \in Ids, QueueEnds(c) PROVE IInv'
  <2> DEFINE r == [conn[c] EXCEPT !.st = "done", !.link = "shut"]
  <2>1. /\ r \in Conn /\ r.src = conn[c].src /\ r.sock = conn[c].sock /\ r.q = conn[c].q
        /\ r.st = "done" /\ r.rd = conn[c].rd
    BY <1>0 DEF Conn
  <2>2. r.rd \in {"read", "closing"} => Holds(c)
    BY <2>1 DEF Holds
  <2>3. conn' = [conn EXCEPT ![c] = r] /\ UNCHANGED <<remotes, locals, loop, delivered, notices>>
    BY <1>9 DEF QueueEnds, Step
  <2> HIDE DEF r
  <2> QED BY <1>0, <2>1, <2>2, <2>3, TaskStep
<1>10. ASSUME NEW c \in Ids, Deliver(c) PROVE IInv'
  <2>1. PICK d \in conn[c].asked : /\ delivered' = delivered \cup {<<d, conn[c].sock>>}
                                  /\ UNCHANGED <<remotes, locals, loop, notices, conn>>
    BY <1>10 DEF Deliver
  <2>2. conn[c].asked \subseteq Dsts /\ conn[c].sock \in Dsts
    BY <1>0 DEF Conn
  <2>3. delivered' \subseteq Dsts \X Dsts
    BY <2>1, <2>2 DEF IInv, TypeOK
  <2>4. TypeOK'
    BY <2>1, <2>3 DEF IInv, TypeOK
  <2> QED BY <2>1, <2>4 DEF IInv, OneStage, RunningIsCurrent, NoticeOfEnded, ToldOnce, SocketsCached, Holds
<1>11. ASSUME NEW c \in Ids, ReadEnds(c) PROVE IInv'
  <2> DEFINE r == [conn[c] EXCEPT !.rd = "closing"]
  <2>1. /\ r \in Conn /\ r.src = conn[c].src /\ r.sock = conn[c].sock /\ r.q = conn[c].q
        /\ r.st = conn[c].st /\ r.rd = "closing"
    BY <1>0 DEF Conn
  <2>2. Holds(c) /\ r.st \notin {"connecting", "failed"}
    BY <1>11, <2>1 DEF ReadEnds, Holds, IInv, OneStage
  <2>3. conn' = [conn EXCEPT ![c] = r] /\ UNCHANGED <<remotes, locals, loop, delivered, notices>>
    BY <1>11 DEF ReadEnds, Step
  <2> HIDE DEF r
  <2> QED BY <1>0, <2>1, <2>2, <2>3, TaskStep
<1>12. ASSUME NEW c \in Ids, ReaderNotice(c) PROVE IInv'
  <2> DEFINE r == [conn[c] EXCEPT !.rd = "done"]
  <2>1. /\ r \in Conn /\ r.src = conn[c].src /\ r.q = conn[c].q
        /\ r.st = conn[c].st /\ r.rd = "done"
    BY <1>0 DEF Conn
  <2>2. Holds(c) /\ r.st \notin {"connecting", "failed"}
    BY <1>12, <2>1 DEF ReaderNotice, Holds, IInv, OneStage
  <2>3. Notify(c) /\ conn' = [conn EXCEPT ![c] = r] /\ UNCHANGED <<remotes, locals, loop, delivered>>
    BY <1>12 DEF ReaderNotice, Step
  <2> HIDE DEF r
  <2> QED BY <1>0, <2>1, <2>2, <2>3, TellStep
<1>13. ASSUME NEW c \in Ids, ServerCloses(c) PROVE IInv'
  <2> DEFINE r == [conn[c] EXCEPT !.link = "shut"]
  <2>1. /\ r \in Conn /\ r.src = conn[c].src /\ r.sock = conn[c].sock /\ r.q = conn[c].q
        /\ r.st = "up" /\ r.rd = conn[c].rd
    BY <1>0, <1>13 DEF Conn, ServerCloses
  <2>2. r.rd \in {"read", "closing"} => Holds(c)
    BY <2>1 DEF Holds
  <2>3. conn' = [conn EXCEPT ![c] = r] /\ UNCHANGED <<remotes, locals, loop, delivered, notices>>
    BY <1>13 DEF ServerCloses, Step
  <2> HIDE DEF r
  <2> QED BY <1>0, <2>1, <2>2, <2>3, TaskStep
<1>14. CASE UNCHANGED vars
  BY <1>14 DEF vars, IInv, TypeOK, OneStage, RunningIsCurrent, NoticeOfEnded, ToldOnce, SocketsCached, Holds
<1> QED
  BY <1>1, <1>2, <1>3, <1>4, <1>5, <1>6, <1>7, <1>8, <1>9, <1>10, <1>11, <1>12, <1>13, <1>14 DEF Next

\* What the invariant says of notices that are sent or about to be sent.
LEMMA InvCurrent == IInv => NoticeIsCurrent
<1> SUFFICES ASSUME IInv PROVE NoticeIsCurrent
  OBVIOUS
<1>1. \A k \in 1 .. Len(notices) : notices[k][2] \in Ids /\ remotes[notices[k][1]] = notices[k][2]
  <2> SUFFICES ASSUME NEW k \in 1 .. Len(notices)
               PROVE  notices[k][2] \in Ids /\ remotes[notices[k][1]] = notices[k][2]
    OBVIOUS
  <2>1. notices[k] \in Srcs \X Ids
    BY DEF IInv, TypeOK
  <2> QED BY <2>1 DEF IInv, NoticeOfEnded
<1>2. \A c \in Ids : (conn[c].st = "failed" \/ conn[c].rd = "closing") => remotes[conn[c].src] = c
  BY DEF IInv, RunningIsCurrent, Holds
<1> QED BY <1>1, <1>2 DEF NoticeIsCurrent, IInv

\* In run_udp of aproxy, a notice that is sent or about to be sent names a source
\* whose entry is the connection that has ended (udp.rs: remotes.remove by source).
THEOREM ProxyNoticesCurrent == Spec => [](NoticeIsCurrent /\ SocketsCached)
<1>1. Spec => []IInv
  BY InitInv, NextInv, PTL DEF Spec
<1>2. IInv => NoticeIsCurrent /\ SocketsCached
  BY InvCurrent DEF IInv
<1> QED BY <1>1, <1>2, PTL

-----------------------------------------------------------------------------
(* run_udp_dispatch of awintun *)

\* The records and messages of the tasks.
TunSock == [target: Targets, chan: Seq(Sources), st: {"new", "read", "told", "done"}]
TunConn ==
    [ src: Sources, target: Targets, chan: Seq(Sources),
      up: {"connect", "fail", "run", "done"}, down: {"none", "run", "done"} ]
TunClose == ({"local"} \X Targets \X Nat) \cup ({"remote"} \X Sources \X Nat)
TunDev == [sock: Nat, rx: Seq(Sources)]

\* The device, the sockets and their tasks.
SockTypes ==
    /\ main \in {"poll", "hand"} /\ (main = "hand" => fresh # <<>>)
    /\ socks \in Seq(TunSock) /\ dev \in [Targets -> TunDev] /\ tunLocals \in [Targets -> Nat]
    /\ \A t \in Targets : dev[t].sock \in {0} \cup DOMAIN socks /\ tunLocals[t] \in {0} \cup DOMAIN socks
    /\ fresh \in Seq(Nat) /\ \A i \in DOMAIN fresh : fresh[i] \in DOMAIN socks
    /\ sockCh \in Seq(Nat) /\ \A i \in DOMAIN sockCh : sockCh[i] \in DOMAIN socks
    /\ \A n \in DOMAIN socks : Len(socks[n].chan) <= ChanCap

\* The dispatcher and the connections.
ConnTypes ==
    /\ tunRemotes \in Seq(TunConn) /\ reqs \in [Sources -> Nat] /\ busy \in {0} \cup DOMAIN tunRemotes
    /\ dataCh \in Seq(Sources \X Targets) /\ closeCh \in Seq(TunClose)
    /\ \A s \in Sources : reqs[s] \in {0} \cup DOMAIN tunRemotes
    /\ \A c \in DOMAIN tunRemotes : Len(tunRemotes[c].chan) <= ChanCap

\* A connection with a task that has still to tell its end.
TunRuns(c) == tunRemotes[c].up \in {"connect", "fail"} \/ tunRemotes[c].down = "run"

\* A connection has no answers to wait for until it is connected; while it runs, it
\* is its source's.
TunRunning ==
    \A c \in DOMAIN tunRemotes :
        /\ tunRemotes[c].up \in {"connect", "fail"} => tunRemotes[c].down = "none"
        /\ TunRuns(c) => reqs[tunRemotes[c].src] = c

\* A notice is about a connection that has ended and that its source still has, and
\* there is one of each.
TunNotices ==
    /\ \A i \in DOMAIN closeCh : closeCh[i][1] = "remote" => closeCh[i][3] \in DOMAIN tunRemotes
    /\ \A i \in DOMAIN closeCh, c \in DOMAIN tunRemotes :
        closeCh[i][1] = "remote" /\ closeCh[i][3] = c =>
            ~TunRuns(c) /\ closeCh[i][2] = tunRemotes[c].src /\ reqs[tunRemotes[c].src] = c
    /\ \A i, j \in DOMAIN closeCh :
        closeCh[i][1] = "remote" /\ closeCh[j][1] = "remote" /\ closeCh[i][3] = closeCh[j][3] => i = j

WInv == SockTypes /\ ConnTypes /\ TunRunning /\ TunNotices

\* Steps that leave the sockets alone, and steps that leave the connections alone.
LEMMA SocksKept ==
    ASSUME SockTypes, UNCHANGED <<main, dev, fresh, tunLocals, socks, sockCh>>
    PROVE  SockTypes'
BY DEF SockTypes

LEMMA ConnsKept ==
    ASSUME ConnTypes, TunRunning, TunNotices, UNCHANGED <<tunRemotes, reqs, busy, dataCh, closeCh>>
    PROVE  ConnTypes' /\ TunRunning' /\ TunNotices'
BY DEF ConnTypes, TunRunning, TunNotices, TunRuns

LEMMA TunInitInv == W!WInit => WInv
<1> SUFFICES ASSUME W!WInit PROVE WInv
  OBVIOUS
<1> USE TunAssumption DEF W!WInit, W!None
<1>1. SockTypes
  BY DEF SockTypes, TunDev
<1>2. ConnTypes
  BY DEF ConnTypes
<1> QED BY <1>1, <1>2 DEF WInv, TunRunning, TunNotices

\* What a connection has in its channel matters to no part of the invariant.
LEMMA ChanStep ==
    ASSUME WInv, tunRemotes' \in Seq(TunConn), Len(tunRemotes') = Len(tunRemotes),
           \A c \in DOMAIN tunRemotes : /\ tunRemotes'[c].src = tunRemotes[c].src
                                        /\ tunRemotes'[c].up = tunRemotes[c].up
                                        /\ tunRemotes'[c].down = tunRemotes[c].down,
           UNCHANGED <<reqs, closeCh>>
    PROVE  TunRunning' /\ TunNotices'
<1>1. DOMAIN tunRemotes' = DOMAIN tunRemotes
  BY DEF WInv, ConnTypes
<1> QED BY <1>1 DEF WInv, TunRunning, TunNotices, TunRuns

\* sender.send.
LEMMA SendToKeeps ==
    ASSUME NEW r \in Seq(TunConn), NEW c \in DOMAIN r, NEW s \in Sources, W!SendTo(r, c, s),
           \A b \in DOMAIN r : Len(r[b].chan) <= ChanCap
    PROVE  /\ tunRemotes' \in Seq(TunConn) /\ Len(tunRemotes') = Len(r) /\ busy' \in {0} \cup DOMAIN r
           /\ \A b \in DOMAIN r : /\ tunRemotes'[b].src = r[b].src /\ tunRemotes'[b].up = r[b].up
                                  /\ tunRemotes'[b].down = r[b].down
           /\ \A b \in DOMAIN tunRemotes' : Len(tunRemotes'[b].chan) <= ChanCap
<1>0. DOMAIN r = 1 .. Len(r) /\ Len(r) \in Nat /\ \A b \in DOMAIN r : r[b] \in TunConn
  OBVIOUS
<1>1. CASE tunRemotes' = r
  BY <1>0, <1>1 DEF W!SendTo, W!None
<1>2. CASE tunRemotes' # r
  <2> DEFINE q == Append(r[c].chan, s)
             e == [r[c] EXCEPT !.chan = q]
  <2>1. tunRemotes' = [r EXCEPT ![c] = e] /\ Len(r[c].chan) < ChanCap /\ busy' = 0
    BY <1>0, <1>2 DEF W!SendTo, W!None
  <2>2. q \in Seq(Sources) /\ Len(q) <= ChanCap
    BY <1>0, <2>1, TunAssumption DEF TunConn
  <2> HIDE DEF q
  <2>3. /\ e \in TunConn /\ e.chan = q /\ e.src = r[c].src /\ e.up = r[c].up /\ e.down = r[c].down
    BY <1>0, <2>2 DEF TunConn
  <2> HIDE DEF e
  <2>4. /\ tunRemotes' \in Seq(TunConn) /\ Len(tunRemotes') = Len(r)
        /\ \A b \in 1 .. Len(r) : tunRemotes'[b] = IF b = c THEN e ELSE r[b]
    BY <1>0, <2>1, <2>3, ExceptSeq
  <2> QED BY <1>0, <2>1, <2>2, <2>3, <2>4
<1> QED BY <1>1, <1>2

\* A step of a connection's tasks that tells nothing.
LEMMA TunTaskStep ==
    ASSUME WInv, NEW c \in DOMAIN tunRemotes, NEW r \in TunConn,
           tunRemotes' = [tunRemotes EXCEPT ![c] = r],
           UNCHANGED <<main, dev, fresh, tunLocals, socks, sockCh, reqs, busy, dataCh, closeCh>>,
           r.src = tunRemotes[c].src, Len(r.chan) <= ChanCap,
           r.up \in {"connect", "fail"} => r.down = "none",
           r.up \in {"connect", "fail"} \/ r.down = "run" => TunRuns(c)
    PROVE  WInv'
<1>0. /\ tunRemotes \in Seq(TunConn) /\ DOMAIN tunRemotes = 1 .. Len(tunRemotes)
      /\ closeCh \in Seq(TunClose)
  BY DEF WInv, ConnTypes
<1>1. /\ tunRemotes' \in Seq(TunConn) /\ Len(tunRemotes') = Len(tunRemotes)
      /\ \A b \in DOMAIN tunRemotes : tunRemotes'[b] = IF b = c THEN r ELSE tunRemotes[b]
  BY <1>0, ExceptSeq
<1>2. DOMAIN tunRemotes' = DOMAIN tunRemotes
  BY <1>0, <1>1
<1>3. \A b \in DOMAIN tunRemotes : tunRemotes'[b].src = tunRemotes[b].src /\ (TunRuns(b)' => TunRuns(b))
  BY <1>1 DEF TunRuns
<1>4. SockTypes'
  BY SocksKept DEF WInv
<1>5. ConnTypes'
  BY <1>1, <1>2 DEF WInv, ConnTypes
<1>6. TunRunning'
  BY <1>1, <1>2, <1>3 DEF WInv, TunRunning
<1>7. TunNotices'
  BY <1>2, <1>3 DEF WInv, TunNotices
<1> QED BY <1>4, <1>5, <1>6, <1>7 DEF WInv

\* The step that tells the end of a connection which runs until then.
LEMMA TunTellStep ==
    ASSUME WInv, NEW c \in DOMAIN tunRemotes, NEW r \in TunConn, TunRuns(c),
           tunRemotes' = [tunRemotes EXCEPT ![c] = r],
           closeCh' = Append(closeCh, <<"remote", tunRemotes[c].src, c>>),
           UNCHANGED <<main, dev, fresh, tunLocals, socks, sockCh, reqs, busy, dataCh>>,
           r.src = tunRemotes[c].src, Len(r.chan) <= ChanCap,
           ~(r.up \in {"connect", "fail"} \/ r.down = "run")
    PROVE  WInv'
<1> DEFINE m == <<"remote", tunRemotes[c].src, c>>
<1>0. /\ tunRemotes \in Seq(TunConn) /\ DOMAIN tunRemotes = 1 .. Len(tunRemotes)
      /\ closeCh \in Seq(TunClose) /\ DOMAIN closeCh = 1 .. Len(closeCh) /\ c \in Nat
      /\ tunRemotes[c].src \in Sources
  BY DEF WInv, ConnTypes, TunConn
<1>1. /\ tunRemotes' \in Seq(TunConn) /\ Len(tunRemotes') = Len(tunRemotes)
      /\ \A b \in DOMAIN tunRemotes : tunRemotes'[b] = IF b = c THEN r ELSE tunRemotes[b]
  BY <1>0, ExceptSeq
<1>2. DOMAIN tunRemotes' = DOMAIN tunRemotes
  BY <1>0, <1>1
<1>3. \A b \in DOMAIN tunRemotes : tunRemotes'[b].src = tunRemotes[b].src /\ (TunRuns(b)' => TunRuns(b))
  BY <1>1 DEF TunRuns
<1>4. ~TunRuns(c)'
  BY <1>1 DEF TunRuns
<1>5. m \in TunClose /\ m[1] = "remote" /\ m[2] = tunRemotes[c].src /\ m[3] = c
  BY <1>0 DEF TunClose
<1> HIDE DEF m
<1>6. /\ closeCh' \in Seq(TunClose) /\ DOMAIN closeCh' = 1 .. Len(closeCh) + 1
      /\ closeCh'[Len(closeCh) + 1] = m /\ Len(closeCh) \in Nat
      /\ \A i \in DOMAIN closeCh : closeCh'[i] = closeCh[i]
  BY <1>0, <1>5, AppendProperties DEF m
<1>7. \A i \in DOMAIN closeCh : closeCh[i][1] = "remote" => closeCh[i][3] # c
  BY DEF WInv, TunNotices
<1>8. SockTypes'
  BY SocksKept DEF WInv
<1>9. ConnTypes'
  BY <1>1, <1>2, <1>6 DEF WInv, ConnTypes
<1>10. TunRunning'
  BY <1>1, <1>2, <1>3 DEF WInv, TunRunning
<1>11. TunNotices'
  <2>1. \A i \in DOMAIN closeCh' : closeCh'[i][1] = "remote" => closeCh'[i][3] \in DOMAIN tunRemotes'
    BY <1>0, <1>2, <1>5, <1>6 DEF WInv, TunNotices
  <2>2. ASSUME NEW i \in DOMAIN closeCh', NEW b \in DOMAIN tunRemotes',
               closeCh'[i][1] = "remote", closeCh'[i][3] = b
        PROVE  ~TunRuns(b)' /\ closeCh'[i][2] = tunRemotes'[b].src /\ reqs'[tunRemotes'[b].src] = b
    <3>1. CASE i \in DOMAIN closeCh
      BY <2>2, <3>1, <1>2, <1>3, <1>6 DEF WInv, TunNotices
    <3>2. CASE i = Len(closeCh) + 1
      BY <2>2, <3>2, <1>2, <1>3, <1>4, <1>5, <1>6 DEF WInv, TunRunning
    <3> QED BY <3>1, <3>2, <1>0, <1>6
  <2>3. ASSUME NEW i \in DOMAIN closeCh', NEW j \in DOMAIN closeCh', closeCh'[i][1] = "remote",
               closeCh'[j][1] = "remote", closeCh'[i][3] = closeCh'[j][3]
        PROVE  i = j
    BY <2>3, <1>0, <1>5, <1>6, <1>7 DEF WInv, TunNotices
  <2> QED BY <2>1, <2>2, <2>3 DEF TunNotices
<1> QED BY <1>8, <1>9, <1>10, <1>11 DEF WInv

\* The connections' tasks.
LEMMA TunConnSteps ==
    ASSUME WInv, NEW c \in DOMAIN tunRemotes, W!UpStep(c) \/ W!DownStep(c)
    PROVE  WInv'
<1> DEFINE o == tunRemotes[c]
           none == << >>
<1>0. o \in TunConn /\ Len(o.chan) <= ChanCap /\ none \in Seq(Sources) /\ Len(none) <= ChanCap /\ none = << >>
  BY TunAssumption DEF WInv, ConnTypes
<1> HIDE DEF none
<1>1. o.up \in {"connect", "fail"} => o.down = "none"
  BY DEF WInv, TunRunning
<1>2. CASE W!RemoteConnects(c)
  <2> DEFINE r == [o EXCEPT !.up = "run", !.down = "run"]
  <2>1. r \in TunConn /\ r.src = o.src /\ r.chan = o.chan /\ r.up = "run" /\ TunRuns(c)
    BY <1>0, <1>2 DEF TunConn, W!RemoteConnects, TunRuns
  <2> HIDE DEF r
  <2> QED BY <1>0, <1>2, <2>1, TunTaskStep DEF W!RemoteConnects, W!Conn, W!Others, r
<1>3. CASE W!RemoteFails(c)
  <2> DEFINE r == [o EXCEPT !.up = "fail"]
  <2>1. r \in TunConn /\ r.src = o.src /\ r.chan = o.chan /\ r.up = "fail" /\ r.down = "none" /\ TunRuns(c)
    BY <1>0, <1>1, <1>3 DEF TunConn, W!RemoteFails, TunRuns
  <2> HIDE DEF r
  <2> QED BY <1>0, <1>3, <2>1, TunTaskStep DEF W!RemoteFails, W!Conn, W!Others, r
<1>4. CASE W!RemoteFailTells(c)
  <2> DEFINE r == [o EXCEPT !.up = "done", !.chan = none]
  <2>1. r \in TunConn /\ r.src = o.src /\ r.chan = none /\ r.up = "done" /\ r.down = "none" /\ TunRuns(c)
    BY <1>0, <1>1, <1>4 DEF TunConn, W!RemoteFailTells, TunRuns
  <2>2. /\ tunRemotes' = [tunRemotes EXCEPT ![c] = r] /\ closeCh' = Append(closeCh, <<"remote", o.src, c>>)
        /\ UNCHANGED <<main, dev, fresh, tunLocals, socks, sockCh, reqs, busy, dataCh>>
    BY <1>0, <1>4 DEF W!RemoteFailTells, W!Tell, W!Conn, W!Others
  <2> HIDE DEF r
  <2> QED BY <1>0, <2>1, <2>2, TunTellStep
<1>5. CASE W!RemoteSends(c)
  <2> DEFINE q == Tail(o.chan)
             r == [o EXCEPT !.chan = q]
  <2>1. q \in Seq(Sources) /\ Len(q) <= ChanCap
    BY <1>0, <1>5, TunAssumption, HeadTailProperties DEF TunConn, W!RemoteSends
  <2>2. tunRemotes' = [tunRemotes EXCEPT ![c] = r]
    BY <1>5 DEF W!RemoteSends, W!Conn
  <2> HIDE DEF q
  <2>3. r \in TunConn /\ r.src = o.src /\ r.chan = q /\ r.up = "run" /\ r.down = o.down
    BY <1>0, <1>5, <2>1 DEF TunConn, W!RemoteSends
  <2> HIDE DEF r
  <2> QED BY <1>5, <2>1, <2>2, <2>3, TunTaskStep DEF W!RemoteSends, W!Others, TunRuns
<1>6. CASE W!RemoteUpEnds(c)
  <2> DEFINE r == [o EXCEPT !.up = "done", !.chan = none]
  <2>1. r \in TunConn /\ r.src = o.src /\ r.chan = none /\ r.up = "done" /\ r.down = o.down
    BY <1>0 DEF TunConn
  <2>2. tunRemotes' = [tunRemotes EXCEPT ![c] = r]
    BY <1>0, <1>6 DEF W!RemoteUpEnds, W!Conn
  <2> HIDE DEF r
  <2> QED BY <1>0, <1>6, <2>1, <2>2, TunTaskStep DEF W!RemoteUpEnds, W!Others, TunRuns
<1>7. CASE W!RemoteDownEnds(c)
  <2> DEFINE r == [o EXCEPT !.down = "done"]
  <2>1. /\ r \in TunConn /\ r.src = o.src /\ r.chan = o.chan /\ r.up = o.up /\ r.down = "done"
        /\ TunRuns(c) /\ o.up \notin {"connect", "fail"}
    BY <1>0, <1>1, <1>7 DEF TunConn, W!RemoteDownEnds, TunRuns
  <2>2. /\ tunRemotes' = [tunRemotes EXCEPT ![c] = r] /\ closeCh' = Append(closeCh, <<"remote", o.src, c>>)
        /\ UNCHANGED <<main, dev, fresh, tunLocals, socks, sockCh, reqs, busy, dataCh>>
    BY <1>7 DEF W!RemoteDownEnds, W!Tell, W!Conn, W!Others
  <2> HIDE DEF r
  <2> QED BY <1>0, <2>1, <2>2, TunTellStep
<1> QED BY <1>2, <1>3, <1>4, <1>5, <1>6, <1>7 DEF W!UpStep, W!DownStep

\* The dispatcher takes a packet: the source's connection gets it, or one is made.
LEMMA DispatchDataStep ==
    ASSUME WInv, W!DispatchData
    PROVE  WInv'
<1> DEFINE s == Head(dataCh)[1]
           t == Head(dataCh)[2]
           none == << >>
           new == [src |-> s, target |-> t, chan |-> none, up |-> "connect", down |-> "none"]
<1>0. /\ tunRemotes \in Seq(TunConn) /\ DOMAIN tunRemotes = 1 .. Len(tunRemotes) /\ Len(tunRemotes) \in Nat
      /\ reqs \in [Sources -> Nat] /\ closeCh \in Seq(TunClose)
      /\ dataCh \in Seq(Sources \X Targets) /\ dataCh # << >> /\ busy \in {0} \cup DOMAIN tunRemotes
      /\ \A c \in DOMAIN tunRemotes : Len(tunRemotes[c].chan) <= ChanCap
  BY DEF WInv, ConnTypes, W!DispatchData
<1>1. /\ Head(dataCh) \in Sources \X Targets /\ dataCh' = Tail(dataCh) /\ dataCh' \in Seq(Sources \X Targets)
  BY <1>0, HeadTailProperties DEF W!DispatchData
<1>2. s \in Sources /\ t \in Targets /\ none = << >> /\ none \in Seq(Sources) /\ Len(none) <= ChanCap
  BY <1>1, TunAssumption
<1>3. SockTypes'
  BY SocksKept DEF WInv, W!DispatchData
<1>4. UNCHANGED closeCh
  BY DEF W!DispatchData
<1> HIDE DEF none
<1>5. CASE UNCHANGED <<reqs, tunRemotes, busy>>
  BY <1>0, <1>1, <1>3, <1>4, <1>5 DEF WInv, ConnTypes, TunRunning, TunNotices, TunRuns
<1>6. CASE reqs[s] # 0 /\ UNCHANGED reqs /\ W!SendTo(tunRemotes, reqs[s], s)
  <2>1. reqs[s] \in DOMAIN tunRemotes
    BY <1>2, <1>6 DEF WInv, ConnTypes
  <2>2. WInv'
    <3>1. /\ tunRemotes' \in Seq(TunConn) /\ Len(tunRemotes') = Len(tunRemotes)
          /\ busy' \in {0} \cup DOMAIN tunRemotes
          /\ \A c \in DOMAIN tunRemotes : /\ tunRemotes'[c].src = tunRemotes[c].src
                                          /\ tunRemotes'[c].up = tunRemotes[c].up
                                          /\ tunRemotes'[c].down = tunRemotes[c].down
          /\ \A c \in DOMAIN tunRemotes' : Len(tunRemotes'[c].chan) <= ChanCap
      BY <1>0, <1>2, <1>6, <2>1, SendToKeeps
    <3>2. ConnTypes'
      BY <1>0, <1>1, <1>4, <1>6, <3>1 DEF WInv, ConnTypes
    <3>3. TunRunning' /\ TunNotices'
      BY <1>4, <1>6, <3>1, ChanStep
    <3> QED BY <1>3, <3>2, <3>3 DEF WInv
  <2> QED BY <2>2
<1>7. CASE /\ reqs[s] = 0 /\ reqs' = [reqs EXCEPT ![s] = Len(tunRemotes) + 1]
           /\ W!SendTo(Append(tunRemotes, new), Len(tunRemotes) + 1, s)
  <2> DEFINE r == Append(tunRemotes, new)
             n == Len(tunRemotes) + 1
  <2>1. new \in TunConn /\ new.src = s /\ new.up = "connect" /\ new.down = "none" /\ new.chan = none
    BY <1>2 DEF TunConn
  <2> HIDE DEF new
  <2>2. /\ r \in Seq(TunConn) /\ Len(r) = n /\ r[n] = new /\ DOMAIN r = 1 .. n
        /\ \A c \in DOMAIN tunRemotes : r[c] = tunRemotes[c]
    BY <1>0, <2>1, AppendProperties
  <2>3. \A c \in DOMAIN r : Len(r[c].chan) <= ChanCap
    BY <1>0, <1>2, <2>1, <2>2
  <2>4. n \in DOMAIN r /\ W!SendTo(r, n, s)
    BY <1>0, <1>7, <2>2
  <2>5. /\ tunRemotes' \in Seq(TunConn) /\ Len(tunRemotes') = Len(r) /\ busy' \in {0} \cup DOMAIN r
        /\ \A c \in DOMAIN r : /\ tunRemotes'[c].src = r[c].src /\ tunRemotes'[c].up = r[c].up
                               /\ tunRemotes'[c].down = r[c].down
        /\ \A c \in DOMAIN tunRemotes' : Len(tunRemotes'[c].chan) <= ChanCap
    BY <1>2, <2>2, <2>3, <2>4, SendToKeeps
  <2> HIDE DEF r
  <2>6. /\ DOMAIN tunRemotes' = 1 .. n
        /\ tunRemotes'[n].src = s /\ tunRemotes'[n].up = "connect" /\ tunRemotes'[n].down = "none"
        /\ \A c \in DOMAIN tunRemotes : /\ c \in DOMAIN tunRemotes' /\ c # n
                                        /\ tunRemotes'[c].src = tunRemotes[c].src
                                        /\ tunRemotes'[c].up = tunRemotes[c].up
                                        /\ tunRemotes'[c].down = tunRemotes[c].down
        /\ \A c \in DOMAIN tunRemotes' : c = n \/ c \in DOMAIN tunRemotes
    <3>1. DOMAIN tunRemotes' = 1 .. n
      BY <2>2, <2>5
    <3>2. /\ tunRemotes'[n].src = s /\ tunRemotes'[n].up = "connect" /\ tunRemotes'[n].down = "none"
      BY <2>1, <2>2, <2>4, <2>5
    <3>3. \A c \in DOMAIN tunRemotes : c \in DOMAIN r /\ c # n
      BY <1>0, <2>2
    <3>4. \A c \in 1 .. n : c = n \/ c \in DOMAIN tunRemotes
      BY SMTT(60), <1>0
    <3> QED BY <3>1, <3>2, <3>3, <3>4, <2>2, <2>5
  <2>7. \A c \in DOMAIN tunRemotes : TunRuns(c)' <=> TunRuns(c)
    BY <2>6 DEF TunRuns
  <2>8. ConnTypes'
    <3>1. /\ reqs' \in [Sources -> Nat]
          /\ \A b \in Sources : reqs'[b] \in {0} \cup DOMAIN tunRemotes'
      BY <1>0, <1>7, <2>6 DEF WInv, ConnTypes
    <3> QED BY <1>0, <1>1, <1>4, <2>2, <2>5, <2>6, <3>1 DEF ConnTypes
  <2>9. \A c \in DOMAIN tunRemotes : tunRemotes[c].src \in Sources /\ c # 0
    <3>1. \A c \in DOMAIN tunRemotes : tunRemotes[c] \in TunConn /\ c # 0
      BY <1>0
    <3> QED BY <3>1 DEF TunConn
  <2>10. TunRunning'
    <3> SUFFICES ASSUME NEW c \in DOMAIN tunRemotes'
                 PROVE  /\ tunRemotes'[c].up \in {"connect", "fail"} => tunRemotes'[c].down = "none"
                        /\ TunRuns(c)' => reqs'[tunRemotes'[c].src] = c
      BY DEF TunRunning
    <3>1. CASE c = n
      BY <3>1, <1>0, <1>2, <1>7, <2>6
    <3>2. CASE c \in DOMAIN tunRemotes
      <4>1. /\ tunRemotes[c].up \in {"connect", "fail"} => tunRemotes[c].down = "none"
            /\ TunRuns(c) => reqs[tunRemotes[c].src] = c
        BY <3>2 DEF WInv, TunRunning
      <4>2. tunRemotes'[c].src = tunRemotes[c].src /\ tunRemotes[c].src \in Sources /\ c # 0
        BY <3>2, <2>6, <2>9
      <4>3. reqs[tunRemotes[c].src] = c => reqs'[tunRemotes[c].src] = c
        BY <4>2, <1>0, <1>2, <1>7
      <4> QED BY <3>2, <4>1, <4>2, <4>3, <2>6, <2>7
    <3> QED BY <3>1, <3>2, <2>6
  <2>11. TunNotices'
    <3>1. \A i \in DOMAIN closeCh : closeCh[i][1] = "remote" => closeCh[i][3] \in DOMAIN tunRemotes
      BY DEF WInv, TunNotices
    <3>2. ASSUME NEW i \in DOMAIN closeCh', NEW c \in DOMAIN tunRemotes',
                 closeCh'[i][1] = "remote", closeCh'[i][3] = c
          PROVE  ~TunRuns(c)' /\ closeCh'[i][2] = tunRemotes'[c].src /\ reqs'[tunRemotes'[c].src] = c
      <4>1. c \in DOMAIN tunRemotes
        BY <3>1, <3>2, <1>4
      <4>2. ~TunRuns(c) /\ closeCh[i][2] = tunRemotes[c].src /\ reqs[tunRemotes[c].src] = c
        BY <3>2, <4>1, <1>4 DEF WInv, TunNotices
      <4> QED BY <4>1, <4>2, <1>0, <1>2, <1>4, <1>7, <2>6, <2>7, <2>9
    <3> QED BY <1>4, <2>6, <3>1, <3>2 DEF WInv, TunNotices
  <2> QED BY <1>3, <2>8, <2>10, <2>11 DEF WInv
<1> QED BY <1>0, <1>2, <1>5, <1>6, <1>7 DEF W!DispatchData, W!None

\* The dispatcher goes on, learns of a socket, or hears of an end: a notice takes
\* out its own connection, and no other notice is about that one.
LEMMA DispatchOtherSteps ==
    ASSUME WInv, W!DispatchGoesOn \/ W!DispatchSocket \/ W!DispatchClose
    PROVE  WInv'
<1>0. /\ tunRemotes \in Seq(TunConn) /\ DOMAIN tunRemotes = 1 .. Len(tunRemotes)
      /\ \A c \in DOMAIN tunRemotes : tunRemotes[c].src \in Sources /\ c # 0
      /\ reqs \in [Sources -> Nat] /\ closeCh \in Seq(TunClose)
  <2>1. tunRemotes \in Seq(TunConn) /\ DOMAIN tunRemotes = 1 .. Len(tunRemotes)
    BY DEF WInv, ConnTypes
  <2>2. \A c \in DOMAIN tunRemotes : tunRemotes[c] \in TunConn /\ c # 0
    BY <2>1
  <2> QED BY <2>1, <2>2 DEF WInv, ConnTypes, TunConn
<1>1. CASE W!DispatchGoesOn
  <2>1. busy \in DOMAIN tunRemotes
    BY <1>1 DEF WInv, ConnTypes, W!DispatchGoesOn, W!None
  <2>2. /\ W!SendTo(tunRemotes, busy, tunRemotes[busy].src)
        /\ UNCHANGED <<main, dev, fresh, tunLocals, reqs, socks, dataCh, sockCh, closeCh>>
    BY <1>1 DEF W!DispatchGoesOn
  <2>3. /\ tunRemotes' \in Seq(TunConn) /\ Len(tunRemotes') = Len(tunRemotes)
        /\ busy' \in {0} \cup DOMAIN tunRemotes
        /\ \A c \in DOMAIN tunRemotes : /\ tunRemotes'[c].src = tunRemotes[c].src
                                        /\ tunRemotes'[c].up = tunRemotes[c].up
                                        /\ tunRemotes'[c].down = tunRemotes[c].down
        /\ \A c \in DOMAIN tunRemotes' : Len(tunRemotes'[c].chan) <= ChanCap
    BY <1>0, <2>1, <2>2, SendToKeeps DEF WInv, ConnTypes
  <2>4. ConnTypes'
    BY <1>0, <2>2, <2>3 DEF WInv, ConnTypes
  <2>5. TunRunning' /\ TunNotices'
    BY <2>2, <2>3, ChanStep
  <2>6. SockTypes'
    BY <2>2, SocksKept DEF WInv
  <2> QED BY <2>4, <2>5, <2>6 DEF WInv
<1>2. CASE W!DispatchSocket
  <2> DEFINE n == Head(sockCh)
  <2>1. sockCh \in Seq(Nat) /\ sockCh # << >> /\ n = sockCh[1] /\ 1 \in DOMAIN sockCh /\ n \in DOMAIN socks /\ n \in Nat
    BY <1>2 DEF WInv, SockTypes, W!DispatchSocket
  <2>2. /\ sockCh' = Tail(sockCh) /\ tunLocals' = [tunLocals EXCEPT ![socks[n].target] = n]
        /\ UNCHANGED <<main, dev, fresh, reqs, busy, socks, tunRemotes, dataCh, closeCh>>
    BY <1>2 DEF W!DispatchSocket
  <2>3. sockCh' \in Seq(Nat) /\ \A i \in DOMAIN sockCh' : sockCh'[i] \in DOMAIN socks
    <3>1. /\ sockCh' \in Seq(Nat) /\ Len(sockCh') = Len(sockCh) - 1
          /\ \A i \in 1 .. Len(sockCh') : sockCh'[i] = sockCh[i + 1]
      BY <2>1, <2>2, HeadTailProperties
    <3>2. \A i \in DOMAIN sockCh' : i \in 1 .. Len(sockCh') /\ i + 1 \in DOMAIN sockCh
      BY <2>1, <3>1
    <3> QED BY <3>1, <3>2 DEF WInv, SockTypes
  <2>4. /\ tunLocals' \in [Targets -> Nat]
        /\ \A t \in Targets : tunLocals'[t] \in {0} \cup DOMAIN socks
    BY <2>1, <2>2 DEF WInv, SockTypes
  <2>5. SockTypes'
    BY <2>2, <2>3, <2>4 DEF WInv, SockTypes
  <2> QED BY <2>2, <2>5, ConnsKept DEF WInv
<1>3. CASE W!DispatchClose
  <2> DEFINE m == closeCh[1]
  <2>1. /\ closeCh # << >> /\ Head(closeCh) = m /\ 1 \in DOMAIN closeCh /\ m \in TunClose
        /\ closeCh' = Tail(closeCh) /\ UNCHANGED <<main, dev, fresh, busy, socks, tunRemotes, dataCh, sockCh>>
    BY <1>0, <1>3 DEF W!DispatchClose
  <2>2. /\ closeCh' \in Seq(TunClose) /\ DOMAIN closeCh' = 1 .. Len(closeCh) - 1
        /\ \A i \in DOMAIN closeCh' : /\ closeCh'[i] = closeCh[i + 1] /\ i + 1 \in DOMAIN closeCh
                                      /\ i + 1 # 1 /\ i \in Nat
    <3>1. /\ closeCh' \in Seq(TunClose) /\ Len(closeCh') = Len(closeCh) - 1
          /\ \A i \in 1 .. Len(closeCh') : closeCh'[i] = closeCh[i + 1]
      BY <1>0, <2>1, HeadTailProperties
    <3> QED BY <1>0, <2>1, <3>1
  <2>3. \A i, j \in DOMAIN closeCh' : i + 1 = j + 1 => i = j
    BY <2>2
  <2>4. CASE /\ m[1] = "remote" /\ reqs' = [reqs EXCEPT ![m[2]] = 0] /\ UNCHANGED tunLocals
    <3> DEFINE c == m[3]
    <3>1. c \in DOMAIN tunRemotes /\ ~TunRuns(c) /\ m[2] = tunRemotes[c].src /\ reqs[m[2]] = c /\ m[2] \in Sources
      BY <1>0, <2>1, <2>4 DEF WInv, TunNotices
    <3> HIDE DEF c
    <3>2. \A b \in DOMAIN tunRemotes : b # c /\ reqs[tunRemotes[b].src] = b => reqs'[tunRemotes[b].src] = b
      BY <1>0, <2>4, <3>1
    <3>3. \A b \in DOMAIN tunRemotes : TunRuns(b)' <=> TunRuns(b)
      BY <2>1 DEF TunRuns
    <3>4. ConnTypes'
      BY <1>0, <2>1, <2>2, <2>4, <3>1 DEF WInv, ConnTypes
    <3>5. TunRunning'
      BY <2>1, <3>1, <3>2, <3>3 DEF WInv, TunRunning
    <3>6. TunNotices'
      <4>1. ASSUME NEW i \in DOMAIN closeCh', NEW b \in DOMAIN tunRemotes',
                   closeCh'[i][1] = "remote", closeCh'[i][3] = b
            PROVE  ~TunRuns(b)' /\ closeCh'[i][2] = tunRemotes'[b].src /\ reqs'[tunRemotes'[b].src] = b
        <5>1. ~TunRuns(b) /\ closeCh[i + 1][2] = tunRemotes[b].src /\ reqs[tunRemotes[b].src] = b
          BY <4>1, <2>1, <2>2 DEF WInv, TunNotices
        <5>2. b # c
          BY <4>1, <2>1, <2>2, <2>4 DEF WInv, TunNotices, c
        <5> QED BY <4>1, <5>1, <5>2, <2>1, <2>2, <3>2, <3>3
      <4>2. \A i \in DOMAIN closeCh' : closeCh'[i][1] = "remote" => closeCh'[i][3] \in DOMAIN tunRemotes'
        BY <2>1, <2>2 DEF WInv, TunNotices
      <4>3. ASSUME NEW i \in DOMAIN closeCh', NEW j \in DOMAIN closeCh', closeCh'[i][1] = "remote",
                   closeCh'[j][1] = "remote", closeCh'[i][3] = closeCh'[j][3]
            PROVE  i = j
        BY <4>3, <2>2, <2>3 DEF WInv, TunNotices
      <4> QED BY <4>1, <4>2, <4>3 DEF TunNotices
    <3>7. SockTypes'
      BY <2>1, <2>4, SocksKept DEF WInv
    <3> QED BY <3>4, <3>5, <3>6, <3>7 DEF WInv
  <2>5. CASE m[1] = "local" /\ tunLocals' = [tunLocals EXCEPT ![m[2]] = 0] /\ UNCHANGED reqs
    <3>1. SockTypes'
      BY <2>1, <2>5 DEF WInv, SockTypes
    <3>2. ConnTypes' /\ TunRunning'
      BY <2>1, <2>2, <2>5 DEF WInv, ConnTypes, TunRunning, TunRuns
    <3>3. TunNotices'
      <4>1. ASSUME NEW i \in DOMAIN closeCh', NEW b \in DOMAIN tunRemotes',
                   closeCh'[i][1] = "remote", closeCh'[i][3] = b
            PROVE  ~TunRuns(b)' /\ closeCh'[i][2] = tunRemotes'[b].src /\ reqs'[tunRemotes'[b].src] = b
        BY <4>1, <2>1, <2>2, <2>5 DEF WInv, TunNotices, TunRuns
      <4>2. \A i \in DOMAIN closeCh' : closeCh'[i][1] = "remote" => closeCh'[i][3] \in DOMAIN tunRemotes'
        BY <2>1, <2>2 DEF WInv, TunNotices
      <4>3. ASSUME NEW i \in DOMAIN closeCh', NEW j \in DOMAIN closeCh', closeCh'[i][1] = "remote",
                   closeCh'[j][1] = "remote", closeCh'[i][3] = closeCh'[j][3]
            PROVE  i = j
        BY <4>3, <2>2, <2>3 DEF WInv, TunNotices
      <4> QED BY <4>1, <4>2, <4>3 DEF TunNotices
    <3> QED BY <3>1, <3>2, <3>3 DEF WInv
  <2> QED BY <1>3, <2>1, <2>4, <2>5 DEF W!DispatchClose, W!None
<1> QED BY <1>1, <1>2, <1>3

\* The sockets after a change of one of them that keeps its target.
LEMMA SocksExcept ==
    ASSUME SockTypes, NEW n \in DOMAIN socks, NEW r \in TunSock, Len(r.chan) <= ChanCap,
           socks' = [socks EXCEPT ![n] = r]
    PROVE  /\ socks' \in Seq(TunSock) /\ DOMAIN socks' = DOMAIN socks
           /\ \A i \in DOMAIN socks' : Len(socks'[i].chan) <= ChanCap
<1>1. socks \in Seq(TunSock) /\ DOMAIN socks = 1 .. Len(socks)
  BY DEF SockTypes
<1>2. /\ socks' \in Seq(TunSock) /\ Len(socks') = Len(socks)
      /\ \A i \in 1 .. Len(socks) : socks'[i] = IF i = n THEN r ELSE socks[i]
  BY <1>1, ExceptSeq
<1> QED BY <1>1, <1>2 DEF SockTypes

\* A packet arrives at the device.
LEMMA ArrivesStep ==
    ASSUME WInv, NEW s \in Sources, NEW t \in Targets, W!Arrives(s, t)
    PROVE  WInv'
<1>0. /\ socks \in Seq(TunSock) /\ DOMAIN socks = 1 .. Len(socks) /\ Len(socks) \in Nat
      /\ dev \in [Targets -> TunDev] /\ dev[t] \in TunDev /\ fresh \in Seq(Nat)
  BY DEF WInv, SockTypes
<1>1. UNCHANGED <<main, tunLocals, reqs, busy, tunRemotes, dataCh, sockCh, closeCh>>
  BY DEF W!Arrives
<1>2. CASE /\ dev' = [dev EXCEPT ![t].rx = IF Len(@) < ChanCap THEN Append(@, s) ELSE @]
           /\ UNCHANGED <<fresh, socks>>
  <2> DEFINE x == IF Len(dev[t].rx) < ChanCap THEN Append(dev[t].rx, s) ELSE dev[t].rx
             d == [dev[t] EXCEPT !.rx = x]
  <2>1. x \in Seq(Sources)
    BY <1>0 DEF TunDev
  <2>2. dev' = [dev EXCEPT ![t] = d]
    BY <1>0, <1>2
  <2> HIDE DEF x
  <2>3. d \in TunDev /\ d.sock = dev[t].sock
    BY <1>0, <2>1 DEF TunDev
  <2> HIDE DEF d
  <2>4. SockTypes'
    BY <1>0, <1>1, <1>2, <2>2, <2>3 DEF WInv, SockTypes
  <2> QED BY <1>1, <2>4, ConnsKept DEF WInv
<1>3. CASE /\ dev' = [dev EXCEPT ![t] = [sock |-> Len(socks) + 1, rx |-> <<s>>]]
           /\ socks' = Append(socks, [target |-> t, chan |-> <<>>, st |-> "new"])
           /\ fresh' = Append(fresh, Len(socks) + 1)
  <2> DEFINE n == Len(socks) + 1
             none == << >>
             x == <<s>>
             d == [sock |-> n, rx |-> x]
             r == [target |-> t, chan |-> none, st |-> "new"]
  <2>1. none \in Seq(Sources) /\ Len(none) <= ChanCap /\ x \in Seq(Sources) /\ n \in Nat
    BY <1>0, TunAssumption
  <2>2. dev' = [dev EXCEPT ![t] = d] /\ socks' = Append(socks, r)
    BY <1>3
  <2> HIDE DEF none, x
  <2>3. d \in TunDev /\ d.sock = n /\ r \in TunSock /\ r.chan = none
    BY <2>1 DEF TunDev, TunSock
  <2> HIDE DEF d, r
  <2>4. /\ socks' \in Seq(TunSock) /\ DOMAIN socks' = 1 .. n /\ socks'[n] = r
        /\ \A i \in DOMAIN socks : socks'[i] = socks[i] /\ i \in DOMAIN socks'
        /\ \A i \in DOMAIN socks' : i = n \/ i \in DOMAIN socks
    BY <1>0, <2>2, <2>3, AppendProperties
  <2>5. \A i \in DOMAIN socks' : Len(socks'[i].chan) <= ChanCap
    BY <2>1, <2>3, <2>4 DEF WInv, SockTypes
  <2>6. dev' \in [Targets -> TunDev] /\ \A u \in Targets : dev'[u].sock \in {0} \cup DOMAIN socks'
    BY <1>0, <2>1, <2>2, <2>3, <2>4 DEF WInv, SockTypes
  <2>7. fresh' \in Seq(Nat) /\ (\A i \in DOMAIN fresh' : fresh'[i] \in DOMAIN socks') /\ fresh' # << >>
    <3>1. /\ fresh' \in Seq(Nat) /\ fresh' # << >> /\ DOMAIN fresh' = 1 .. Len(fresh) + 1
          /\ \A i \in 1 .. Len(fresh) : fresh'[i] = fresh[i] /\ fresh[i] \in DOMAIN socks
          /\ fresh'[Len(fresh) + 1] = n
      BY SMTT(60), <1>0, <1>3, <2>1, AppendProperties DEF WInv, SockTypes
    <3>2. n \in DOMAIN socks' /\ Len(fresh) \in Nat
      BY <1>0, <2>1, <2>4
    <3>3. \A i \in DOMAIN fresh' : i \in 1 .. Len(fresh) \/ i = Len(fresh) + 1
      BY <3>1, <3>2
    <3> QED BY <3>1, <3>2, <3>3, <2>4
  <2>8. \A i \in DOMAIN sockCh : sockCh[i] \in DOMAIN socks'
    BY <2>4 DEF WInv, SockTypes
  <2>9. \A u \in Targets : tunLocals[u] \in {0} \cup DOMAIN socks'
    BY <2>4 DEF WInv, SockTypes
  <2>10. SockTypes'
    BY <1>1, <2>4, <2>5, <2>6, <2>7, <2>8, <2>9 DEF WInv, SockTypes
  <2> QED BY <1>1, <2>10, ConnsKept DEF WInv
<1> QED BY <1>2, <1>3 DEF W!Arrives

\* A poll of the device: a socket's channel takes no more than it has room for.
LEMMA PollUdpStep ==
    ASSUME WInv, W!PollUdp
    PROVE  WInv'
<1>0. /\ socks \in Seq(TunSock) /\ DOMAIN socks = 1 .. Len(socks) /\ Len(socks) \in Nat
      /\ dev \in [Targets -> TunDev] /\ \A n \in DOMAIN socks : socks[n] \in TunSock
  BY DEF WInv, SockTypes
<1>1. UNCHANGED <<fresh, tunLocals, reqs, busy, tunRemotes, dataCh, sockCh, closeCh>>
  BY DEF W!PollUdp
<1>2. \A t \in Targets : /\ dev[t].rx \in Seq(Sources) /\ W!Moved(t) \in 0 .. Len(dev[t].rx)
                         /\ dev[t].sock # 0 => Len(socks[dev[t].sock].chan) + W!Moved(t) <= ChanCap
  <2> SUFFICES ASSUME NEW t \in Targets
               PROVE  /\ dev[t].rx \in Seq(Sources) /\ W!Moved(t) \in 0 .. Len(dev[t].rx)
                      /\ dev[t].sock # 0 => Len(socks[dev[t].sock].chan) + W!Moved(t) <= ChanCap
    OBVIOUS
  <2>1. dev[t] \in TunDev /\ dev[t].rx \in Seq(Sources) /\ Len(dev[t].rx) \in Nat
    BY <1>0 DEF TunDev
  <2>2. CASE dev[t].sock = 0
    BY <2>1, <2>2 DEF W!Moved, W!None
  <2>3. CASE dev[t].sock # 0
    <3> DEFINE n == dev[t].sock
               k == Len(socks[n].chan)
    <3>1. n \in DOMAIN socks
      BY <2>3 DEF WInv, SockTypes
    <3>2. socks[n] \in TunSock /\ k <= ChanCap
      BY <1>0, <3>1 DEF WInv, SockTypes
    <3>3. k \in Nat
      BY <3>2 DEF TunSock
    <3>4. W!Moved(t) = IF Len(dev[t].rx) <= ChanCap - k THEN Len(dev[t].rx) ELSE ChanCap - k
      BY <2>3 DEF W!Moved, W!Least, W!None
    <3> HIDE DEF k
    <3>5. W!Moved(t) \in 0 .. Len(dev[t].rx) /\ k + W!Moved(t) <= ChanCap
      BY <2>1, <3>2, <3>3, <3>4, TunAssumption
    <3> QED BY <2>1, <3>5 DEF k
  <2> QED BY <2>2, <2>3
<1>3. dev' \in [Targets -> TunDev] /\ \A t \in Targets : dev'[t].sock \in {0, dev[t].sock}
  <2> SUFFICES ASSUME NEW t \in Targets
               PROVE  dev'[t] \in TunDev /\ dev'[t].sock \in {0, dev[t].sock}
    BY DEF W!PollUdp
  <2> DEFINE x == SubSeq(dev[t].rx, W!Moved(t) + 1, Len(dev[t].rx))
             d == [dev[t] EXCEPT !.rx = x]
             none == << >>
  <2>1. x \in Seq(Sources) /\ none \in Seq(Sources)
    BY <1>2, SubSeqProperties
  <2>2. dev'[t] \in {[sock |-> 0, rx |-> none], d}
    BY DEF W!PollUdp, W!NoSocket, W!None
  <2> HIDE DEF x, none
  <2>3. d \in TunDev /\ d.sock = dev[t].sock
    BY <1>0, <2>1 DEF TunDev
  <2>4. [sock |-> 0, rx |-> none] \in TunDev
    BY <2>1 DEF TunDev
  <2>5. [sock |-> 0, rx |-> none].sock = 0
    OBVIOUS
  <2> HIDE DEF d
  <2> QED BY <2>2, <2>3, <2>4, <2>5
<1>4. \A n \in DOMAIN socks : socks'[n] \in TunSock /\ Len(socks'[n].chan) <= ChanCap
  <2> SUFFICES ASSUME NEW n \in DOMAIN socks
               PROVE  socks'[n] \in TunSock /\ Len(socks'[n].chan) <= ChanCap
    OBVIOUS
  <2> DEFINE t == socks[n].target
             x == SubSeq(dev[t].rx, 1, W!Moved(t))
             q == socks[n].chan \o x
             r == [socks[n] EXCEPT !.chan = q]
  <2>1. t \in Targets /\ socks[n].chan \in Seq(Sources) /\ n # 0 /\ Len(socks[n].chan) <= ChanCap
    BY <1>0 DEF WInv, SockTypes, TunSock
  <2>2. socks'[n] = socks[n] \/ (dev[t].sock = n /\ socks'[n] = r)
    BY DEF W!PollUdp
  <2>3. x \in Seq(Sources) /\ Len(x) = W!Moved(t)
    BY <1>2, <2>1, SubSeqProperties
  <2> HIDE DEF x, t
  <2>4. q \in Seq(Sources) /\ Len(q) = Len(socks[n].chan) + W!Moved(t)
    BY ZenonT(60), <2>1, <2>3, ConcatProperties
  <2> HIDE DEF q
  <2>5. r \in TunSock /\ r.chan = q
    BY <1>0, <2>4 DEF TunSock
  <2> HIDE DEF r
  <2>6. dev[t].sock = n => Len(q) <= ChanCap
    BY <1>2, <2>1, <2>4 DEF t
  <2> QED BY <1>0, <2>1, <2>2, <2>5, <2>6
<1>5. socks' \in Seq(TunSock) /\ DOMAIN socks' = DOMAIN socks
  <2>1. DOMAIN socks' = 1 .. Len(socks) /\ socks' = [n \in 1 .. Len(socks) |-> socks'[n]]
    BY <1>0 DEF W!PollUdp
  <2>2. socks' \in [1 .. Len(socks) -> TunSock]
    BY <1>0, <1>4, <2>1
  <2> QED BY <1>0, <2>1, <2>2, SeqDef
<1>6. main' \in {"poll", "hand"} /\ (main' = "hand" => fresh' # << >>)
  BY <1>1 DEF W!PollUdp
<1>7. SockTypes'
  BY <1>1, <1>3, <1>4, <1>5, <1>6 DEF WInv, SockTypes
<1> QED BY <1>1, <1>7, ConnsKept DEF WInv

\* A new socket is handed to the dispatcher; a socket's task reads, ends, or tells
\* the dispatcher its end.
LEMMA SocketSteps ==
    ASSUME WInv, W!HandOver \/ \E n \in DOMAIN socks : W!SocketStep(n)
    PROVE  WInv'
<1>0. /\ socks \in Seq(TunSock) /\ DOMAIN socks = 1 .. Len(socks)
      /\ \A n \in DOMAIN socks : /\ socks[n] \in TunSock /\ socks[n].target \in Targets
                                 /\ socks[n].chan \in Seq(Sources) /\ Len(socks[n].chan) <= ChanCap
      /\ dataCh \in Seq(Sources \X Targets) /\ closeCh \in Seq(TunClose)
  <2>1. socks \in Seq(TunSock) /\ DOMAIN socks = 1 .. Len(socks)
    BY DEF WInv, SockTypes
  <2>2. \A n \in DOMAIN socks : socks[n] \in TunSock
    BY <2>1
  <2> QED BY <2>1, <2>2 DEF WInv, SockTypes, ConnTypes, TunSock
<1>1. CASE W!HandOver
  <2> DEFINE n == Head(fresh)
             r == [socks[n] EXCEPT !.st = "read"]
  <2>1. /\ fresh # << >> /\ fresh \in Seq(Nat) /\ n = fresh[1] /\ n \in DOMAIN socks /\ n \in Nat
    BY <1>1 DEF WInv, SockTypes, W!HandOver
  <2>2. /\ sockCh' = Append(sockCh, n) /\ fresh' = Tail(fresh) /\ socks' = [socks EXCEPT ![n] = r]
        /\ main' = (IF fresh' = << >> THEN "poll" ELSE "hand")
        /\ UNCHANGED <<dev, tunLocals, reqs, busy, tunRemotes, dataCh, closeCh>>
    BY <1>1 DEF W!HandOver
  <2> HIDE DEF n
  <2>3. r \in TunSock /\ r.chan = socks[n].chan
    BY <1>0, <2>1 DEF TunSock
  <2> HIDE DEF r
  <2>4. /\ socks' \in Seq(TunSock) /\ DOMAIN socks' = DOMAIN socks
        /\ \A i \in DOMAIN socks' : Len(socks'[i].chan) <= ChanCap
    BY <1>0, <2>1, <2>2, <2>3, SocksExcept DEF WInv
  <2>5. fresh' \in Seq(Nat) /\ \A i \in DOMAIN fresh' : fresh'[i] \in DOMAIN socks
    <3>1. /\ fresh' \in Seq(Nat) /\ Len(fresh') = Len(fresh) - 1
          /\ \A i \in 1 .. Len(fresh') : fresh'[i] = fresh[i + 1]
      BY <2>1, <2>2, HeadTailProperties
    <3>2. \A i \in DOMAIN fresh' : i \in 1 .. Len(fresh') /\ i + 1 \in DOMAIN fresh
      BY SMTT(60), <2>1, <3>1
    <3> QED BY <3>1, <3>2 DEF WInv, SockTypes
  <2>6. sockCh' \in Seq(Nat) /\ \A i \in DOMAIN sockCh' : sockCh'[i] \in DOMAIN socks
    <3>1. /\ sockCh' \in Seq(Nat) /\ DOMAIN sockCh' = 1 .. Len(sockCh) + 1 /\ Len(sockCh) \in Nat
          /\ \A i \in 1 .. Len(sockCh) : sockCh'[i] = sockCh[i] /\ sockCh[i] \in DOMAIN socks
          /\ sockCh'[Len(sockCh) + 1] = n
      BY SMTT(60), <2>1, <2>2, AppendProperties DEF WInv, SockTypes
    <3>2. \A i \in DOMAIN sockCh' : i \in 1 .. Len(sockCh) \/ i = Len(sockCh) + 1
      BY <3>1
    <3> QED BY <3>1, <3>2, <2>1
  <2>7. SockTypes'
    BY <2>2, <2>4, <2>5, <2>6 DEF WInv, SockTypes
  <2> QED BY <2>2, <2>7, ConnsKept DEF WInv
<1>2. ASSUME NEW n \in DOMAIN socks, W!LocalRecv(n) PROVE WInv'
  <2> DEFINE q == Tail(socks[n].chan)
             r == [socks[n] EXCEPT !.chan = q]
  <2>1. /\ socks' = [socks EXCEPT ![n] = r] /\ dataCh' = Append(dataCh, <<Head(socks[n].chan), socks[n].target>>)
        /\ UNCHANGED <<main, dev, fresh, tunLocals, reqs, busy, tunRemotes, sockCh, closeCh>>
    BY <1>2 DEF W!LocalRecv
  <2>2. q \in Seq(Sources) /\ Len(q) <= ChanCap /\ Head(socks[n].chan) \in Sources
    BY <1>0, <1>2, TunAssumption, HeadTailProperties DEF W!LocalRecv
  <2> HIDE DEF q
  <2>3. r \in TunSock /\ r.chan = q
    BY <1>0, <2>2 DEF TunSock
  <2> HIDE DEF r
  <2>4. /\ socks' \in Seq(TunSock) /\ DOMAIN socks' = DOMAIN socks
        /\ \A i \in DOMAIN socks' : Len(socks'[i].chan) <= ChanCap
    BY <2>1, <2>2, <2>3, SocksExcept DEF WInv
  <2>5. SockTypes'
    BY <2>1, <2>4 DEF WInv, SockTypes
  <2>6. dataCh' \in Seq(Sources \X Targets)
    BY <1>0, <2>1, <2>2, AppendProperties
  <2> QED BY <2>1, <2>5, <2>6 DEF WInv, ConnTypes, TunRunning, TunNotices, TunRuns
<1>3. ASSUME NEW n \in DOMAIN socks, W!LocalEnds(n) PROVE WInv'
  <2> DEFINE r == [socks[n] EXCEPT !.st = "told"]
  <2>1. /\ socks' = [socks EXCEPT ![n] = r]
        /\ UNCHANGED <<main, dev, fresh, tunLocals, reqs, busy, tunRemotes, dataCh, sockCh, closeCh>>
    BY <1>3 DEF W!LocalEnds
  <2>2. r \in TunSock /\ r.chan = socks[n].chan
    BY <1>0 DEF TunSock
  <2> HIDE DEF r
  <2>3. /\ socks' \in Seq(TunSock) /\ DOMAIN socks' = DOMAIN socks
        /\ \A i \in DOMAIN socks' : Len(socks'[i].chan) <= ChanCap
    BY <1>0, <2>1, <2>2, SocksExcept DEF WInv
  <2>4. SockTypes'
    BY <2>1, <2>3 DEF WInv, SockTypes
  <2> QED BY <2>1, <2>4, ConnsKept DEF WInv
<1>4. ASSUME NEW n \in DOMAIN socks, W!LocalTells(n) PROVE WInv'
  <2> DEFINE none == << >>
             r == [socks[n] EXCEPT !.st = "done", !.chan = none]
             m == <<"local", socks[n].target, n>>
  <2>1. /\ socks' = [socks EXCEPT ![n] = r] /\ closeCh' = Append(closeCh, m)
        /\ UNCHANGED <<main, dev, fresh, tunLocals, reqs, busy, tunRemotes, dataCh, sockCh>>
    BY <1>0, <1>4 DEF W!LocalTells
  <2>2. none \in Seq(Sources) /\ Len(none) <= ChanCap /\ m \in TunClose /\ m[1] # "remote"
    BY <1>0, TunAssumption DEF TunClose
  <2> HIDE DEF none, m
  <2>3. r \in TunSock /\ r.chan = none
    BY <1>0, <2>2 DEF TunSock
  <2> HIDE DEF r
  <2>4. /\ socks' \in Seq(TunSock) /\ DOMAIN socks' = DOMAIN socks
        /\ \A i \in DOMAIN socks' : Len(socks'[i].chan) <= ChanCap
    BY <2>1, <2>2, <2>3, SocksExcept DEF WInv
  <2>5. SockTypes'
    BY <2>1, <2>4 DEF WInv, SockTypes
  <2>6. /\ closeCh' \in Seq(TunClose) /\ \A i \in DOMAIN closeCh : closeCh'[i] = closeCh[i]
        /\ \A i \in DOMAIN closeCh' : closeCh'[i][1] = "remote" => i \in DOMAIN closeCh
    <3>1. /\ closeCh' \in Seq(TunClose) /\ DOMAIN closeCh' = 1 .. Len(closeCh) + 1 /\ Len(closeCh) \in Nat
          /\ closeCh'[Len(closeCh) + 1] = m /\ \A i \in 1 .. Len(closeCh) : closeCh'[i] = closeCh[i]
      BY <1>0, <2>1, <2>2, AppendProperties
    <3>2. \A i \in DOMAIN closeCh' : i \in DOMAIN closeCh \/ i = Len(closeCh) + 1
      BY <1>0, <3>1
    <3>3. closeCh'[Len(closeCh) + 1][1] # "remote"
      BY <2>2, <3>1
    <3>4. DOMAIN closeCh = 1 .. Len(closeCh)
      BY <1>0
    <3>5. \A i \in DOMAIN closeCh' : closeCh'[i][1] = "remote" => i # Len(closeCh) + 1
      BY <3>3
    <3>6. \A i \in DOMAIN closeCh' : closeCh'[i][1] = "remote" => i \in DOMAIN closeCh
      BY <3>2, <3>5
    <3> QED BY <3>1, <3>4, <3>6
  <2>7. ConnTypes' /\ TunRunning'
    BY <2>1, <2>6 DEF WInv, ConnTypes, TunRunning, TunRuns
  <2>8. TunNotices'
    BY <2>1, <2>6 DEF WInv, TunNotices, TunRuns
  <2> QED BY <2>5, <2>7, <2>8 DEF WInv
<1> QED BY <1>1, <1>2, <1>3, <1>4 DEF W!SocketStep

\* Every step of the wintun proxy's tasks.
LEMMA TunNextInv == WInv /\ [W!WNext]_(W!wvars) => WInv'
<1> SUFFICES ASSUME WInv, [W!WNext]_(W!wvars) PROVE WInv'
  OBVIOUS
<1>1. ASSUME NEW s \in Sources, NEW t \in Targets, W!Arrives(s, t) PROVE WInv'
  BY <1>1, ArrivesStep
<1>2. CASE W!PollUdp
  BY <1>2, PollUdpStep
<1>3. CASE W!HandOver \/ \E n \in DOMAIN socks : W!SocketStep(n)
  BY <1>3, SocketSteps
<1>4. CASE W!DispatchStep
  BY <1>4, DispatchDataStep, DispatchOtherSteps DEF W!DispatchStep
<1>5. ASSUME NEW c \in DOMAIN tunRemotes, W!UpStep(c) \/ W!DownStep(c) PROVE WInv'
  BY <1>5, TunConnSteps
<1>6. ASSUME NEW c \in DOMAIN tunRemotes, NEW some \in BOOLEAN, W!RemoteAnswers(c, some) PROVE WInv'
  BY <1>6, SocksKept, ConnsKept DEF WInv, W!RemoteAnswers
<1>7. CASE UNCHANGED W!wvars
  BY <1>7, SocksKept, ConnsKept DEF WInv, W!wvars
<1> QED BY <1>1, <1>2, <1>3, <1>4, <1>5, <1>6, <1>7 DEF W!WNext, W!MainStep

LEMMA TunInvCurrent == WInv => W!RemoteNoticeIsCurrent
<1> SUFFICES ASSUME WInv PROVE W!RemoteNoticeIsCurrent
  OBVIOUS
<1>1. W!WTypeOK
  <2>1. \A n \in DOMAIN socks : socks[n] \in TunSock
    BY DEF WInv, SockTypes
  <2>2. \A c \in DOMAIN tunRemotes : tunRemotes[c] \in TunConn
    BY DEF WInv, ConnTypes
  <2> QED BY <2>1, <2>2 DEF WInv, SockTypes, ConnTypes, W!WTypeOK, W!None, TunSock, TunConn
<1>2. \A i \in DOMAIN closeCh : closeCh[i][1] = "remote" => reqs[closeCh[i][2]] = closeCh[i][3]
  BY DEF WInv, TunNotices
<1>3. \A c \in DOMAIN tunRemotes : tunRemotes[c].up = "connect" => reqs[tunRemotes[c].src] = c
  BY DEF WInv, TunRunning, TunRuns
<1> QED BY <1>1, <1>2, <1>3 DEF W!RemoteNoticeIsCurrent

\* The same for the dispatcher of awintun (udp.rs: req_senders.remove by source).
THEOREM TunNoticesCurrent == W!WSpec => []W!RemoteNoticeIsCurrent
<1>1. W!WSpec => []WInv
  BY TunInitInv, TunNextInv, PTL DEF W!WSpec
<1> QED BY <1>1, TunInvCurrent, PTL

-----------------------------------------------------------------------------
(* Both *)

LEMMA BothInv == MCSpec => [](IInv /\ WInv)
<1>1. MCInit => IInv /\ WInv
  BY InitInv, TunInitInv DEF MCInit
<1>2. IInv /\ WInv /\ [MCNext]_all => (IInv /\ WInv)'
  <2> SUFFICES ASSUME IInv, WInv, [MCNext]_all PROVE IInv' /\ WInv'
    OBVIOUS
  <2>1. CASE ProxyTurn(Next)
    <3>1. IInv'
      BY <2>1, NextInv DEF ProxyTurn
    <3>2. WInv'
      BY <2>1, TunNextInv DEF ProxyTurn, tun, W!wvars
    <3> QED BY <3>1, <3>2
  <2>2. CASE TunTurn(W!WNext)
    <3>1. IInv'
      BY <2>2, NextInv DEF TunTurn
    <3>2. WInv'
      BY <2>2, TunNextInv DEF TunTurn
    <3> QED BY <3>1, <3>2
  <2>3. CASE UNCHANGED all
    <3>1. IInv'
      BY <2>3, NextInv DEF all
    <3>2. WInv'
      BY <2>3, TunNextInv DEF all, tun, W!wvars
    <3> QED BY <3>1, <3>2
  <2> QED BY <2>1, <2>2, <2>3 DEF MCNext
<1> QED BY <1>1, <1>2, PTL DEF MCSpec

\* In both async UDP proxies a notice meets the connection it is about, whatever the
\* number of sources, connections and packets and the size of the channels, and in
\* whatever order the tasks of the connections end and the loops hear of it.
THEOREM NoticesMeetTheirConnection == MCSpec => []NoticesAreCurrent
<1>1. IInv /\ WInv => NoticesAreCurrent
  BY InvCurrent, TunInvCurrent DEF NoticesAreCurrent
<1> QED BY <1>1, BothInv, PTL

\* The sweep of run_udp (Arc::strong_count) never drops a socket that a connection
\* still answers through.
THEOREM SweepSparesUsed == MCSpec => []SocketsCached
<1>1. IInv /\ WInv => SocketsCached
  BY DEF IInv
<1> QED BY <1>1, BothInv, PTL
=============================================================================
