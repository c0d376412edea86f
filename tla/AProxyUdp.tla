----------------------------- MODULE AProxyUdp -----------------------------
(***************************************************************************)
(* The UDP side of the async proxy (src/src/aproxy/udp.rs): run_udp reads  *)
(* packets and hands each to the connection of its source; a connection is *)
(* a local_to_remote task behind a bounded queue and, once connected, a    *)
(* remote_to_local task.  A connection that ends leaves a notice in a      *)
(* bounded channel that only run_udp reads.                                *)
(*                                                                         *)
(* Connections are numbered: a number is a connection's identity, which    *)
(* the code does not have; it knows connections by their source.  Numbers  *)
(* of forgotten connections are used again.                                *)
(***************************************************************************)
EXTENDS Naturals, Sequences, FiniteSets

CONSTANTS
    Srcs, Dsts, \* source and target addresses
    NConns,     \* bound on the connections that exist at once
    QCap,       \* capacity of a connection's queue (1024)
    NoticeCap   \* capacity of the channel of notices (1024)

ASSUME ConstAssumption == {NConns, QCap, NoticeCap} \subseteq Nat \ {0}

Ids == 1 .. NConns
None == 0

VARIABLES
    remotes,    \* run_udp: the connection whose sender is kept for a source
    locals,     \* run_udp: targets a socket is bound for
    loop,       \* run_udp: << >> or <<c, d>>, awaiting room in c's queue
    notices,    \* the channel of ended connections: <<source, number>>
    conn,       \* the connections' tasks, see Conn
    delivered   \* answers sent to sources: <<who answered, in whose name>>

vars == <<remotes, locals, loop, notices, conn, delivered>>

\* st: local_to_remote; rd: remote_to_local; tx: the queue has a sender;
\* link: the TLS connection can be written; asked: targets of forwarded packets.
Conn ==
    [ src: Srcs, sock: Dsts, q: Seq(Dsts), tx: BOOLEAN,
      st: {"connecting", "failed", "up", "done"}, rd: {"none", "read", "closing", "done"},
      link: {"up", "shut"}, asked: SUBSET Dsts ]

Free(c) ==
    /\ conn[c].st = "done" /\ conn[c].rd \in {"none", "done"}
    /\ \A s \in Srcs : remotes[s] # c
    /\ \A k \in 1 .. Len(notices) : notices[k][2] # c

Listening(c) == conn[c].st # "done"

\* Init: all numbers are free.
Init ==
    /\ remotes = [s \in Srcs |-> None] /\ locals = {} /\ loop = <<>> /\ notices = <<>>
    /\ \E s \in Srcs, d \in Dsts :
        conn = [c \in Ids |-> [ src |-> s, sock |-> d, q |-> <<>>, tx |-> FALSE,
                                st |-> "done", rd |-> "done", link |-> "shut", asked |-> {} ]]
    /\ delivered = {}

-----------------------------------------------------------------------------
(* run_udp *)

\* A packet of s for d: its connection is found or made, then the packet is sent
\* into its queue.
PacketKnown ==
    \E s \in Srcs, d \in Dsts :
        /\ loop = <<>> /\ remotes[s] # None
        /\ loop' = <<remotes[s], d>>
        /\ UNCHANGED <<remotes, locals, notices, conn, delivered>>

PacketNew ==
    \E s \in Srcs, d \in Dsts, c \in Ids :
        /\ loop = <<>> /\ remotes[s] = None
        /\ Free(c) /\ \A b \in Ids : Free(b) => c <= b
        /\ locals' = locals \cup {d}
        /\ remotes' = [remotes EXCEPT ![s] = c]
        /\ conn' = [conn EXCEPT ![c] =
                      [ src |-> s, sock |-> d, q |-> <<>>, tx |-> TRUE, st |-> "connecting",
                        rd |-> "none", link |-> "up", asked |-> {} ]]
        /\ loop' = <<c, d>>
        /\ UNCHANGED <<notices, delivered>>

\* The tasks that hold a clone of the socket.
Holds(c) == conn[c].st \in {"connecting", "failed"} \/ conn[c].rd \in {"read", "closing"}

\* Mutant: sockets that are in use expire, too.
SweptAll == {}

\* The sockets with a strong count above one.
Swept == { d \in locals : \E c \in Ids : Holds(c) /\ conn[c].sock = d }

\* The send is done: the packet is queued, or the queue has no receiver.  After
\* an hour every packet sweeps the sockets.
SendDone ==
    /\ loop # <<>>
    /\ LET c == loop[1] IN
        /\ Listening(c) => Len(conn[c].q) < QCap
        /\ conn' = IF Listening(c) THEN [conn EXCEPT ![c].q = Append(@, loop[2])] ELSE conn
    /\ loop' = <<>>
    /\ locals' \in {locals, Swept}
    /\ UNCHANGED <<remotes, notices, delivered>>

\* A notice removes the sender of its source.
HandleNotice ==
    /\ loop = <<>> /\ notices # <<>>
    /\ LET s == Head(notices)[1] IN
        /\ remotes' = [remotes EXCEPT ![s] = None]
        /\ conn' = IF remotes[s] = None THEN conn ELSE [conn EXCEPT ![remotes[s]].tx = FALSE]
    /\ notices' = Tail(notices)
    /\ UNCHANGED <<locals, loop, delivered>>

-----------------------------------------------------------------------------
(* local_to_remote *)

Step(c, r) == conn' = [conn EXCEPT ![c] = r] /\ UNCHANGED <<remotes, locals, loop, delivered>>
Notify(c) == Len(notices) < NoticeCap /\ notices' = Append(notices, <<conn[c].src, c>>)

\* init_tls_conn and the request.
Connected(c) ==
    /\ conn[c].st = "connecting"
    /\ Step(c, [conn[c] EXCEPT !.st = "up", !.rd = "read"]) /\ UNCHANGED notices

ConnectFails(c) ==
    /\ conn[c].st = "connecting"
    /\ Step(c, [conn[c] EXCEPT !.st = "failed", !.link = "shut"]) /\ UNCHANGED notices

\* Mutant: the notice waits for the queue to be drained first.
FailedWaits(c) ==
    /\ conn[c].st = "failed" /\ conn[c].q = <<>> /\ Notify(c)
    /\ Step(c, [conn[c] EXCEPT !.st = "done"])

\* The queue keeps its receiver until the notice is out.
FailedNotice(c) ==
    /\ conn[c].st = "failed" /\ Notify(c)
    /\ Step(c, [conn[c] EXCEPT !.st = "done", !.q = <<>>])

\* A write to a connection that is gone may still succeed.
Forward(c) ==
    /\ conn[c].st = "up" /\ conn[c].q # <<>>
    /\ Step(c, [conn[c] EXCEPT !.q = Tail(@),
                  !.asked = IF conn[c].link = "up" THEN @ \cup {Head(conn[c].q)} ELSE @])
    /\ UNCHANGED notices

\* Mutant: local_to_remote reports its end as well.
WriteFailsNotice(c) ==
    /\ conn[c].st = "up" /\ conn[c].q # <<>> /\ conn[c].link = "shut" /\ Notify(c)
    /\ Step(c, [conn[c] EXCEPT !.st = "done", !.q = <<>>])

WriteFails(c) ==
    /\ conn[c].st = "up" /\ conn[c].q # <<>> /\ conn[c].link = "shut"
    /\ Step(c, [conn[c] EXCEPT !.st = "done", !.q = <<>>]) /\ UNCHANGED notices

\* Mutant: the task stays when its sender is gone.
QueueEndsNever(c) == FALSE /\ UNCHANGED vars

\* recv returns None.
QueueEnds(c) ==
    /\ conn[c].st = "up" /\ conn[c].q = <<>> /\ ~conn[c].tx
    /\ Step(c, [conn[c] EXCEPT !.st = "done", !.link = "shut"]) /\ UNCHANGED notices

-----------------------------------------------------------------------------
(* remote_to_local *)

\* An answer, sent through the connection's one socket.
Deliver(c) ==
    \E d \in conn[c].asked :
        /\ conn[c].rd = "read" /\ conn[c].link = "up"
        /\ delivered' = delivered \cup {<<d, conn[c].sock>>}
        /\ UNCHANGED <<remotes, locals, loop, notices, conn>>

\* The end of the connection, an invalid frame, or udp_idle_timeout seconds
\* without an answer.
ReadEnds(c) ==
    /\ conn[c].rd = "read"
    /\ Step(c, [conn[c] EXCEPT !.rd = "closing"]) /\ UNCHANGED notices

ReaderNotice(c) ==
    /\ conn[c].rd = "closing" /\ Notify(c)
    /\ Step(c, [conn[c] EXCEPT !.rd = "done"])

\* The server or the network ends the connection.
ServerCloses(c) ==
    /\ conn[c].st = "up" /\ conn[c].link = "up"
    /\ Step(c, [conn[c] EXCEPT !.link = "shut"]) /\ UNCHANGED notices

-----------------------------------------------------------------------------

Next ==
    \/ PacketKnown \/ PacketNew \/ SendDone \/ HandleNotice
    \/ \E c \in Ids :
        \/ Connected(c) \/ ConnectFails(c) \/ FailedNotice(c) \/ Forward(c)
        \/ WriteFails(c) \/ QueueEnds(c)
        \/ Deliver(c) \/ ReadEnds(c) \/ ReaderNotice(c) \/ ServerCloses(c)

Spec == Init /\ [][Next]_vars

\* Tasks whose await is over run.  select! takes ready branches at random, so
\* that a notice is not passed over for ever.  Connecting ends, and the server
\* reads what it is sent.
FairSpec ==
    /\ Spec /\ WF_vars(SendDone) /\ SF_vars(HandleNotice)
    /\ \A c \in Ids :
        /\ WF_vars(Connected(c) \/ ConnectFails(c)) /\ WF_vars(Forward(c) \/ WriteFails(c))
        /\ WF_vars(QueueEnds(c)) /\ WF_vars(FailedNotice(c)) /\ WF_vars(ReaderNotice(c))

-----------------------------------------------------------------------------
(* Properties *)

\* Every variable keeps its type; a queue and the channel of notices hold no
\* more than their capacity.
TypeOK ==
    /\ remotes \in [Srcs -> {None} \cup Ids] /\ locals \subseteq Dsts
    /\ loop = <<>> \/ loop \in Ids \X Dsts
    /\ notices \in Seq(Srcs \X Ids) /\ Len(notices) <= NoticeCap
    /\ conn \in [Ids -> Conn] /\ \A c \in Ids : Len(conn[c].q) <= QCap
    /\ delivered \subseteq Dsts \X Dsts

\* Connections are removed by source: a notice, sent or about to be sent, always
\* meets the connection it is about, never a successor of the same source.  The
\* channels keep within their capacities.
NoticeIsCurrent ==
    /\ TypeOK
    /\ \A k \in 1 .. Len(notices) : remotes[notices[k][1]] = notices[k][2]
    /\ \A c \in Ids : (conn[c].st = "failed" \/ conn[c].rd = "closing") => remotes[conn[c].src] = c

\* A socket that a connection still answers through is kept, so that no second
\* one is bound to its address.
SocketsCached == \A c \in Ids : Holds(c) => conn[c].sock \in locals

\* run_udp waits for room in one queue at a time, and all sources wait with it;
\* the wait ends unless the channel of notices is full.
LoopUnblocks == []<>(loop = <<>> \/ Len(notices) = NoticeCap)

\* A connection whose answers have ended is forgotten, so that the next packet of
\* its source opens a new one, and its local_to_remote ends with it.
EndedIsForgotten ==
    \A c \in Ids : []<>(\/ conn[c].st # "failed" /\ conn[c].rd \in {"none", "read"}
                        \/ conn[c].st = "done" /\ remotes[conn[c].src] # c)

\* PRINCIPLE.md, UDP: an answer must be sent in the name of the target it comes
\* from.
AnsweredInName == \A p \in delivered : p[1] = p[2]
=============================================================================
