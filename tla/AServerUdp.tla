----------------------------- MODULE AServerUdp -----------------------------
(***************************************************************************)
(* A UDP connection of the async server (src/src/aserver/udp.rs): the loop *)
(* of start_udp takes packets out of the client's stream and sends them to *)
(* their targets; target_to_source sends answers back.  With               *)
(* disable_udp_hole the loop tells it, through a bounded channel, whose    *)
(* answers are wanted.                                                     *)
(*                                                                         *)
(* Packets have numbers; each is two halves on the stream, so that a read  *)
(* may end inside one.                                                     *)
(***************************************************************************)
EXTENDS Naturals, Sequences

CONSTANTS
    Targets,    \* addresses
    Privates,   \* those of them that is_private names
    NPackets,   \* packets of the client
    ChanCap,    \* capacity of the channel (1024)
    MaxExtra    \* answers that nobody asked for

VARIABLES
    packets,    \* what the client's packets name: [to, byName], or bad ones
    hole,       \* disable_udp_hole
    source,     \* the stream of the client: [out, wire, open]
    ubuf,       \* start_udp's buffer: halves <<packet, 1 or 2>>
    main,       \* where start_udp is
    names,      \* dns_cache_store
    chan,       \* the channel of addresses
    relay,      \* target_to_source: "select" or "done"
    sources,    \* its map: targets, "none", "fresh" or "old" (60 seconds)
    answers,    \* what has arrived at the socket: targets
    extra,      \* answers nobody asked for, so far
    sentTo,     \* packets sent to their targets
    passed,     \* targets whose answers were written to the client
    recent      \* targets of the client's packets of the last 60 seconds

vars == <<packets, hole, source, ubuf, main, names, chan, relay, sources, answers, extra,
          sentTo, passed, recent>>

mainVars == <<ubuf, main, names, sentTo>>
relayVars == <<relay, sources, passed>>

Packet == [to: Targets, byName: BOOLEAN, bad: BOOLEAN]

Halves(n) == [k \in 1 .. 2 * n |-> <<(k + 1) \div 2, 2 - (k % 2)>>]

\* The first n halves came with the request head.
Init ==
    /\ packets \in [1 .. NPackets -> {p \in Packet : p.bad => ~p.byName}] /\ hole \in BOOLEAN
    /\ \E n \in 0 .. 1 :
        /\ ubuf = SubSeq(Halves(NPackets), 1, n)
        /\ source = [out |-> n, wire |-> <<>>, open |-> TRUE]
    /\ main = "parse" /\ names = {} /\ chan = <<>>
    /\ relay = "select" /\ sources = [t \in Targets |-> "none"]
    /\ answers = <<>> /\ extra = 0 /\ sentTo = <<>> /\ passed = {} /\ recent = {}

-----------------------------------------------------------------------------
(* start_udp *)

Current == packets[ubuf[1][1]]
Complete == Len(ubuf) >= 2

Goto(m) ==
    /\ main' = m
    /\ UNCHANGED <<packets, hole, source, ubuf, names, chan, answers, extra, sentTo, recent, relayVars>>

\* UdpAssociate::parse.
ParsePacket ==
    /\ main = "parse" /\ Complete /\ ~Current.bad
    /\ Goto(IF Current.byName /\ Current.to \notin names THEN "lookup" ELSE "check")

ParseInvalid ==
    /\ main = "parse" /\ Complete /\ Current.bad
    /\ Goto("done")

ParseContinued ==
    /\ main = "parse" /\ ~Complete
    /\ Goto("read")

Lookup ==
    /\ main = "lookup" /\ names' = names \cup {Current.to} /\ main' = "check"
    /\ UNCHANGED <<packets, hole, source, ubuf, chan, answers, extra, sentTo, recent, relayVars>>

\* Mutant: the packet is skipped.
LookupFailsSkips ==
    /\ main = "lookup" /\ main' = "parse" /\ ubuf' = SubSeq(ubuf, 3, Len(ubuf))
    /\ UNCHANGED <<packets, hole, source, names, chan, answers, extra, sentTo, recent, relayVars>>

\* The packet stays in the buffer and is parsed and looked up again.
LookupFails ==
    /\ main = "lookup" /\ Goto("parse")

Private ==
    /\ main = "check" /\ Current.to \in Privates
    /\ Goto("done")

\* With disable_udp_hole the address goes to target_to_source first; the send
\* waits for room, and fails without consequence when that task has ended.
Announce ==
    /\ main = "check" /\ Current.to \notin Privates
    /\ hole /\ relay # "done" => Len(chan) < ChanCap
    /\ chan' = IF hole /\ relay # "done" THEN Append(chan, Current.to) ELSE chan
    /\ recent' = recent \cup {Current.to}
    /\ main' = "send"
    /\ UNCHANGED <<packets, hole, source, ubuf, names, answers, extra, sentTo, relayVars>>

SendTo ==
    /\ main = "send"
    /\ sentTo' = Append(sentTo, ubuf[1][1]) /\ ubuf' = SubSeq(ubuf, 3, Len(ubuf))
    /\ main' = "parse"
    /\ UNCHANGED <<packets, hole, source, names, chan, answers, extra, recent, relayVars>>

SendToFails ==
    /\ main = "send" /\ Goto("done")

Read ==
    /\ main = "read"
    /\ \E n \in 1 .. Len(source.wire) :
        /\ ubuf' = ubuf \o SubSeq(source.wire, 1, n)
        /\ source' = [source EXCEPT !.wire = SubSeq(@, n + 1, Len(@))]
    /\ main' = "parse"
    /\ UNCHANGED <<packets, hole, names, chan, answers, extra, sentTo, recent, relayVars>>

\* Mutant: the loop reads without a limit of time.
ReadEndsByClient ==
    /\ main = "read" /\ source.wire = <<>> /\ ~source.open
    /\ Goto("done")

\* The client has ended, or udp_idle_timeout seconds have passed.
ReadEnds ==
    /\ main = "read" /\ source.wire = <<>>
    /\ Goto("done")

-----------------------------------------------------------------------------
(* target_to_source *)

\* Nothing for udp_idle_timeout seconds, an error of the socket, or the end of
\* the channel.  The shutdown of its half tells the client.
RelayEnds ==
    /\ relay = "select" /\ relay' = "done"
    /\ chan' = <<>>
    /\ UNCHANGED <<packets, hole, source, answers, extra, recent, sources, passed, mainVars>>
RelayIdles == chan = <<>> /\ answers = <<>> /\ RelayEnds
RecvFails == RelayEnds
ChannelEnds == chan = <<>> /\ main = "done" /\ RelayEnds

\* Mutant: the time of an address that is known is kept.
RecvAddressKeeps ==
    /\ relay = "select" /\ chan # <<>>
    /\ sources' = [sources EXCEPT ![Head(chan)] = IF @ = "none" THEN "fresh" ELSE @]
    /\ chan' = Tail(chan)
    /\ UNCHANGED <<packets, hole, source, answers, extra, recent, relay, passed, mainVars>>

RecvAddress ==
    /\ relay = "select" /\ chan # <<>>
    /\ sources' = [sources EXCEPT ![Head(chan)] = "fresh"]
    /\ chan' = Tail(chan)
    /\ UNCHANGED <<packets, hole, source, answers, extra, recent, relay, passed, mainVars>>

\* An answer is written as one frame, or skipped; the select may take it before
\* the address it waits for.
RecvAnswer ==
    /\ relay = "select" /\ answers # <<>>
    /\ answers' = Tail(answers)
    /\ passed' = IF hole /\ sources[Head(answers)] # "fresh" THEN passed
                 ELSE passed \cup {Head(answers)}
    /\ UNCHANGED <<packets, hole, source, chan, extra, recent, relay, sources, mainVars>>

\* The client is gone.
WriteFails == answers # <<>> /\ ~source.open /\ RelayEnds

-----------------------------------------------------------------------------
(* Client, targets, time *)

ClientSends ==
    /\ source.open /\ source.out < 2 * NPackets
    /\ source' = [source EXCEPT !.out = @ + 1, !.wire = Append(@, Halves(NPackets)[source.out + 1])]
    /\ UNCHANGED <<packets, hole, chan, answers, extra, recent, mainVars, relayVars>>

ClientCloses ==
    /\ source.open /\ source' = [source EXCEPT !.open = FALSE]
    /\ UNCHANGED <<packets, hole, chan, answers, extra, recent, mainVars, relayVars>>

\* A target answers each packet once or more; others send as well.
TargetSends(t) ==
    /\ relay # "done" /\ extra < MaxExtra
    /\ answers' = Append(answers, t) /\ extra' = extra + 1
    /\ UNCHANGED <<packets, hole, source, chan, recent, mainVars, relayVars>>

\* 60 seconds without a packet for t.
Expire(t) ==
    /\ t \in recent /\ \A k \in 1 .. Len(chan) : chan[k] # t
    /\ main = "send" => Current.to # t
    /\ recent' = recent \ {t}
    /\ sources' = [sources EXCEPT ![t] = IF @ = "fresh" THEN "old" ELSE @]
    /\ UNCHANGED <<packets, hole, source, chan, answers, extra, relay, passed, mainVars>>

-----------------------------------------------------------------------------

MainStep ==
    \/ ParsePacket \/ ParseInvalid \/ ParseContinued \/ Private \/ Announce
    \/ SendTo \/ SendToFails \/ Read \/ ReadEnds \/ Lookup \/ LookupFails

RelayStep == RelayIdles \/ ChannelEnds \/ RecvAddress \/ RecvAnswer \/ WriteFails

Next ==
    \/ MainStep \/ RelayStep \/ RecvFails
    \/ ClientSends \/ ClientCloses
    \/ \E t \in Targets : TargetSends(t) \/ Expire(t)

Spec == Init /\ [][Next]_vars

\* Both tasks go on when what they await is there, or their timer ends.  A look-up
\* ends, one way or the other; it need not succeed, however often it is repeated.
FairSpec == Spec /\ WF_vars(MainStep) /\ WF_vars(RelayStep)

-----------------------------------------------------------------------------
(* Properties *)

TypeOK ==
    /\ packets \in [1 .. NPackets -> Packet] /\ hole \in BOOLEAN
    /\ ubuf \in Seq((1 .. NPackets) \X (1 .. 2)) /\ names \subseteq Targets
    /\ main \in {"parse", "lookup", "check", "send", "read", "done"} /\ relay \in {"select", "done"}
    /\ chan \in Seq(Targets) /\ Len(chan) <= ChanCap
    /\ sources \in [Targets -> {"none", "fresh", "old"}] /\ answers \in Seq(Targets)
    /\ sentTo \in Seq(1 .. NPackets) /\ passed \subseteq Targets /\ recent \subseteq Targets

\* Packets leave in the order of the stream, none twice and none left out, in
\* whatever pieces they come and however often a look-up fails.
PacketsInOrder ==
    /\ TypeOK
    /\ \A k \in 1 .. Len(sentTo) : sentTo[k] = k
    /\ ubuf = SubSeq(Halves(NPackets), 2 * Len(sentTo) + 1, source.out - Len(source.wire))

\* With disable_udp_hole target_to_source lets an answer through if and only if
\* the client has sent its target a packet in the last 60 seconds - save for the
\* moment in which the address is still in the channel.
HoleFollowsRequests ==
    (hole /\ relay = "select") =>
        \A t \in Targets :
            /\ sources[t] = "fresh" => t \in recent
            /\ t \in recent => sources[t] = "fresh" \/ \E k \in 1 .. Len(chan) : chan[k] = t

\* One task does not outlive the other for good, even if the client never closes -
\* save for a packet whose name never resolves.  start_udp then looks it up for
\* ever and reads nothing any more, not even the end of the client.
TasksEndTogether ==
    \/ []<>(main = "done" <=> relay = "done")
    \/ <>[](main \in {"parse", "lookup"} /\ Complete /\ Current.byName /\ Current.to \notin names)
=============================================================================
