----------------------------- MODULE MCAServer ------------------------------
(* The async server, each part on its own: a TCP connection, a UDP            *)
(* association, and the parsers of what their clients send.                   *)
EXTENDS AServer

CONSTANTS
    Targets, Privates, NPackets, ChanCap, MaxExtra,     \* AServerUdp
    MaxPacketSize, Lengths, NFrames                     \* Proto

ASSUME UdpAssumption == NPackets \in Nat \ {0} /\ ChanCap \in Nat \ {0}

VARIABLES
    part,
    packets, hole, source, ubuf, main, names, chan, relay, sources, answers, extra, sentTo, passed, recent,
    parser, sent, wire, protoBuf, parsed, phase

\* Passwords, addresses and names in bytes, shorter than the real ones: two bytes of
\* a password for 56, two for the four of IPv4, seven for the sixteen of IPv6.  One of
\* the names parses as an address.
Pass == <<6, 8>>
OtherPasses == {<<6, 9>>, <<15, 6>>}
V4 == <<9, 9>>
V6 == <<9, 9, 9, 9, 9, 9, 9>>
Names == {<<8>>, <<8, 8>>}
IpNames == {<<8, 8>>}

U == INSTANCE AServerUdp
P == INSTANCE Proto WITH buf <- protoBuf

udp == <<packets, hole, source, ubuf, main, names, chan, relay, sources, answers, extra, sentTo, passed, recent>>
proto == <<parser, sent, wire, protoBuf, parsed, phase>>
all == <<part, vars, udp, proto>>

TcpTurn(A) == part = "tcp" /\ A /\ UNCHANGED <<part, udp, proto>>
UdpTurn(A) == part = "udp" /\ A /\ UNCHANGED <<part, vars, proto>>

MCInit ==
    /\ part \in {"tcp", "udp", "proto"}
    /\ Init /\ (part # "tcp" => kind = "socket")
    /\ U!Init /\ (part # "udp" => ~hole /\ packets = CHOOSE p \in [1 .. NPackets -> U!Packet] : TRUE)
    /\ P!PInit /\ (part # "proto" => parser = "frame" /\ sent = <<>>)

MCNext ==
    \/ TcpTurn(Next) \/ UdpTurn(U!Next)
    \/ part = "proto" /\ P!PNext /\ UNCHANGED <<part, vars, udp>>

\* The fairness of FairSpec and U!FairSpec.  The part never changes, so that one
\* condition can speak for an action of each.
MCSpec ==
    /\ MCInit /\ [][MCNext]_all
    /\ WF_all(TcpTurn(Prepare) \/ UdpTurn(U!MainStep))
    /\ WF_all(TcpTurn(Tick) \/ UdpTurn(U!RelayStep))
    /\ WF_all(TcpTurn(CopyStep("up"))) /\ WF_all(TcpTurn(CopyStep("down")))

-----------------------------------------------------------------------------
(* Properties: the components', with RelayIsPipes of AServer *)

\* source_to_target of a UDP association passes the packets of the stream on in order,
\* none twice and none left out, also where a failed look-up continues the loop with
\* the packet still in the buffer.
PacketsInOrder == TypeOK /\ U!PacketsInOrder

\* With disable_udp_hole target_to_source lets an answer through if and only if the
\* client has sent its target a packet within 60 seconds, although the two tasks
\* exchange the targets through a channel and entries expire in between.
HoleFollowsRequests == U!HoleFollowsRequests

\* The parsers of proto.rs read back what its generators write, wherever the stream is
\* cut, save for the cuts that they take for an error.
ReadsBack == P!ReadsBack

\* No task is left behind: both copies of a connection end once the client has gone,
\* whether or not the target ever closes, and neither task of a UDP association
\* outlives the other, unless start_udp repeats the look-up of one name for ever.
TasksEnd == (part = "tcp" => GoneIsEnded) /\ (part = "udp" => U!TasksEndTogether)
=============================================================================
