------------------------------- MODULE Proto -------------------------------
(***************************************************************************)
(* The protocol (src/src/proto.rs): what the generators write, a stream    *)
(* brings in pieces of any size, and the parsers are called with all that  *)
(* has arrived until they ask for more.  One behaviour is one stream: a    *)
(* request for TrojanRequest::parse, or frames for UdpAssociate::parse and *)
(* for parse_endpoint.                                                     *)
(*                                                                         *)
(* Bytes are 0 .. 15, and lengths are scaled down with them.               *)
(***************************************************************************)
EXTENDS Naturals, Sequences, SequencesExt

CONSTANTS
    Pass, OtherPasses,  \* a password of the configuration, and some that are not
    V4, V6,             \* the octets of an address of either family
    Names,              \* host names
    IpNames,            \* those that parse as an address
    MaxPacketSize,      \* MAX_PACKET_SIZE
    Lengths,            \* lengths of packets
    NFrames             \* bound on the frames of a stream

CR == 13
LF == 10
CONNECT == 1
UDP_ASSOCIATE == 3
PING == 2
IPV4 == 1
DOMAIN_TYPE == 3
IPV6 == 4
HTTP == 15      \* stands for the word
Port == <<5, 9>>
OPTIONS_pass_len == Len(Pass)
\* The least frame that is worth a look for parse_endpoint: 11 bytes.
MinFrame == 1 + Len(V4) + 2 + 4

VARIABLES
    parser,     \* "request", "frame" or "endpoint"
    sent,       \* what was generated: one request, or frames
    wire,       \* bytes that have not arrived
    buf,        \* bytes that have arrived and are not parsed
    parsed,     \* what the parser has returned
    phase       \* "read", "parse", or how the stream ended

pvars == <<parser, sent, wire, buf, parsed, phase>>

From(b, i) == SubSeq(b, i + 1, Len(b))
Part(b, i, j) == SubSeq(b, i + 1, j)
ToU16(b) == b[1] * 16 + b[2]
PutU16(n) == <<n \div 16, n % 16>>

-----------------------------------------------------------------------------
(* Generators *)

\* Sock5Address::generate; this program writes no names, other clients do.
GenerateAddress(a) ==
    (CASE a.type = "v4" -> <<IPV4>> [] a.type = "v6" -> <<IPV6>> [] a.type = "name" -> <<DOMAIN_TYPE, Len(a.data)>>)
      \o a.data \o Port
GenerateRequest(r) == r.pass \o <<CR, LF, r.command>> \o GenerateAddress(r.address) \o <<CR, LF>>
GenerateFrame(f) == GenerateAddress(f.address) \o PutU16(f.length) \o <<CR, LF>> \o [i \in 1 .. f.length |-> LF]

-----------------------------------------------------------------------------
(* Parsers: a result has a kind, what was parsed, and its size *)

Result(kind) == [kind |-> kind]
AddressOf(size, type, data) == [kind |-> "address", size |-> size, value |-> <<type, data>>]
IsIp(name) == IF name \in IpNames THEN "ip" ELSE "name"

\* Mutant: the length byte of a name is left out of its size.
NameSizeShort(n) == n + 2
NameSize(n) == n + 3

\* buffer[0] of a name is read before the length of the buffer is known.
ParseAddress(atyp, b) ==
    CASE atyp = IPV4 -> IF Len(b) < Len(V4) + 2 THEN Result("continue") ELSE AddressOf(Len(V4) + 2, "ip", Part(b, 0, Len(V4)))
      [] atyp = DOMAIN_TYPE ->
            IF b = <<>> THEN Result("panic")
            ELSE IF Len(b) < NameSize(b[1]) THEN Result("continue")
            ELSE AddressOf(NameSize(b[1]), IsIp(Part(b, 1, b[1] + 1)), Part(b, 1, b[1] + 1))
      [] atyp = IPV6 -> IF Len(b) < Len(V6) + 2 THEN Result("continue") ELSE AddressOf(Len(V6) + 2, "ip", Part(b, 0, Len(V6)))
      [] OTHER -> Result("invalid")

\* The same, but an address that is not there as a whole is an error.
ParseAddressEndpoint(atyp, b) ==
    LET r == ParseAddress(atyp, b)
    IN IF r.kind = "continue" THEN Result("invalid") ELSE r

\* The CRLF after the address is indexed without a look at the length.
ParseRequest(b) ==
    LET head == From(b, OPTIONS_pass_len + 2)
        r == ParseAddress(head[2], From(head, 2))
        rest == From(head, 2 + r.size)
    IN IF Len(b) < OPTIONS_pass_len THEN Result(IF HTTP \in ToSet(b) THEN "pass" ELSE "continue")
       ELSE IF Part(b, 0, OPTIONS_pass_len) # Pass THEN Result("pass")
       ELSE IF Len(b) < OPTIONS_pass_len + 2 THEN Result("continue")
       ELSE IF Part(b, OPTIONS_pass_len, OPTIONS_pass_len + 2) # <<CR, LF>> THEN Result("invalid")
       ELSE IF Len(head) < 3 THEN Result("continue")
       ELSE IF head[1] \notin {CONNECT, UDP_ASSOCIATE, PING} THEN Result("invalid")
       ELSE IF r.kind # "address" THEN r
       ELSE IF rest = <<>> \/ (rest[1] = CR /\ Len(rest) = 1) THEN Result("panic")
       ELSE IF SubSeq(rest, 1, 2) # <<CR, LF>> THEN Result("invalid")
       ELSE [kind |-> "item", size |-> OPTIONS_pass_len + 6 + r.size, value |-> <<head[1], r.value>>]

\* What follows the address of a frame.
ParseBody(r, rest) ==
    IF Len(rest) < 4 THEN Result("continue")
    ELSE IF ToU16(rest) > MaxPacketSize THEN Result("invalid")
    ELSE IF Len(rest) < ToU16(rest) + 4 THEN Result("continue")
    ELSE IF SubSeq(rest, 3, 4) # <<CR, LF>> THEN Result("invalid")
    ELSE [kind |-> "item", size |-> 1 + r.size + 4 + ToU16(rest), value |-> <<r.value, ToU16(rest)>>]

\* UdpAssociate::parse
ParseFrame(b) ==
    LET r == ParseAddress(b[1], From(b, 1))
    IN IF b = <<>> THEN Result("continue")
       ELSE IF r.kind = "address" THEN ParseBody(r, From(b, 1 + r.size)) ELSE r

\* UdpAssociate::parse_endpoint takes addresses only.
ParseEndpoint(b) ==
    LET r == ParseAddressEndpoint(b[1], From(b, 1))
        body == ParseBody(r, From(b, 1 + r.size))
    IN IF Len(b) < MinFrame THEN Result("continue")
       ELSE IF r.kind # "address" THEN r
       ELSE IF body.kind = "item" /\ r.value[1] # "ip" THEN Result("invalid")
       ELSE body

Parse(b) ==
    CASE parser = "request" -> ParseRequest(b) [] parser = "frame" -> ParseFrame(b) [] parser = "endpoint" -> ParseEndpoint(b)

-----------------------------------------------------------------------------
(* A stream *)

Addresses == {[type |-> "v4", data |-> V4], [type |-> "v6", data |-> V6]} \cup {[type |-> "name", data |-> n] : n \in Names}
Requests == [pass: {Pass} \cup OtherPasses, command: {CONNECT, UDP_ASSOCIATE, PING, 7}, address: Addresses]
Frames == [address: Addresses, length: Lengths]

PInit ==
    /\ parser \in {"request", "frame", "endpoint"}
    /\ sent \in IF parser = "request" THEN {<<r>> : r \in Requests} ELSE BoundedSeq(Frames, NFrames)
    /\ wire = IF parser = "request" THEN GenerateRequest(sent[1])
              ELSE FlattenSeq([i \in DOMAIN sent |-> GenerateFrame(sent[i])])
    /\ buf = <<>> /\ parsed = <<>> /\ phase = "read"

\* A read brings some of the bytes that are on their way.
Arrive ==
    /\ phase = "read" /\ phase' = "parse"
    /\ \E n \in DOMAIN wire : buf' = buf \o SubSeq(wire, 1, n) /\ wire' = From(wire, n)
    /\ UNCHANGED <<parser, sent, parsed>>

\* A loop of the callers: until there is nothing to parse, or only one request.
ParseNext ==
    /\ phase = "parse"
    /\ \E r \in {Parse(buf)} :
        \/ r.kind = "item" /\ parsed' = Append(parsed, r.value) /\ buf' = From(buf, r.size)
             /\ phase' = IF parser = "request" THEN "request" ELSE "parse"
        \/ r.kind = "continue" /\ phase' = "read" /\ UNCHANGED <<buf, parsed>>
        \/ r.kind \in {"invalid", "panic", "pass"} /\ phase' = r.kind /\ UNCHANGED <<buf, parsed>>
    /\ UNCHANGED <<parser, sent, wire>>

PNext == Arrive \/ ParseNext
PSpec == PInit /\ [][PNext]_pvars

-----------------------------------------------------------------------------
(* Properties *)

ValueOf(a) == <<IF a.type # "name" THEN "ip" ELSE IsIp(a.data), a.data>>
ItemOf(x) == IF parser = "request" THEN <<x.command, ValueOf(x.address)>> ELSE <<ValueOf(x.address), x.length>>

\* What is next in the stream, and how much of it has arrived.
Coming == sent[Len(parsed) + 1]
Here == Len(buf)

\* What this parser refuses when it is there as a whole.
Refused ==
    IF parser = "request" THEN Coming.command \notin {CONNECT, UDP_ASSOCIATE, PING}
    ELSE Coming.length > MaxPacketSize \/ (parser = "endpoint" /\ ValueOf(Coming.address)[1] # "ip")

\* Pieces in which the parsers give up what is good: parse_endpoint an address of
\* which only a part is there, after the first 11 bytes; the others a name of
\* which not even the length is there, and a request that ends before its last CRLF.
CutBadly ==
    LET size == Len(GenerateAddress(Coming.address))
    IN CASE parser = "endpoint" -> Here \in MinFrame .. size - 1
         [] parser = "frame" -> Coming.address.type = "name" /\ Here = 1
         [] parser = "request" -> Here \in {OPTIONS_pass_len + 3 + size, OPTIONS_pass_len + 4 + size}

\* The parsers read back what the generators write, wherever the stream is cut:
\* nothing is taken for something else, nothing is left over, and only what they
\* refuse, or one of the bad cuts, ends the stream.
ReadsBack ==
    /\ parsed = [i \in DOMAIN parsed |-> ItemOf(sent[i])]
    /\ phase = "read" /\ wire = <<>> => buf = <<>> /\ Len(parsed) = Len(sent)
    /\ phase = "request" => buf = <<>> /\ wire = <<>>
    /\ phase = "pass" => sent[1].pass # Pass
    /\ phase = "invalid" => Refused \/ (parser = "endpoint" /\ CutBadly)
    /\ phase = "panic" => parser # "endpoint" /\ CutBadly
=============================================================================
