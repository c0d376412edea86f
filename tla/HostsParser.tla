---------------------------- MODULE HostsParser ----------------------------
(***************************************************************************)
(* The parser of the hosts file (src/src/dns/server.rs, update_hosts): one *)
(* line, read character by character.                                      *)
(***************************************************************************)
EXTENDS Naturals, Sequences, SequencesExt

CONSTANTS
    Ws, Hash, Dot,  \* white space, # and the full stop
    Letters,        \* all other characters
    Ips,            \* the words that parse as an address
    MaxLen          \* bound on the length of a line

Chars == {Ws, Hash, Dot} \cup Letters

VARIABLES
    line,           \* what is left of the line
    whole,          \* history: the whole line
    state,          \* HostParserState; "Break" once the loop is left
    ip, host        \* the characters collected

vars == <<line, whole, state, ip, host>>

States == {"LineStart", "IpStart", "IpEnd", "HostStart", "HostEnd", "Break"}

Init ==
    /\ line \in BoundedSeq(Chars, MaxLen) /\ whole = line
    /\ state = "LineStart" /\ ip = <<>> /\ host = <<>>

\* The loop takes the next character.
Read(s) == state = s /\ line # <<>> /\ line' = Tail(line) /\ UNCHANGED whole
Char == Head(line)

\* Mutant: a line that starts with white space has no address.
LineStartNoSkip ==
    /\ Read("LineStart") /\ UNCHANGED host
    /\ state' = IF Char = Hash THEN "Break" ELSE IF Char = Ws THEN "IpEnd" ELSE "IpStart"
    /\ ip' = IF Char \in {Ws, Hash} THEN ip ELSE Append(ip, Char)

LineStart ==
    /\ Read("LineStart") /\ UNCHANGED host
    /\ state' = IF Char = Ws THEN "LineStart" ELSE IF Char = Hash THEN "Break" ELSE "IpStart"
    /\ ip' = IF Char \in {Ws, Hash} THEN ip ELSE Append(ip, Char)

IpStart ==
    /\ Read("IpStart") /\ UNCHANGED host
    /\ state' = IF Char = Ws THEN "IpEnd" ELSE "IpStart"
    /\ ip' = IF Char = Ws THEN ip ELSE Append(ip, Char)

IpEnd ==
    /\ Read("IpEnd") /\ UNCHANGED ip
    /\ state' = IF Char = Ws THEN "IpEnd" ELSE "HostStart"
    /\ host' = IF Char = Ws THEN host ELSE Append(host, Char)

HostStart ==
    /\ Read("HostStart") /\ UNCHANGED ip
    /\ state' = IF Char = Ws THEN "HostEnd" ELSE "HostStart"
    /\ host' = IF Char = Ws THEN host ELSE Append(host, Char)

HostEnd ==
    /\ Read("HostEnd") /\ state' = "Break" /\ UNCHANGED <<ip, host>>

Next == LineStart \/ IpStart \/ IpEnd \/ HostStart \/ HostEnd

Spec == Init /\ [][Next]_vars

-----------------------------------------------------------------------------
(* The entry that the line adds to hosts *)

Done == state = "Break" \/ line = <<>>

\* A host gets a final dot, as names of queries have one.
Dotted(h) == IF Last(h) = Dot THEN h ELSE Append(h, Dot)

\* The entry of the line, or none.
Entry == IF host # <<>> /\ ip \in Ips THEN {<<ip, Dotted(host)>>} ELSE {}

-----------------------------------------------------------------------------
(* Properties *)

\* Where the first word from position n on begins and ends: a set of one pair or none.
Word(text, n) ==
    {w \in (n .. Len(text)) \X (n .. Len(text)) :
        /\ w[1] <= w[2] /\ \A k \in n .. w[2] : text[k] = Ws <=> k < w[1]
        /\ w[2] < Len(text) => text[w[2] + 1] = Ws}

\* The first two words of a text, if it has two.
TwoWords(text) ==
    UNION {{<<SubSeq(text, v[1], v[2]), SubSeq(text, w[1], w[2])>> : w \in Word(text, v[2] + 1)} :
             v \in Word(text, 1)}

\* Every variable keeps its type; address and host have no white space in them,
\* and are collected in this order.
TypeOK ==
    /\ line \in Seq(Chars) /\ whole \in Seq(Chars) /\ IsSuffix(line, whole)
    /\ state \in States /\ ip \in Seq(Chars \ {Ws}) /\ host \in Seq(Chars \ {Ws})
    /\ state = "LineStart" => ip = <<>>
    /\ state \in {"LineStart", "IpStart", "IpEnd"} => host = <<>>

\* update_hosts enters the first two words of a line, wherever white space is in
\* it, unless the line is a comment or its first word is no address.  Further
\* names on the line, aliases in /etc/hosts, have no effect.
EntryIsTwoWords ==
    /\ TypeOK
    /\ Done => Entry = {<<w[1], Dotted(w[2])>> :
                        w \in {w \in TwoWords(whole) : w[1][1] # Hash /\ w[1] \in Ips}}
=============================================================================
