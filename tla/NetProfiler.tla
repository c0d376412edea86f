----------------------------- MODULE NetProfiler -----------------------------
(***************************************************************************)
(* The bypass profiler of the mio proxy (src/src/proxy/net_profiler.rs).   *)
(* Every target address is pinged from here by a check task and from the   *)
(* trojan server over a PING connection; when both results are in, the     *)
(* address is put into or taken out of the bypass ipset.                   *)
(*                                                                         *)
(* An answer of the server is two halves, <<ip, 1>> and <<ip, 2>>, so that *)
(* a read may end inside one.  Wake-ups of the connection's socket are the *)
(* subject of IdlePool and ProxyUdp; here ready runs whenever there is     *)
(* something for it to do.                                                 *)
(***************************************************************************)
EXTENDS PingResults

CONSTANTS
    MaxAge,     \* 0: entries stay young, 1: grow older than 100 seconds, 2: than `timeout`
    MaxDown,    \* how often the PING connection is lost
    InBound,    \* halves of answers on their way
    SendBound,  \* requests recorded while there is no connection
    SessLimit   \* requests the session takes before write_all fails

ASSUME ConstAssumption ==
    /\ MaxAge \in 0 .. 2 /\ MaxDown \in Nat /\ SessLimit \in Nat \ {0} /\ {InBound, SendBound} \subseteq Nat

VARIABLES
    set,        \* NetProfiler.set, see Entry
    sendBuffer, \* requests that wait for a connection
    conn,       \* the PING connection: "none", "up", "shut" or closed by the server ("down")
    out,        \* requests in the session or on their way
    in,         \* halves of answers the kernel holds
    recvBuffer, \* halves of answers not decoded
    checking,   \* addresses a check task is pinging
    resp,       \* the channel of local results, at most one per address
    downs,      \* connections lost so far
    panicked    \* decode met bytes that are no answer

vars == <<set, sendBuffer, conn, out, in, recvBuffer, checking, resp, downs, panicked>>

Init ==
    /\ set = [i \in Ips |-> Absent] /\ sendBuffer = <<>> /\ conn = "up"
    /\ out = <<>> /\ in = <<>> /\ recvBuffer = <<>>
    /\ checking = {} /\ resp = {} /\ downs = 0
    /\ panicked = FALSE

-----------------------------------------------------------------------------
(* send_remote_ip, for the addresses of q in this order.  The session hands   *)
(* nothing over before the server answers: the slowest kernel.  Without a     *)
(* connection the first SendBound requests are kept, which nobody reads.      *)

Smaller(m, n) == IF m < n THEN m ELSE n

SendRemoteIps(q) ==
    LET all == sendBuffer \o q IN
    IF q = <<>> THEN UNCHANGED <<sendBuffer, conn, out>>
    ELSE IF conn = "none"
         THEN sendBuffer' = SubSeq(all, 1, Smaller(Len(all), SendBound)) /\ UNCHANGED <<conn, out>>
    ELSE /\ sendBuffer' = <<>>
         /\ IF Len(out) + Len(all) > SessLimit
            THEN conn' = "shut" /\ UNCHANGED out
            ELSE conn' = conn /\ out' = IF conn = "up" THEN out \o all ELSE out

\* check returns early for young entries and for those of the no-bypass set.
Due(i) == set[i].known => (~IsNoBypass(set[i]) /\ set[i].age = 2)

\* check, for a packet or a connection to i
Check ==
    \E i \in Ips :
        /\ ~panicked /\ Due(i)
        /\ SendRemoteIps(<<i>>)
        /\ checking' = checking \cup {i}
        /\ set' = [set EXCEPT ![i] = Asked(@)]
        /\ UNCHANGED <<in, recvBuffer, resp, downs, panicked>>

-----------------------------------------------------------------------------
(* update *)

\* The local results that have come in.
WithLocal(s) ==
    [i \in Ips |->
        IF s[i].known /\ \E r \in resp : r[1] = i
        THEN [s[i] EXCEPT !.local = (CHOOSE r \in resp : r[1] = i)[2]]
        ELSE s[i]]

\* check for the entries whose time has come; next_check decides which of them
\* are looked at in this call.
Recheck(s, ips) == [i \in Ips |-> IF i \in ips THEN Asked(s[i]) ELSE s[i]]

Update ==
    \E s1 \in {WithLocal(set)} : \E resend \in {Resend(s1)}, decide \in {Decide(s1)} :
    \E s2 \in {[i \in Ips |-> IF i \in resend THEN [s1[i] EXCEPT !.age = 0]
                             ELSE [s1[i] EXCEPT !.sent = @ \/ i \in decide]]} :
    \E due \in SUBSET { i \in Ips : s2[i].known /\ ~IsNoBypass(s2[i]) /\ s2[i].age = 2 } :
        /\ ~panicked
        /\ resp' = {}
        /\ set' = Recheck(s2, due)
        /\ checking' = checking \cup due
        /\ SendRemoteIps(SelectSeq(Order, LAMBDA i : i \in resend) \o SelectSeq(Order, LAMBDA i : i \in due))
        /\ UNCHANGED <<in, recvBuffer, downs, panicked>>

-----------------------------------------------------------------------------
(* ready *)

\* decode consumes two halves at a time.  Halves of two answers make an address
\* the map does not have; a second half in the place of a first one does not
\* start with an address type.
Misaligned(buf) == \E k \in 1 .. Len(buf) : k % 2 = 1 /\ buf[k][2] = 2
Answered(buf) ==
    { i \in Ips : \E k \in 1 .. Len(buf) \div 2 : buf[2 * k - 1] = <<i, 1>> /\ buf[2 * k] = <<i, 2>> }

WithRemote(s, buf) ==
    [i \in Ips |->
        IF s[i].known /\ i \in Answered(buf)
        THEN [s[i] EXCEPT !.remote = "value"] ELSE s[i]]

\* The read half of ready, with decode.
ReadAndDecode ==
    LET buf == recvBuffer \o in
        rest == SubSeq(buf, 2 * (Len(buf) \div 2) + 1, Len(buf))
    IN /\ set' = WithRemote(set, buf)
       /\ recvBuffer' = rest
       /\ panicked' = Misaligned(buf)
       /\ in' = <<>>

\* reset and initialize: a new connection, or none when the pool has none.
Reset ==
    /\ conn' \in {"up", "none"}
    /\ out' = <<>> /\ UNCHANGED sendBuffer

\* The write half hands over what send_remote_ip could not.
Flush ==
    /\ conn' = conn /\ out' = out \o sendBuffer /\ sendBuffer' = <<>>

\* ready with input or with a connection that is closed.
Ready ==
    /\ ~panicked /\ conn # "none"
    /\ in # <<>> \/ conn # "up"
    /\ ReadAndDecode
    /\ IF conn = "up" \/ panicked' THEN Flush ELSE Reset
    /\ UNCHANGED <<checking, resp, downs>>

-----------------------------------------------------------------------------
(* The check tasks, time and the server *)

\* start_request answers at once for an address of the no-bypass set, do_check
\* after its pings.
LocalResult ==
    \E i \in checking :
        /\ checking' = checking \ {i}
        /\ resp' = resp \cup {<<i, LocalKind(i)>>}
        /\ UNCHANGED <<set, sendBuffer, conn, out, in, recvBuffer, downs, panicked>>

\* `timeout` is longer than a local check and a turn of the loop.
Age ==
    \E i \in Ips :
        /\ set[i].known /\ set[i].age < MaxAge
        /\ set[i].age = 1 => (i \notin checking /\ \A r \in resp : r[1] # i)
        /\ set' = [set EXCEPT ![i].age = @ + 1]
        /\ UNCHANGED <<sendBuffer, conn, out, in, recvBuffer, checking, resp, downs, panicked>>

\* The server answers the first request of the session.
ServerAnswer ==
    /\ conn = "up" /\ out # <<>> /\ Len(in) < InBound
    /\ out' = Tail(out) /\ in' = in \o << <<Head(out), 1>>, <<Head(out), 2>> >>
    /\ UNCHANGED <<set, sendBuffer, conn, recvBuffer, checking, resp, downs, panicked>>

\* The connection breaks; what was on its way arrives in part, as whole TLS
\* records.  The server writes all answers it has at once, so that a record of
\* 16384 bytes may end inside an IPv6 answer of 20.
ServerGone ==
    /\ conn = "up" /\ downs < MaxDown
    /\ downs' = downs + 1 /\ conn' = "down"
    /\ \E n \in 0 .. Len(in) : in' = SubSeq(in, 1, n)
    /\ out' = <<>>
    /\ UNCHANGED <<set, sendBuffer, recvBuffer, checking, resp, panicked>>

Next == Check \/ Update \/ Ready \/ LocalResult \/ Age \/ ServerAnswer \/ ServerGone

Spec == Init /\ [][Next]_vars

\* The loop runs, every check ends and time passes.  The server answers again and
\* again, although full sessions break connections in between.
FairSpec ==
    /\ Spec /\ WF_vars(Update) /\ WF_vars(Ready)
    /\ SF_vars(ServerAnswer)
    /\ \A i \in Ips : /\ WF_vars(i \in checking /\ LocalResult /\ i \notin checking')
                     /\ WF_vars(set[i].known /\ Age /\ set'[i] # set[i])

-----------------------------------------------------------------------------
(* Properties *)

\* An address that is asked for is decided on in the end, although requests and
\* answers are lost with their connection and every update handles the last group
\* of each kind only; unless no new connection could be opened or requests overfill
\* one session after another.
AskedIsDecided ==
    \A i \in Ips \ NoBypass :
        []<>(panicked \/ conn \in {"none", "shut"} \/ (set[i].known => set[i].sent))
=============================================================================
