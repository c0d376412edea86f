------------------------------- MODULE AServer -------------------------------
(***************************************************************************)
(* One connection of the async server up to its end as a TCP relay         *)
(* (src/src/aserver/mod.rs, aserver/tcp.rs, async_utils.rs): the request   *)
(* head, the HTTP head of a request for back_addr, and two copy tasks, one *)
(* for each direction.  UDP and PING requests go on in AServerUdp and      *)
(* APing.                                                                  *)
(*                                                                         *)
(* Each side writes the numbers 1, 2, ...; the first HeadLen of the client *)
(* are its request head.  0 is the X-Forwarded-For line.                   *)
(***************************************************************************)
EXTENDS Naturals, Sequences

CONSTANTS
    Kinds,          \* what the client may ask for, among RequestKinds
    HeadLen,        \* items of a request head, or of a password that is none
    HttpLen,        \* items of an HTTP head, the empty line last
    NUp, NDown,     \* items that client and target write, at most
    MaxTries,       \* reads that wait for the HTTP head (10)
    IdleTicks       \* tcp_idle_timeout, in ticks

ASSUME ServerAssumption ==
    {HeadLen, HttpLen, NUp, NDown, MaxTries, IdleTicks} \subseteq Nat /\ HttpLen # 0

RequestKinds == {"socket", "domain", "private", "back", "pass", "bad", "udp", "ping"}
Back(k) == k \in {"back", "pass"}
Dirs == {"up", "down"}
Other(d) == IF d = "up" THEN "down" ELSE "up"
Forwarded == 0

VARIABLES
    kind,   \* what the client's head says
    stage,  \* where the task of start_proxy is
    buf,    \* its buffer
    tries,  \* turns of the loop that reads the HTTP head
    pipe    \* the two directions, see Direction

vars == <<kind, stage, buf, tries, pipe>>

\* out, wire, fin: what the writer has written, what of it is still to be read,
\* and how the writer stands; task, hold: copy and its buffer; tls: what the TLS
\* session has accepted and not sent; got, end: what the reader has, and how it
\* learnt of the end; age: ticks the read has waited.
Direction ==
    [ out: Nat, wire: Seq(Nat), fin: {"open", "fin", "reset"}, task: {"none", "read", "write", "done"},
      hold: Seq(Nat), tls: Seq(Nat), got: Seq(Nat), end: {"open", "eof", "cut"}, age: 0 .. IdleTicks ]

Init ==
    /\ kind \in Kinds /\ stage = "accept" /\ buf = <<>> /\ tries = 0
    /\ pipe = [d \in Dirs |->
                [ out |-> 0, wire |-> <<>>, fin |-> "open", task |-> "none", hold |-> <<>>,
                  tls |-> <<>>, got |-> <<>>, end |-> "open", age |-> 0 ]]

\* The connections are dropped: what was not passed on is lost.
Dropped ==
    [d \in Dirs |-> [pipe[d] EXCEPT !.task = "done", !.end = IF @ = "open" THEN "cut" ELSE @]]
Drop == stage' = "closed" /\ pipe' = Dropped /\ UNCHANGED <<kind, buf, tries>>
\* read_buf: as much as has arrived, at least one item.
ReadInto ==
    \E n \in 1 .. Len(pipe["up"].wire) :
        /\ buf' = buf \o SubSeq(pipe["up"].wire, 1, n)
        /\ pipe' = [pipe EXCEPT !["up"].wire = SubSeq(@, n + 1, Len(@))]
ReadEnded == pipe["up"].wire = <<>> /\ pipe["up"].fin # "open"

-----------------------------------------------------------------------------
(* start_proxy_internal *)

\* The TLS handshake.
Accept ==
    /\ stage = "accept" /\ stage' = "head" /\ UNCHANGED <<kind, buf, tries, pipe>>
AcceptFails == stage = "accept" /\ pipe["up"].fin # "open" /\ Drop

ReadHead == stage = "head" /\ ReadInto /\ stage' = "parse" /\ UNCHANGED <<kind, tries>>
\* The client has ended, or ten seconds have passed.
HeadFails == stage = "head" /\ pipe["up"].wire = <<>> /\ Drop

\* TrojanRequest::parse and the match on its result.  A head that ends before
\* the last CRLF is indexed out of range, which ends the task.
ParseContinue ==
    /\ stage = "parse" /\ Len(buf) < HeadLen
    /\ stage' = "head" /\ UNCHANGED <<kind, buf, tries, pipe>>
ParsePanics ==
    /\ stage = "parse" /\ Len(buf) < HeadLen /\ kind \notin {"pass", "bad"}
    /\ Drop
ParseInvalid == stage = "parse" /\ Len(buf) >= HeadLen /\ kind = "bad" /\ Drop
ParsePass ==
    /\ stage = "parse" /\ Len(buf) >= HeadLen /\ kind = "pass"
    /\ stage' = "http" /\ UNCHANGED <<kind, buf, tries, pipe>>
ParseRequest ==
    /\ stage = "parse" /\ Len(buf) >= HeadLen /\ kind \notin {"pass", "bad"}
    /\ buf' = SubSeq(buf, HeadLen + 1, Len(buf))
    /\ stage' = CASE kind \in {"udp", "ping"} -> kind
                  [] kind = "domain" -> "lookup"
                  [] kind = "back" -> "http"
                  [] OTHER -> "check"
    /\ UNCHANGED <<kind, tries, pipe>>

\* lookup_host.
Lookup == stage = "lookup" /\ stage' = "check" /\ UNCHANGED <<kind, buf, tries, pipe>>
LookupFails == stage = "lookup" /\ Drop

-----------------------------------------------------------------------------
(* start_tcp *)

HttpComplete == tries < MaxTries /\ Len(buf) >= HttpLen

\* The line goes in front of the empty line that ends the HTTP head.
AddForwarded ==
    /\ stage = "http" /\ HttpComplete
    /\ buf' = SubSeq(buf, 1, HttpLen - 1) \o <<Forwarded>> \o SubSeq(buf, HttpLen, Len(buf))
    /\ stage' = "connect" /\ UNCHANGED <<kind, tries, pipe>>

ReadHttp ==
    /\ stage = "http" /\ ~HttpComplete /\ tries < MaxTries
    /\ ReadInto /\ tries' = tries + 1
    /\ UNCHANGED <<kind, stage>>

\* The client has ended, or a second has passed.
HttpFails == stage = "http" /\ ~HttpComplete /\ tries < MaxTries /\ pipe["up"].wire = <<>> /\ Drop

\* What the last read has brought is not looked at.
HttpGivenUp ==
    /\ stage = "http" /\ tries = MaxTries
    /\ stage' = "connect" /\ UNCHANGED <<kind, buf, tries, pipe>>

CheckPrivate == stage = "check" /\ kind = "private" /\ Drop
CheckPublic ==
    /\ stage = "check" /\ kind # "private"
    /\ stage' = "connect" /\ UNCHANGED <<kind, buf, tries, pipe>>

Connect == stage = "connect" /\ stage' = "first" /\ UNCHANGED <<kind, buf, tries, pipe>>
ConnectFails == stage = "connect" /\ Drop

\* Mutant: the copy tasks start without the rest of the buffer.
WriteFirstNot ==
    /\ stage = "first" /\ stage' = "relay"
    /\ pipe' = [d \in Dirs |-> [pipe[d] EXCEPT !.task = "read"]]
    /\ buf' = <<>> /\ UNCHANGED <<kind, tries>>

\* write_all of the buffer, then the two copy tasks.
WriteFirst ==
    /\ stage = "first" /\ stage' = "relay"
    /\ pipe' = [d \in Dirs |-> [pipe[d] EXCEPT !.task = "read", !.got = IF d = "up" THEN buf ELSE @]]
    /\ buf' = <<>> /\ UNCHANGED <<kind, tries>>

\* A part is written before it fails, or before five seconds have passed.
WriteFirstFails ==
    /\ stage = "first" /\ stage' = "closed"
    /\ \E n \in 0 .. Len(buf) :
        pipe' = [Dropped EXCEPT !["up"].got = SubSeq(buf, 1, n)]
    /\ UNCHANGED <<kind, buf, tries>>

-----------------------------------------------------------------------------
(* copy *)

Copy(d, r) ==
    /\ stage = "relay" /\ pipe' = [pipe EXCEPT ![d] = r] /\ UNCHANGED <<kind, stage, buf, tries>>

Read(d) ==
    \E n \in 1 .. Len(pipe[d].wire) :
        /\ pipe[d].task = "read"
        /\ Copy(d, [pipe[d] EXCEPT !.hold = SubSeq(pipe[d].wire, 1, n),
                      !.wire = SubSeq(@, n + 1, Len(@)), !.task = "write", !.age = 0])

\* write_all.  The session of the client takes everything and sends what the
\* socket has room for; the rest waits for the next write or for the shutdown.
Write(d) ==
    /\ pipe[d].task = "write"
    /\ LET all == pipe[d].tls \o pipe[d].hold IN
        \E n \in 0 .. Len(all) :
            /\ d = "up" => n = Len(all)
            /\ Copy(d, [pipe[d] EXCEPT !.task = "read", !.hold = <<>>,
                          !.got = @ \o SubSeq(all, 1, n), !.tls = SubSeq(all, n + 1, Len(all))])

\* Mutant: the end of the session is not flushed.
ShutUnflushed(d, how) ==
    [pipe[d] EXCEPT !.task = "done", !.hold = <<>>, !.tls = <<>>, !.end = how]

\* shutdown: it sends what the session still holds.
Shut(d, how) ==
    [pipe[d] EXCEPT !.task = "done", !.hold = <<>>, !.end = how, !.tls = <<>>,
        !.got = IF pipe[Other(d)].fin = "reset" THEN @ ELSE @ \o pipe[d].tls]

\* The reader is gone, or ten seconds have passed; a part may have been written.
WriteFails(d) ==
    /\ pipe[d].task = "write"
    /\ \E n \in 0 .. Len(pipe[d].hold) :
        /\ pipe[Other(d)].fin = "reset" => n = 0
        /\ Copy(d, [Shut(d, "cut") EXCEPT !.got = @ \o SubSeq(pipe[d].hold, 1, n)])

ReadEof(d) ==
    /\ pipe[d].task = "read" /\ pipe[d].wire = <<>> /\ pipe[d].fin = "fin"
    /\ Copy(d, Shut(d, IF pipe[Other(d)].fin = "reset" THEN "cut" ELSE "eof"))
ReadFails(d) ==
    /\ pipe[d].task = "read" /\ pipe[d].fin = "reset"
    /\ Copy(d, Shut(d, "cut"))

\* Mutant: reads wait without a limit.
ReadTimeoutNever(d) == FALSE /\ Copy(d, pipe[d])

\* Each direction has a timer of its own.
ReadTimeout(d) ==
    /\ pipe[d].task = "read" /\ pipe[d].wire = <<>> /\ pipe[d].fin = "open"
    /\ pipe[d].age = IdleTicks
    /\ Copy(d, Shut(d, "cut"))

-----------------------------------------------------------------------------
(* Client, target, time *)

Limit(d) == IF d = "up" THEN NUp ELSE NDown
Reachable(d) == IF d = "up" THEN stage # "closed" ELSE stage \in {"first", "relay"}
Side(d, r) ==
    /\ Reachable(d) /\ pipe[d].fin = "open"
    /\ pipe' = [pipe EXCEPT ![d] = r] /\ UNCHANGED <<kind, stage, buf, tries>>

Sends(d) ==
    /\ pipe[d].out < Limit(d)
    /\ Side(d, [pipe[d] EXCEPT !.out = @ + 1, !.wire = Append(@, pipe[d].out + 1)])
Closes(d) == Side(d, [pipe[d] EXCEPT !.fin = "fin"])
Resets(d) == Side(d, [pipe[d] EXCEPT !.fin = "reset", !.wire = <<>>])

Waits(d) == pipe[d].task = "read" /\ pipe[d].wire = <<>> /\ pipe[d].fin = "open"
Tick ==
    /\ stage = "relay" /\ \E d \in Dirs : Waits(d)
    /\ \A d \in Dirs : pipe[d].task # "done" => Waits(d) /\ pipe[d].age < IdleTicks
    /\ pipe' = [d \in Dirs |-> IF Waits(d) THEN [pipe[d] EXCEPT !.age = @ + 1] ELSE pipe[d]]
    /\ UNCHANGED <<kind, stage, buf, tries>>

-----------------------------------------------------------------------------

\* What the server's task does before the copy tasks.
Prepare ==
    \/ Accept \/ AcceptFails \/ ReadHead \/ HeadFails
    \/ ParseContinue \/ ParsePanics \/ ParseInvalid \/ ParsePass \/ ParseRequest
    \/ Lookup \/ LookupFails
    \/ AddForwarded \/ ReadHttp \/ HttpFails \/ HttpGivenUp \/ CheckPrivate \/ CheckPublic
    \/ Connect \/ ConnectFails \/ WriteFirst \/ WriteFirstFails

CopyStep(d) ==
    Read(d) \/ Write(d) \/ WriteFails(d) \/ ReadEof(d) \/ ReadFails(d) \/ ReadTimeout(d)

Next ==
    \/ Prepare
    \/ \E d \in Dirs : CopyStep(d) \/ Sends(d) \/ Closes(d) \/ Resets(d)
    \/ Tick

Spec == Init /\ [][Next]_vars

\* Tasks go on, reads, look-ups and connects that wait end by their timeouts, and
\* time passes.  Nobody has to send or to close.
FairSpec ==
    /\ Spec /\ WF_vars(Prepare) /\ WF_vars(Tick)
    /\ \A d \in Dirs : WF_vars(CopyStep(d))

-----------------------------------------------------------------------------
(* Properties *)

TypeOK ==
    /\ kind \in Kinds /\ tries \in 0 .. MaxTries /\ buf \in Seq(0 .. NUp)
    /\ stage \in {"accept", "head", "parse", "lookup", "http", "check", "connect", "first",
                  "relay", "udp", "ping", "closed"}
    /\ pipe \in [Dirs -> Direction]

\* Refinement mapping: the payload is what follows the request head, and the
\* X-Forwarded-For line, in its place, is the server's own.
HasHead == kind # "pass"
Written(d) == [n \in 1 .. pipe[d].out |-> n]
Payload(d) == IF d = "up" /\ HasHead THEN SubSeq(Written(d), HeadLen + 1, pipe[d].out) ELSE Written(d)
Received(d) ==
    IF Back(kind) /\ d = "up" /\ Len(pipe[d].got) >= HttpLen /\ pipe[d].got[HttpLen] = Forwarded
    THEN SubSeq(pipe[d].got, 1, HttpLen - 1) \o SubSeq(pipe[d].got, HttpLen + 1, Len(pipe[d].got))
    ELSE pipe[d].got

Up == INSTANCE Pipe WITH
    Items <- 1 .. NUp, sent <- Payload("up"), closed <- pipe["up"].fin # "open",
    got <- Received("up"), end <- pipe["up"].end
Down == INSTANCE Pipe WITH
    Items <- 1 .. NDown, sent <- Payload("down"), closed <- pipe["down"].fin # "open",
    got <- Received("down"), end <- pipe["down"].end

\* Each direction of a relayed connection is a Pipe, whatever pieces the head
\* comes in: nothing is lost, repeated or reordered, and the end is passed on
\* after everything else.
RelayIsPipes == Up!Spec /\ Down!Spec

\* A client that has gone does not leave tasks behind, whatever they wait for and
\* whether or not the target ever closes.
GoneIsEnded ==
    []<>(\/ pipe["up"].fin = "open" \/ stage \in {"closed", "udp", "ping"}
         \/ \A d \in Dirs : pipe[d].task = "done")
==============================================================================
