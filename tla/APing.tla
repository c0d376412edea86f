-------------------------------- MODULE APing --------------------------------
(***************************************************************************)
(* PING connections of the async server (src/src/aserver/ping.rs):         *)
(* start_check_routine keeps results for a time and lets one check serve   *)
(* everyone who asks for its address meanwhile; start_ping, one task per   *)
(* connection, takes requests out of a stream and writes results back.     *)
(*                                                                         *)
(* A request is two halves on the stream; the address BadIp stands for an  *)
(* unspecified address or an unknown type.                                 *)
(***************************************************************************)
EXTENDS Naturals, Sequences, FiniteSets, SequencesExt

CONSTANTS
    Clients,    \* connections
    Ips,        \* addresses
    BadIp,      \* what is no address
    NAsks       \* requests of a connection

VARIABLES
    script,     \* what each client asks for, in order
    stream,     \* the connections' tasks: see Stream
    reqs,       \* the channel of requests: <<address, client>>
    cached,     \* cache_results: "none", "fresh" or "old" (cached_ping_timeout)
    senders,    \* cache_senders: who waits for an address, << >> for no entry
    checks,     \* do_check tasks, by address
    results     \* the channel of their results

vars == <<script, stream, reqs, cached, senders, checks, results>>
routineVars == <<reqs, cached, senders, checks, results>>

\* out: halves written by the client, of which taken have been read; parsed:
\* requests taken from the buffer; resp: the channel of results; answered:
\* results written to the client.
Stream ==
    [ st: {"start", "select", "done"}, out: Nat, taken: Nat, parsed: Nat,
      resp: Seq(Ips), answered: Seq(Ips) ]

Init ==
    /\ script \in [Clients -> [1 .. NAsks -> Ips \cup {BadIp}]]
    /\ stream = [c \in Clients |->
                  [ st |-> "start", out |-> 0, taken |-> 0, parsed |-> 0,
                    resp |-> <<>>, answered |-> <<>> ]]
    /\ reqs = <<>> /\ cached = [i \in Ips |-> "none"] /\ senders = [i \in Ips |-> <<>>]
    /\ checks = <<>> /\ results = <<>>

-----------------------------------------------------------------------------
(* start_ping *)

\* How often v is in a sequence.
Count(seq, v) == Cardinality({k \in 1 .. Len(seq) : seq[k] = v})

Task(c, r) == stream' = [stream EXCEPT ![c] = r]

\* Mutant: one request is taken at a time, the rest waits for the next read.
ParsedOne(c, taken) ==
    LET p == stream[c].parsed + 1
    IN IF 2 * p <= taken THEN SubSeq(script[c], p, p) ELSE <<>>

\* The complete requests among the halves read.
Parsed(c, taken) == SubSeq(script[c], stream[c].parsed + 1, taken \div 2)

\* The inner loop asks for all of them; it ends the task at a bad one.
Ask(c, taken) ==
    LET new == Parsed(c, taken)
        bad == \E k \in 1 .. Len(new) : new[k] = BadIp
        good == IF bad THEN SubSeq(new, 1, SelectInSeq(new, LAMBDA i : i = BadIp) - 1) ELSE new
    IN  /\ Task(c, [stream[c] EXCEPT !.st = IF bad THEN "done" ELSE "select", !.taken = taken,
                                     !.parsed = @ + Len(good), !.resp = IF bad THEN <<>> ELSE @])
        /\ reqs' = reqs \o [k \in 1 .. Len(good) |-> <<good[k], c>>]
        /\ UNCHANGED <<script, cached, senders, checks, results>>

\* The requests that came with the head.
Start(c) ==
    /\ stream[c].st = "start"
    /\ Ask(c, stream[c].out)

ReadSource(c) ==
    /\ stream[c].st = "select"
    /\ \E n \in stream[c].taken + 1 .. stream[c].out : Ask(c, n)

Respond(c) ==
    /\ stream[c].st = "select" /\ stream[c].resp # <<>>
    /\ Task(c, [stream[c] EXCEPT !.resp = Tail(@), !.answered = Append(@, Head(stream[c].resp))])
    /\ UNCHANGED <<script, routineVars>>

\* The client is gone, or an hour has passed without anything.
Ends(c) ==
    /\ stream[c].st = "select"
    /\ Task(c, [stream[c] EXCEPT !.st = "done", !.resp = <<>>])
    /\ UNCHANGED <<script, routineVars>>

-----------------------------------------------------------------------------
(* start_check_routine, do_check *)

\* A result is sent to each of a sequence of clients; who has ended is left out.
Tell(cs, i) ==
    [c \in Clients |->
        IF stream[c].st = "done" THEN stream[c]
        ELSE [stream[c] EXCEPT !.resp = @ \o [k \in 1 .. Count(cs, c) |-> i]]]

HandleCached ==
    /\ reqs # <<>> /\ cached[Head(reqs)[1]] = "fresh"
    /\ stream' = Tell(<<Head(reqs)[2]>>, Head(reqs)[1])
    /\ reqs' = Tail(reqs)
    /\ UNCHANGED <<script, cached, senders, checks, results>>

\* Mutant: every request has a check of its own.
HandleRequestEach ==
    /\ reqs # <<>> /\ cached[Head(reqs)[1]] # "fresh"
    /\ LET i == Head(reqs)[1] IN
        /\ senders' = [senders EXCEPT ![i] = Append(@, Head(reqs)[2])]
        /\ checks' = Append(checks, i)
    /\ reqs' = Tail(reqs)
    /\ UNCHANGED <<script, stream, cached, results>>

HandleRequest ==
    /\ reqs # <<>> /\ cached[Head(reqs)[1]] # "fresh"
    /\ LET i == Head(reqs)[1] IN
        /\ senders' = [senders EXCEPT ![i] = Append(@, Head(reqs)[2])]
        /\ checks' = IF senders[i] = <<>> THEN Append(checks, i) ELSE checks
    /\ reqs' = Tail(reqs)
    /\ UNCHANGED <<script, stream, cached, results>>

\* Mutant: only the first who asked is told.
HandleResultFirst ==
    /\ results # <<>>
    /\ LET i == Head(results) IN
        /\ stream' = Tell(SubSeq(senders[i], 1, 1), i)
        /\ senders' = [senders EXCEPT ![i] = <<>>]
        /\ cached' = [cached EXCEPT ![i] = "fresh"]
    /\ results' = Tail(results)
    /\ UNCHANGED <<script, reqs, checks>>

HandleResult ==
    /\ results # <<>>
    /\ LET i == Head(results) IN
        /\ stream' = Tell(senders[i], i)
        /\ senders' = [senders EXCEPT ![i] = <<>>]
        /\ cached' = [cached EXCEPT ![i] = "fresh"]
    /\ results' = Tail(results)
    /\ UNCHANGED <<script, reqs, checks>>

\* 100 pings, whatever comes back.
DoCheck ==
    \E k \in 1 .. Len(checks) :
        /\ results' = Append(results, checks[k]) /\ checks' = RemoveAt(checks, k)
        /\ UNCHANGED <<script, stream, reqs, cached, senders>>

Expire(i) ==
    /\ cached[i] = "fresh" /\ cached' = [cached EXCEPT ![i] = "old"]
    /\ UNCHANGED <<script, stream, reqs, senders, checks, results>>

ClientWrites(c) ==
    /\ stream[c].st # "done" /\ stream[c].out < 2 * NAsks
    /\ Task(c, [stream[c] EXCEPT !.out = @ + 1])
    /\ UNCHANGED <<script, routineVars>>

-----------------------------------------------------------------------------

TaskStep(c) == Start(c) \/ ReadSource(c) \/ Respond(c)
Routine == HandleCached \/ HandleRequest \/ HandleResult

Next ==
    \/ \E c \in Clients : TaskStep(c) \/ Ends(c) \/ ClientWrites(c)
    \/ Routine \/ DoCheck \/ \E i \in Ips : Expire(i)

Spec == Init /\ [][Next]_vars

-----------------------------------------------------------------------------
(* Properties *)

TypeOK ==
    /\ stream \in [Clients -> Stream] /\ reqs \in Seq(Ips \X Clients)
    /\ cached \in [Ips -> {"none", "fresh", "old"}] /\ senders \in [Ips -> Seq(Clients)]
    /\ checks \in Seq(Ips) /\ results \in Seq(Ips)

\* There is one check, running or reported, for each address somebody waits for,
\* and none for others: an expired result, a request that comes with a result or
\* a client that has gone does not start a second check or leave a waiter without.
OneCheckEach ==
    \A i \in Ips : Count(checks, i) + Count(results, i) = IF senders[i] = <<>> THEN 0 ELSE 1

\* The requests of a connection, in whatever pieces they come, are each answered
\* once: answered, on the way or waiting, none is lost or counted twice.
EveryAskAnswered ==
    /\ TypeOK
    /\ \A c \in Clients, i \in Ips :
        stream[c].st # "done" =>
            Count(SubSeq(script[c], 1, stream[c].taken \div 2), i)
                = Count(stream[c].answered, i) + Count(stream[c].resp, i)
                    + Count(reqs, <<i, c>>) + Count(senders[i], c)
==============================================================================
