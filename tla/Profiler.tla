------------------------------ MODULE Profiler ------------------------------
(***************************************************************************)
(* The bypass profiler of the async proxy, run_profiler of                 *)
(* src/src/aproxy/profiler.rs: one task that selects over three channels   *)
(* (requests of the TCP and UDP tasks and of itself, local results, remote *)
(* results), a reader task per PING connection, and a check task per       *)
(* address.                                                                *)
(*                                                                         *)
(* A channel is the set of what it holds; the reader sends its mark for a  *)
(* closed connection last.  One turn of the loop, with the awaits of its   *)
(* writes and of a reconnect, is one step: nothing else reads or writes    *)
(* the task's own variables.                                               *)
(***************************************************************************)
EXTENDS PingResults

CONSTANTS
    Ages,       \* ages that are told apart, see Entry
    Ageing,     \* addresses that are followed until they grow old
    MaxDown     \* how often the server closes the PING connection

ASSUME ConstAssumption ==
    /\ Ages \subseteq 0 .. 2 /\ Ageing \subseteq Ips /\ MaxDown \in Nat

VARIABLES
    set,        \* the table, see Entry
    queue,      \* receiver: addresses to check
    sendBuffer, \* addresses in send_buffer
    conn,       \* the connection of `writer`: "up" or "down"
    wire,       \* addresses asked on it and not answered
    reader,     \* the reader of remote_resp_receiver: "run", "ended" or "idle" (never started)
    answers,    \* remote_resp_receiver: answered addresses
    mark,       \* remote_resp_receiver: the mark of a closed connection
    reconnect,  \* the flag
    checking,   \* addresses a check task is pinging
    resp,       \* resp_receiver, at most one result per address
    downs,      \* connections closed by the server so far
    panicked    \* the task is gone, and the proxy with it: it is a branch of its select!

channels == <<queue, reader, answers, mark, checking, resp>>
vars == <<set, queue, sendBuffer, conn, wire, reader, answers, mark, reconnect,
          checking, resp, downs, panicked>>

\* The handshake of the first connection succeeds or fails; without any
\* connection run_profiler returns.
Init ==
    /\ set = [i \in Ips |-> Absent] /\ queue = {} /\ sendBuffer = {}
    /\ \/ conn = "up" /\ reader = "run" /\ reconnect = FALSE
       \/ conn = "down" /\ reader = "idle" /\ reconnect = TRUE
    /\ wire = {} /\ answers = {} /\ mark = FALSE
    /\ checking = {} /\ resp = {} /\ downs = 0 /\ panicked = FALSE

-----------------------------------------------------------------------------
(* A turn of the loop *)

\* The tail of a turn: with the flag set, a new connection, its reader and its
\* channel replace the old ones, or the attempt fails and all stays.  wires are
\* the addresses the turn has put on the old connection.
Reconnect(flag, wires, chans) ==
    \/ /\ ~flag
       /\ wire' = wires /\ reader' = chans.reader /\ answers' = chans.answers /\ mark' = chans.mark
       /\ UNCHANGED <<conn, reconnect>>
    \/ /\ flag
       /\ conn' = "up" /\ wire' = {} /\ reconnect' = FALSE
       /\ reader' = "run" /\ answers' = {} /\ mark' = FALSE
    \/ /\ flag
       /\ conn' = "down" /\ wire' = {} /\ reconnect' = TRUE
       /\ reader' = chans.reader /\ answers' = chans.answers /\ mark' = chans.mark

Chans == [ reader |-> reader, answers |-> answers, mark |-> mark ]

\* The end of a turn that handled a result: decide, and put the addresses to be
\* asked for again and those whose time has come back into the queue.
Finish(s1, q1) ==
    \E resend \in {Resend(s1)}, decide \in {Decide(s1)} :
    \E s2 \in {[i \in Ips |-> [s1[i] EXCEPT !.age = IF i \in resend THEN 0 ELSE @,
                                            !.sent = @ \/ i \in decide]]} :
    \E due \in SUBSET { i \in Ips : s2[i].known /\ ~IsNoBypass(s2[i]) /\ s2[i].age = 2 } :
        /\ set' = s2
        /\ queue' = q1 \cup resend \cup due

\* Requests that are not due are skipped.
SkipRequest ==
    \E i \in queue :
        /\ ~panicked
        /\ set[i].known /\ (IsNoBypass(set[i]) \/ set[i].age < 2)
        /\ queue' = queue \ {i}
        /\ UNCHANGED <<set, sendBuffer, conn, wire, reader, answers, mark, reconnect,
                       checking, resp, downs, panicked>>

\* Mutant: send_buffer is empty again after it was written.
KeepNothing(i) == {i}

\* send_buffer is extended and never cleared.
Extended(i) == sendBuffer \cup {i}

\* Writing to a connection the server has closed fails, or is lost.
HandleRequest ==
    \E i \in queue, fails \in BOOLEAN :
        /\ ~panicked
        /\ ~set[i].known \/ (~IsNoBypass(set[i]) /\ set[i].age = 2)
        /\ fails => conn = "down"
        /\ queue' = queue \ {i}
        /\ sendBuffer' = Extended(i)
        /\ checking' = checking \cup {i}
        /\ set' = [set EXCEPT ![i] = Asked(@)]
        /\ Reconnect(reconnect \/ fails, IF conn = "up" THEN wire \cup Extended(i) ELSE wire, Chans)
        /\ UNCHANGED <<resp, downs, panicked>>

HandleLocal ==
    \E r \in resp :
        /\ ~panicked
        /\ resp' = resp \ {r}
        /\ Finish([set EXCEPT ![r[1]].local = r[2]], queue)
        /\ Reconnect(reconnect, wire, Chans)
        /\ UNCHANGED <<sendBuffer, checking, downs, panicked>>

HandleRemote ==
    \E i \in answers :
        /\ ~panicked
        /\ Finish([set EXCEPT ![i].remote = "value"], queue)
        /\ Reconnect(reconnect, wire, [Chans EXCEPT !.answers = @ \ {i}])
        /\ UNCHANGED <<sendBuffer, checking, resp, downs, panicked>>

\* The mark of the reader, after all its answers.
HandleMark ==
    /\ ~panicked /\ mark /\ answers = {}
    /\ Finish(set, queue)
    /\ Reconnect(TRUE, wire, [Chans EXCEPT !.mark = FALSE])
    /\ UNCHANGED <<sendBuffer, checking, resp, downs, panicked>>

\* The reader is gone and its channel empty: recv returns None, which is
\* unwrapped.
HandleNone ==
    /\ ~panicked /\ reader = "ended" /\ ~mark /\ answers = {}
    /\ panicked' = TRUE
    /\ UNCHANGED <<set, sendBuffer, conn, wire, reconnect, downs, channels>>

-----------------------------------------------------------------------------
(* The other tasks, time and the server *)

\* A TCP or UDP task meets a target address.
NewRequest ==
    \E i \in Ips \ queue :
        /\ ~panicked
        /\ queue' = queue \cup {i}
        /\ UNCHANGED <<set, sendBuffer, conn, wire, reader, answers, mark, reconnect,
                       checking, resp, downs, panicked>>

LocalResult ==
    \E i \in checking :
        /\ checking' = checking \ {i} /\ resp' = resp \cup {<<i, LocalKind(i)>>}
        /\ UNCHANGED <<set, queue, sendBuffer, conn, wire, reader, answers, mark, reconnect,
                       downs, panicked>>

\* The server answers and start_remote_response passes the answer on.
RemoteAnswer ==
    \E i \in wire :
        /\ conn = "up" /\ reader = "run"
        /\ wire' = wire \ {i} /\ answers' = answers \cup {i}
        /\ UNCHANGED <<set, queue, sendBuffer, conn, reader, mark, reconnect,
                       checking, resp, downs, panicked>>

\* Mutant: the reader ends without its mark.
ReaderSilent ==
    /\ conn = "down" /\ reader = "run"
    /\ reader' = "ended"
    /\ UNCHANGED <<set, queue, sendBuffer, conn, wire, answers, mark, reconnect,
                   checking, resp, downs, panicked>>

\* start_remote_response meets the end of the connection.
ReaderEnds ==
    /\ conn = "down" /\ reader = "run"
    /\ reader' = "ended" /\ mark' = TRUE
    /\ UNCHANGED <<set, queue, sendBuffer, conn, wire, answers, reconnect,
                   checking, resp, downs, panicked>>

ServerGone ==
    /\ conn = "up" /\ downs < MaxDown
    /\ conn' = "down" /\ wire' = {} /\ downs' = downs + 1
    /\ UNCHANGED <<set, queue, sendBuffer, reader, answers, mark, reconnect,
                   checking, resp, panicked>>

\* `timeout` is longer than a local check and the way of its result.
Age ==
    \E i \in Ageing, age \in Ages :
        /\ set[i].known /\ set[i].age < age
        /\ age = 2 => (i \notin checking /\ \A r \in resp : r[1] # i)
        /\ set' = [set EXCEPT ![i].age = age]
        /\ UNCHANGED <<queue, sendBuffer, conn, wire, reader, answers, mark, reconnect,
                       checking, resp, downs, panicked>>

Next ==
    \/ SkipRequest \/ HandleRequest \/ HandleLocal \/ HandleRemote \/ HandleMark \/ HandleNone
    \/ NewRequest \/ LocalResult \/ RemoteAnswer \/ ReaderEnds \/ ServerGone \/ Age

Spec == Init /\ [][Next]_vars

-----------------------------------------------------------------------------
(* Properties *)

\* Every variable keeps its type, and what is asked or answered is known.
TypeOK ==
    /\ set \in [Ips -> Entry]
    /\ queue \subseteq Ips /\ sendBuffer \subseteq Ips
    /\ conn \in {"up", "down"} /\ reader \in {"run", "ended", "idle"}
    /\ mark \in BOOLEAN /\ reconnect \in BOOLEAN /\ panicked \in BOOLEAN
    /\ checking \subseteq Ips /\ resp \subseteq Ips \X {"value", "nobypass"}
    /\ downs \in 0 .. MaxDown
    /\ wire \cup answers \cup checking \subseteq { i \in Ips : set[i].known }

\* A lost connection is noticed: its reader has still to end, its mark waits,
\* or the flag is set for the next turn.  The task ends at resp.unwrap() only
\* where a reconnect has failed, never for a reader that merely ended.
ClosedNoticed ==
    /\ TypeOK
    /\ IF panicked THEN reconnect
       ELSE conn = "down" => (reconnect \/ mark \/ reader = "run")

\* A request that is accepted on a live connection asks for everything that was
\* lost with an earlier one, too: nothing else asks for it again.
LostIsAskedAgain ==
    [][(checking' # checking /\ checking \subseteq checking' /\ conn = "up" /\ ~reconnect)
         => \A i \in Ips : (set'[i].known /\ set'[i].remote = "none")
                              => i \in wire' \cup answers']_vars

\* A turn handles one group of the map only, and turns come with results only:
\* there are always as many local results to come as entries to decide on, so
\* that none of them is left undecided.
UndecidedHaveTurns ==
    panicked \/ Cardinality({ i \in Ips : set[i].known /\ Key(set[i]) = 1 })
                   <= Cardinality(checking) + Cardinality(resp)
=============================================================================
