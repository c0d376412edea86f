----------------------------- MODULE MobileDns -----------------------------
(***************************************************************************)
(* The DNS server of the mobile app (mobile/src-tauri/src/tun/dns.rs).  A  *)
(* query for a blocked name goes through one TLS connection to the trusted *)
(* server, any other by UDP to the untrusted one; answers are kept, and an *)
(* answer that has expired is still given, while a new one is asked for.   *)
(* Nothing waits for the connection to be writable: the rest of a query    *)
(* that it did not take goes out with the next query.                      *)
(*                                                                         *)
(* Requests are numbered as they come.                                     *)
(***************************************************************************)
EXTENDS Naturals, Sequences, SequencesExt, FiniteSets

CONSTANTS
    Queried,    \* names, as sequences of labels
    Blocked,    \* blocked_domains
    NRequests,  \* bound: requests of all clients
    NEvents     \* bound: losses and duplicates, and ends of the connection

VARIABLES
    requests,   \* all requests: [name, st, answers]
    inbox,      \* requests that the listener has received
    store,      \* store: name -> entry, for the names that have one
    trusted,    \* the connection: [rest, frame, garbled, sent]
    untrusted,  \* queries and answers on their way by UDP: name -> number
    events      \* for the bound

mvars == <<requests, inbox, store, trusted, untrusted, events>>

\* addresses holds numbers of requests; response is "none", "fresh" or "expired".
Entry == [addresses: Seq(1 .. NRequests), response: {"none", "fresh", "expired"}]

\* rest is what trusted_lbuffer holds of the query for the name frame: nothing, its
\* rest, or something else; garbled is a stream that is no longer in frames.
NewTlsConn == [rest |-> "none", frame |-> <<>>, garbled |-> FALSE, sent |-> <<>>]

MInit ==
    /\ requests = <<>> /\ inbox = <<>> /\ store = <<>> /\ trusted = NewTlsConn
    /\ untrusted = [n \in Queried |-> 0] /\ events = 0

-----------------------------------------------------------------------------
(* Helpers *)

\* A domain of the list, or a name below one; a name of one label is never looked up.
IsBlocked(name) == \E i \in 1 .. Len(name) - 1 : SubSeq(name, i, Len(name)) \in Blocked

Responses(name) == IF name \in DOMAIN store THEN store[name].response ELSE "none"
WithEntry(name, e) == [n \in DOMAIN store \cup {name} |-> IF n = name THEN e ELSE store[n]]

\* Mutant: a request is added whether or not it was answered from the store.
AddRequestAlways(r, respond) ==
    WithEntry(requests[r].name,
              [addresses |-> Append(IF requests[r].name \in DOMAIN store THEN store[requests[r].name].addresses ELSE <<>>, r),
               response |-> Responses(requests[r].name)])
AddRequest(r, respond) ==
    IF ~respond THEN store
    ELSE WithEntry(requests[r].name,
                   [addresses |-> Append(IF requests[r].name \in DOMAIN store THEN store[requests[r].name].addresses ELSE <<>>, r),
                    response |-> "none"])

-----------------------------------------------------------------------------
(* query_trusted: what becomes of the connection, and whether it returns true *)

\* The connection after trusted_lbuffer has been sent.
RestSent(t) ==
    CASE t.rest = "none" -> t
      [] t.rest = "rest" -> [t EXCEPT !.rest = "none", !.sent = IF t.garbled THEN @ ELSE Append(@, t.frame)]
      [] t.rest = "wrong" -> [t EXCEPT !.rest = "none", !.garbled = TRUE]

\* All of the frame is written; or a part, of which the rest is cached, unless the
\* cut is before the header or less than a header before the end.
QueryOutcomes(t, name) ==
    LET u == RestSent(t)
    IN {<<NewTlsConn, FALSE>>}
         \cup (IF t.rest = "none" THEN {} ELSE {<<t, FALSE>>})
         \cup ({[u EXCEPT !.sent = IF u.garbled THEN @ ELSE Append(@, name)]} \X BOOLEAN)
         \cup ({[u EXCEPT !.rest = how, !.frame = name] : how \in {"rest", "wrong"}} \X BOOLEAN)

-----------------------------------------------------------------------------
(* ready *)

Ask(name) ==
    /\ Len(requests) < NRequests
    /\ requests' = Append(requests, [name |-> name, st |-> "here", answers |-> 0])
    /\ inbox' = Append(inbox, Len(requests) + 1)
    /\ UNCHANGED <<store, trusted, untrusted, events>>

Handled(r, st, n) == requests' = [requests EXCEPT ![r].st = st, ![r].answers = @ + n]

\* do_request, for one request: answered from the store, and asked for unless the
\* answer is fresh.  A request that cannot be passed on is forgotten.
DoRequest ==
    /\ inbox # <<>> /\ inbox' = Tail(inbox) /\ UNCHANGED events
    /\ LET r == Head(inbox)
           name == requests[r].name
           cached == Responses(name) # "none"
           n == IF cached THEN 1 ELSE 0
           done == IF cached THEN "answered" ELSE "waiting"
           given == IF cached THEN "answered" ELSE "forgotten"
       IN \/ Responses(name) = "fresh" /\ Handled(r, "answered", 1) /\ UNCHANGED <<store, trusted, untrusted>>
          \/ /\ Responses(name) # "fresh" /\ IsBlocked(name) /\ UNCHANGED untrusted
             /\ \E q \in QueryOutcomes(trusted, name) :
                  /\ trusted' = q[1]
                  /\ \/ q[2] /\ store' = AddRequest(r, ~cached) /\ Handled(r, done, n)
                     \/ ~q[2] /\ UNCHANGED store /\ Handled(r, given, n)
          \/ /\ Responses(name) # "fresh" /\ ~IsBlocked(name) /\ UNCHANGED trusted
             /\ \/ /\ untrusted' = [untrusted EXCEPT ![name] = @ + 1]
                   /\ store' = AddRequest(r, ~cached) /\ Handled(r, done, n)
                \/ UNCHANGED <<store, untrusted>> /\ Handled(r, given, n)

\* How often r is in q.
Times(q, r) == Cardinality({k \in 1 .. Len(q) : q[k] = r})

\* Mutant: those who have their answer keep waiting.
AddressesKept(e) == e.addresses
AddressesCleared(e) == <<>>

\* dispatch_message: everybody who waits gets the answer; it expires by the time of
\* its last record, at once if it has none.  An answer that nobody asked for is
\* dropped.
DispatchMessage(name) ==
    IF name \notin DOMAIN store THEN UNCHANGED <<requests, store>>
    ELSE /\ requests' = [r \in DOMAIN requests |->
                            LET times == Times(store[name].addresses, r)
                            IN IF times = 0 THEN requests[r] ELSE [requests[r] EXCEPT !.st = "answered", !.answers = @ + times]]
         /\ \E response \in {"fresh", "expired"} :
                store' = WithEntry(name, [addresses |-> AddressesCleared(store[name]), response |-> response])

DoTrustedResponse ==
    /\ trusted.sent # <<>> /\ trusted' = [trusted EXCEPT !.sent = Tail(@)]
    /\ DispatchMessage(Head(trusted.sent))
    /\ UNCHANGED <<inbox, untrusted, events>>
\* The connection ends, or what it brings is no frame: reset_trusted.
TrustedEnds ==
    /\ events < NEvents /\ events' = events + 1
    /\ trusted' = NewTlsConn /\ UNCHANGED <<requests, inbox, store, untrusted>>
DoUntrustedResponse(name) ==
    /\ untrusted[name] > 0 /\ untrusted' = [untrusted EXCEPT ![name] = @ - 1]
    /\ DispatchMessage(name) /\ UNCHANGED <<inbox, trusted, events>>

-----------------------------------------------------------------------------
(* Time and the network *)

Expires(name) ==
    /\ Responses(name) = "fresh" /\ store' = [store EXCEPT ![name].response = "expired"]
    /\ UNCHANGED <<requests, inbox, trusted, untrusted, events>>
\* UDP loses and duplicates.
Misdelivers(name) ==
    /\ untrusted[name] > 0 /\ events < NEvents /\ events' = events + 1
    /\ \E n \in {untrusted[name] - 1, untrusted[name] + 1} : untrusted' = [untrusted EXCEPT ![name] = n]
    /\ UNCHANGED <<requests, inbox, store, trusted>>

MNext ==
    \/ DoRequest \/ DoTrustedResponse \/ TrustedEnds
    \/ \E name \in Queried : Ask(name) \/ DoUntrustedResponse(name) \/ Expires(name) \/ Misdelivers(name)

MSpec == MInit /\ [][MNext]_mvars

-----------------------------------------------------------------------------
(* Properties *)

MTypeOK ==
    /\ \A name \in DOMAIN store : name \in Queried /\ store[name] \in Entry
    /\ \A r \in DOMAIN requests : requests[r].st \in {"here", "waiting", "answered", "forgotten"}

\* Whatever is lost, comes twice or comes after the connection was replaced: a
\* request is answered once, or waits in the entry of its name, or could not be
\* passed on.  Nobody waits beside an answer.
EachAnsweredOnce ==
    /\ MTypeOK
    /\ \A r \in DOMAIN requests :
        LET name == requests[r].name
        IN /\ requests[r].answers = IF requests[r].st = "answered" THEN 1 ELSE 0
           /\ requests[r].st = "waiting" <=> name \in DOMAIN store /\ r \in ToSet(store[name].addresses)
    /\ \A name \in DOMAIN store : store[name].response # "none" => store[name].addresses = <<>>
=============================================================================
