----------------------------- MODULE DnsServer -----------------------------
(***************************************************************************)
(* The split DNS server of the windows build (src/src/dns/mod.rs and       *)
(* src/src/dns/server.rs).  One thread reloads the two lists when their    *)
(* files change and serves three UDP sockets: queries come in on the       *)
(* listener, and are answered from the hosts file, from the cache, or by   *)
(* the trusted server if the name is on the list of blocked domains and by *)
(* the poisoned server if it is not.                                       *)
(*                                                                         *)
(* A name stands for a key `name|type' of the store.  A list is the set of *)
(* names that it matches (module DomainMap has the matching).  A query and *)
(* its answer in transit are one element of `asked', which may be lost,    *)
(* overtaken and, NDup times, duplicated.                                  *)
(***************************************************************************)
EXTENDS Integers, Sequences, FiniteSets

CONSTANTS
    Names, PtrName,     \* names asked for; the name of the listener's address
    Addrs, Ids,         \* clients and message ids
    AddRoute,           \* the option add_route
    Contents,           \* the contents the two files take
    MaxWait,            \* bound on the askers that wait for one name
    MaxAsked,           \* bound on the queries at the servers
    MaxEdit,            \* bound on the changes of the files
    NDup                \* bound on duplicated answers

ASSUME ConstAssumption ==
    /\ PtrName \in Names /\ AddRoute \in BOOLEAN
    /\ Contents \subseteq SUBSET Names /\ {MaxWait, MaxAsked, MaxEdit, NDup} \subseteq Nat

Lists == {"domain", "hosts"}
Servers == {"trusted", "poisoned"}
\* A file that exists is <<content>>, a response that is there <<r>>.
Gone == <<>>
None == <<>>

VARIABLES
    pc,         \* where the thread is in run; "dead" after a panic or a failed start
    file,       \* the two files
    watching,   \* the files are watched
    events,     \* files with events in the channel of the monitor
    todo,       \* update_domain and update_hosts of this turn
    table,      \* blocked_domains and hosts
    store,      \* the cache, a function on the names asked for
    routed,     \* names whose address is in route_added
    asked,      \* queries at the servers, <<server, name, id>>
    owed,       \* history: accepted requests less answers, per client, id, name
    used        \* edits and duplicates so far

vars == <<pc, file, watching, events, todo, table, store, routed, asked, owed, used>>

\* QueryResult; expired stands for expire_time <= now.
Response == [from: Servers, id: Ids]
QueryResult == [addresses: Seq(Addrs \X Ids), response: {None} \cup {<<r>> : r \in Response}, expired: BOOLEAN]
Requests == Addrs \X Ids \X (Names \ {PtrName})

Init ==
    /\ pc = "watch" /\ file \in [Lists -> {<<c>> : c \in Contents}] /\ watching = {} /\ events = {} /\ todo = {}
    /\ table = [l \in Lists |-> {}] /\ store = <<>> /\ routed = {} /\ asked = {}
    /\ owed = [r \in Requests |-> 0] /\ used = [edits |-> 0, dups |-> 0]

-----------------------------------------------------------------------------
(* run: the lists *)

Served == <<store, routed, asked, owed>>

Watch ==
    /\ pc = "watch" /\ pc' = "setup" /\ watching' = Lists
    /\ UNCHANGED <<file, events, todo, table, used, Served>>

\* DnsServer::setup and set_dns_server.  Reading a file that is gone panics.
Setup ==
    /\ pc = "setup"
    /\ IF \E l \in Lists : file[l] = Gone
       THEN pc' = "dead" /\ UNCHANGED table
       ELSE pc' \in {"drain", "dead"} /\ table' = [l \in Lists |-> file[l][1]]
    /\ UNCHANGED <<file, watching, events, todo, used, Served>>

\* Mutant: one reload per turn, and the event of the other is dropped.
DrainOne ==
    /\ pc = "drain" /\ pc' = "update" /\ events' = {}
    /\ todo' = IF "domain" \in events THEN {"domain"} ELSE events
    /\ UNCHANGED <<file, watching, table, used, Served>>

Drain ==
    /\ pc = "drain" /\ pc' = "update"
    /\ todo' = events /\ events' = {}
    /\ UNCHANGED <<file, watching, table, used, Served>>

\* update_domain, then update_hosts.
Update ==
    \E l \in todo :
        /\ pc = "update"
        /\ l = "hosts" => "domain" \notin todo
        /\ IF file[l] = Gone
           THEN pc' = "dead" /\ UNCHANGED <<table, todo>>
           ELSE table' = [table EXCEPT ![l] = file[l][1]] /\ todo' = todo \ {l} /\ UNCHANGED pc
        /\ UNCHANGED <<file, watching, events, used, Served>>

Poll ==
    /\ pc = "update" /\ todo = {} /\ pc' = "poll"
    /\ UNCHANGED <<file, watching, events, todo, table, used, Served>>

\* All events of the poll are handled, or its second is over.
EndTurn ==
    /\ pc = "poll" /\ pc' = "drain"
    /\ UNCHANGED <<file, watching, events, todo, table, used, Served>>

\* Somebody writes or removes a file; a watched file puts an event in the channel.
Edit(l) ==
    /\ used.edits < MaxEdit /\ used' = [used EXCEPT !.edits = @ + 1]
    /\ \E c \in {<<d>> : d \in Contents} \cup {Gone} : file' = [file EXCEPT ![l] = c] /\ c # file[l]
    /\ events' = events \cup ({l} \cap watching)
    /\ UNCHANGED <<pc, watching, todo, table, Served>>

-----------------------------------------------------------------------------
(* ready: one message of one socket *)

Listed == <<file, watching, events, todo, table>>
Owe(f, a, i, n) == [f EXCEPT ![<<a, i, n>>] = @ + 1]
Paid(f, a, i, n) == [f EXCEPT ![<<a, i, n>>] = @ - 1]
Cached(n) == n \in DOMAIN store /\ store[n].response # None

\* Where a query is forwarded to.
Upstream(n) == IF n \in table["domain"] THEN "trusted" ELSE "poisoned"

\* send_to the server: it may fail.
Sent(n, i) == {asked} \cup { q \in {asked \cup {<<Upstream(n), n, i>>}} : Cardinality(q) <= MaxAsked }

\* The hosts file answers its names at once, with no record if the type does not
\* fit.
LocalHosts(a, i, n) ==
    /\ pc = "poll" /\ n \in table["hosts"]
    /\ UNCHANGED vars

\* arp_data is sent as setup made it, with the id 1: a client that asked with
\* another id drops it, and such requests are left out of `owed'.
LocalPtr(a, i) ==
    /\ pc = "poll" /\ PtrName \notin table["hosts"]
    /\ UNCHANGED vars

\* Mutant: the cached answer keeps its id.
SetIdNot(r, i) == r

SetId(r, i) == [r EXCEPT !.id = i]

\* Mutant: an expired answer is not renewed.
RenewNot(n) == FALSE

Renew(n) == store[n].expired

\* The cached answer is sent, expired or not; an expired one is asked for again.
LocalCached(a, i, n) ==
    /\ pc = "poll" /\ n \notin table["hosts"] /\ n # PtrName /\ Cached(n)
    /\ \E r \in {SetId(store[n].response[1], i)} :
        /\ store' = [store EXCEPT ![n].response = <<r>>]
        /\ owed' = Paid(Owe(owed, a, i, n), a, r.id, n)
    /\ asked' \in IF Renew(n) THEN Sent(n, i) ELSE {asked}
    /\ UNCHANGED <<pc, routed, used, Listed>>

NewResult(a, i) == [addresses |-> <<<<a, i>>>>, response |-> None, expired |-> FALSE]

\* Mutant: a name somebody waits for is not asked for again.
AddRequestOnce(a, i, n) ==
    /\ n \notin DOMAIN store
    /\ store' = [m \in DOMAIN store \cup {n} |-> IF m = n THEN NewResult(a, i) ELSE store[m]]

\* add_request
AddRequest(a, i, n) ==
    store' = IF n \in DOMAIN store
             THEN [store EXCEPT ![n].addresses = Append(@, <<a, i>>)]
             ELSE [m \in DOMAIN store \cup {n} |-> IF m = n THEN NewResult(a, i) ELSE store[m]]

Waiting(n) == IF n \in DOMAIN store THEN store[n].addresses ELSE <<>>

\* No answer is known: the query is forwarded and the asker remembered.
LocalForward(a, i, n) ==
    /\ pc = "poll" /\ n \notin table["hosts"] /\ n # PtrName /\ ~Cached(n)
    /\ Len(Waiting(n)) < MaxWait
    /\ asked' = asked \cup {<<Upstream(n), n, i>>} /\ Cardinality(asked') <= MaxAsked
    /\ AddRequest(a, i, n)
    /\ owed' = Owe(owed, a, i, n)
    /\ UNCHANGED <<pc, routed, used, Listed>>

Occurs(q, x) == Cardinality({ k \in 1 .. Len(q) : q[k] = x })

ClearAddresses(q) == <<>>

\* dispatch_server: an answer of server s about n.  records: it has answers;
\* live: the last of them has a ttl; ok: route_add_with_if.
DispatchServer(s, n, i) ==
    \E records, live, ok, dup \in BOOLEAN :
        /\ pc = "poll" /\ <<s, n, i>> \in asked
        /\ live => records
        /\ ok => (AddRoute /\ s = "trusted" /\ records)
        /\ dup => used.dups < NDup
        /\ asked' = IF dup THEN asked ELSE asked \ {<<s, n, i>>}
        /\ used' = IF dup THEN [used EXCEPT !.dups = @ + 1] ELSE used
        /\ \E q \in {store[n].addresses} :
            /\ owed' = [r \in Requests |-> IF r[3] = n THEN owed[r] - Occurs(q, <<r[1], r[2]>>) ELSE owed[r]]
            /\ store' = [store EXCEPT ![n] =
                    [ addresses |-> ClearAddresses(q), expired |-> ~live,
                      response |-> <<[from |-> s, id |-> IF q = <<>> THEN i ELSE q[Len(q)][2]]>> ]]
        /\ routed' = IF ok THEN routed \cup {n} ELSE routed
        /\ UNCHANGED <<pc, Listed>>

\* An answer without a question: get_message_key takes the first of none.
DispatchNoQuery(q) ==
    /\ pc = "poll" /\ q \in asked
    /\ pc' = "dead" /\ asked' = asked \ {q}
    /\ UNCHANGED <<store, routed, owed, used, Listed>>

\* expire_time passes.
Expire(n) ==
    /\ Cached(n) /\ ~store[n].expired
    /\ store' = [store EXCEPT ![n].expired = TRUE]
    /\ UNCHANGED <<pc, routed, asked, owed, used, Listed>>

\* A query or its answer is lost, unless MaxWait clients have asked in vain.
Lose(q) ==
    /\ q \in asked /\ Len(Waiting(q[2])) < MaxWait
    /\ asked' = asked \ {q}
    /\ UNCHANGED <<pc, store, routed, owed, used, Listed>>

-----------------------------------------------------------------------------

Turn == Watch \/ Setup \/ Drain \/ Update \/ Poll \/ EndTurn

Next ==
    \/ Turn
    \/ \E l \in Lists : Edit(l)
    \/ \E a \in Addrs, i \in Ids :
        \/ LocalPtr(a, i)
        \/ \E n \in Names : LocalHosts(a, i, n) \/ LocalCached(a, i, n) \/ LocalForward(a, i, n)
    \/ \E s \in Servers, n \in Names, i \in Ids : DispatchServer(s, n, i)
    \/ \E q \in asked : DispatchNoQuery(q) \/ Lose(q)
    \/ \E n \in Names : Expire(n)

Spec == Init /\ [][Next]_vars

\* The thread runs; a poll handles what the sockets hold.  Clients ask again for
\* what they need, sends succeed and answers arrive from time to time, and time
\* passes.
FairSpec ==
    /\ Spec /\ WF_vars(Turn)
    /\ \A n \in Names \ {PtrName} :
        /\ WF_vars(Expire(n))
        /\ SF_vars(\E a \in Addrs, i \in Ids : LocalForward(a, i, n))
        /\ SF_vars(\E a \in Addrs, i \in Ids : LocalCached(a, i, n) /\ asked' # asked)
        /\ \A s \in Servers : SF_vars(\E i \in Ids : DispatchServer(s, n, i))

-----------------------------------------------------------------------------
(* Properties *)

\* Every accepted request is answered once, under its own id, or its asker waits
\* for the name: no late, duplicated or shared answer is given twice or to a
\* client that did not ask.
EveryAskAccounted ==
    \A r \in Requests : owed[r] = Occurs(Waiting(r[3]), <<r[1], r[2]>>)

\* A list in force is the file's content unless a reload is on its way, although
\* files change at any time, while the program starts or reloads, too.
ListInForce ==
    pc \in {"drain", "update", "poll"} =>
        \A l \in Lists : l \in events \cup todo \/ file[l] = <<table[l]>>

\* A name that stays on the list of blocked domains is in the end answered by
\* the trusted server only, although the cache and the network still hold
\* answers of the poisoned one.
ListTakesEffect ==
    \A n \in Names :
        <>[](n \in table["domain"] /\ n \notin table["hosts"] /\ pc # "dead")
            => <>[](Cached(n) => store[n].response[1].from = "trusted")

\* An asker that waits is answered although queries and answers are lost, for
\* as long as the program lives and the hosts file does not take the name over.
AskedIsAnswered ==
    \A r \in Requests : []<>(owed[r] = 0 \/ pc = "dead" \/ r[3] \in table["hosts"])
=============================================================================
