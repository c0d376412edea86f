------------------------------- MODULE MCDns --------------------------------
(***************************************************************************)
(* DNS, each part on its own: the server; the two algorithms on its lists, *)
(* over all their inputs within the bounds (a behaviour is one call of     *)
(* DomainMap::contains or one line of update_hosts); and the resolver of   *)
(* the mobile app.                                                         *)
(***************************************************************************)
EXTENDS DnsServer

CONSTANTS
    n1, ptr,
    Labels, Empty, MaxLabels, MaxDomains,   \* DomainMap
    Ws, Hash, Dot, Letters, Ips, MaxLen,    \* HostsParser
    Queried, Blocked, NRequests, NEvents    \* MobileDns

ASSUME BoundsAssumption ==
    {MaxLabels, MaxDomains, MaxLen, NRequests, NEvents} \subseteq Nat \ {0} /\ Empty \notin Labels

VARIABLES
    part,
    domains, items, i, result,
    line, whole, state, ip, host,
    requests, inbox, mobileStore, trusted, untrusted, mobileEvents

\* The words i and ii are addresses.
Addresses == {<<"i">>, <<"i", "i">>}
\* Two names, one of them below a domain of the list.
TwoNames == {<<"x", "b", "c">>, <<"d", "c">>}
OneDomain == {<<"b", "c">>}

NoneOrFirst == {{}, {n1}}

Contains == INSTANCE DomainMap
Hosts == INSTANCE HostsParser
Mobile == INSTANCE MobileDns WITH store <- mobileStore, events <- mobileEvents

containsVars == <<domains, items, i, result>>
hostsVars == <<line, whole, state, ip, host>>
mobileVars == <<requests, inbox, mobileStore, trusted, untrusted, mobileEvents>>
all == <<part, vars, containsVars, hostsVars, mobileVars>>

ServerTurn(A) == part = "server" /\ A /\ UNCHANGED <<part, containsVars, hostsVars, mobileVars>>

MCInit ==
    /\ part \in {"server", "contains", "hosts", "mobile"} /\ Init /\ Mobile!MInit
    /\ part # "server" => \A l \in Lists : file[l] = <<{}>>
    /\ IF part = "contains" THEN Contains!Init
       ELSE domains = {} /\ items = <<>> /\ i = 0 /\ result = "none"
    /\ IF part = "hosts" THEN Hosts!Init
       ELSE line = <<>> /\ whole = <<>> /\ state = "LineStart" /\ ip = <<>> /\ host = <<>>

MCNext ==
    \/ ServerTurn(Next)
    \/ part = "contains" /\ Contains!Next /\ UNCHANGED <<part, vars, hostsVars, mobileVars>>
    \/ part = "hosts" /\ Hosts!Next /\ UNCHANGED <<part, vars, containsVars, mobileVars>>
    \/ part = "mobile" /\ Mobile!MNext /\ UNCHANGED <<part, vars, containsVars, hostsVars>>

\* The fairness of FairSpec.
MCSpec ==
    /\ MCInit /\ [][MCNext]_all /\ WF_all(ServerTurn(Turn))
    /\ WF_all(ServerTurn(Expire(n1)))
    /\ SF_all(ServerTurn(\E a \in Addrs, id \in Ids : LocalForward(a, id, n1)))
    /\ SF_all(ServerTurn(\E a \in Addrs, id \in Ids : LocalCached(a, id, n1) /\ asked' # asked))
    /\ \A s \in Servers : SF_all(ServerTurn(\E id \in Ids : DispatchServer(s, n1, id)))

-----------------------------------------------------------------------------
(* Properties: the components' *)

\* DomainMap::contains is the relation of being a domain of the list, or below
\* one, and its indices stay in range; update_hosts enters the first two words of
\* every line that is no comment.
ListsAsWritten ==
    /\ part = "contains" => Contains!ContainsSubdomains
    /\ part = "hosts" => Hosts!EntryIsTwoWords

\* The name server of the mobile app (MobileDns): whatever is lost, comes twice or
\* comes after the connection was replaced, a request is answered once or waits in
\* the entry of its name, and nobody waits beside an answer.
EachAnsweredOnce == Mobile!EachAnsweredOnce
=============================================================================
