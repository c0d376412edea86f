-------------------------- MODULE DnsServerProofs --------------------------
(***************************************************************************)
(* DNS for any names, clients, ids and files, and whatever the network     *)
(* loses, duplicates and reorders: the lists in force are those of the     *)
(* files, the lists are read as they are written, and requests are         *)
(* answered once, by the server and by the mobile app.                     *)
(***************************************************************************)
EXTENDS MCDns, FiniteSetTheorems, SequenceTheorems, TLAPS

\* ListInForce is inductive with: the files are watched before they are read,
\* and the reloads of a turn are done before its poll.
LInv ==
    /\ file \in [Lists -> {<<c>> : c \in Contents} \cup {Gone}]
    /\ events \subseteq Lists /\ todo \subseteq Lists
    /\ table = [l \in Lists |-> table[l]]
    /\ pc # "watch" => watching = Lists
    /\ pc \in {"watch", "setup", "drain", "poll"} => todo = {}
    /\ ListInForce

\* Steps that handle messages leave the lists alone.
LEMMA ListsUntouched ==
    ASSUME LInv, UNCHANGED Listed, pc' = pc \/ (pc = "poll" /\ pc' = "dead")
    PROVE  LInv'
BY DEF LInv, ListInForce, Listed

\* A list in force is the file's content unless a reload is on its way: no edit
\* at start, between the drain of the events and the reading of the files, or
\* during the poll is missed (run, update_domain, update_hosts).
THEOREM ListsFollowFiles == Spec => []ListInForce
<1>1. Init => LInv
  BY DEF Init, LInv, ListInForce
<1>2. LInv /\ [Next]_vars => LInv'
  <2> SUFFICES ASSUME LInv, [Next]_vars PROVE LInv'
    OBVIOUS
  <2>1. CASE Watch
    BY <2>1 DEF LInv, ListInForce, Watch
  <2>2. CASE Setup
    <3>1. \A l \in Lists : file[l] # Gone => file[l] = <<file[l][1]>>
      BY DEF LInv, Gone
    <3> QED BY <2>2, <3>1 DEF LInv, ListInForce, Setup, Gone
  <2>3. CASE Drain
    BY <2>3 DEF LInv, ListInForce, Drain
  <2>4. CASE Update
    <3>1. PICK l \in todo :
            /\ pc = "update"
            /\ IF file[l] = Gone
               THEN pc' = "dead" /\ UNCHANGED <<table, todo>>
               ELSE table' = [table EXCEPT ![l] = file[l][1]] /\ todo' = todo \ {l} /\ UNCHANGED pc
            /\ UNCHANGED <<file, watching, events>>
      BY <2>4 DEF Update
    <3>2. file[l] # Gone => file[l] = <<file[l][1]>>
      BY DEF LInv, Gone
    <3> QED BY <3>1, <3>2 DEF LInv, ListInForce
  <2>5. CASE Poll
    BY <2>5 DEF LInv, ListInForce, Poll
  <2>6. CASE EndTurn
    BY <2>6 DEF LInv, ListInForce, EndTurn
  <2>7. CASE \E l \in Lists : Edit(l)
    <3>1. PICK l \in Lists : Edit(l)
      BY <2>7
    <3> QED BY <3>1 DEF LInv, ListInForce, Edit, Gone
  <2>8. ASSUME NEW a \in Addrs, NEW id \in Ids, NEW n \in Names,
               LocalHosts(a, id, n) \/ LocalCached(a, id, n) \/ LocalForward(a, id, n) \/ LocalPtr(a, id)
        PROVE  LInv'
    BY ListsUntouched, <2>8 DEF LocalPtr, LocalHosts, LocalCached, LocalForward, Listed, vars
  <2>9. ASSUME NEW s \in Servers, NEW id \in Ids, NEW n \in Names, DispatchServer(s, n, id)
         PROVE  LInv'
    BY ListsUntouched, <2>9 DEF DispatchServer
  <2>10. ASSUME NEW q \in asked, DispatchNoQuery(q) \/ Lose(q)
         PROVE  LInv'
    BY ListsUntouched, <2>10 DEF DispatchNoQuery, Lose
  <2>11. ASSUME NEW n \in Names, Expire(n)
         PROVE  LInv'
    BY ListsUntouched, <2>11 DEF Expire
  <2>12. CASE UNCHANGED vars
    BY ListsUntouched, <2>12 DEF vars, Listed
  <2>13. QED
    BY <2>1, <2>2, <2>3, <2>4, <2>5, <2>6, <2>7, <2>8, <2>9, <2>10, <2>11, <2>12, ConstAssumption
       DEF Next, Turn
<1>3. LInv => ListInForce
  BY DEF LInv
<1> QED BY <1>1, <1>2, <1>3, PTL DEF Spec

-----------------------------------------------------------------------------
(* EveryAskAccounted *)

\* What the accounting rests on: a query at a server has an entry in the store,
\* and the entries' types.
AInv ==
    /\ owed \in [Requests -> Int]
    /\ store = [n \in DOMAIN store |-> store[n]]
    /\ DOMAIN store \subseteq Names \ {PtrName}
    /\ \A n \in DOMAIN store : store[n] \in QueryResult
    /\ \A x \in asked : x[2] \in DOMAIN store
    /\ EveryAskAccounted

\* Nobody waits in an empty list.
LEMMA OccursNone == ASSUME NEW x PROVE Occurs(<<>>, x) = 0
<1>1. { k \in 1 .. Len(<<>>) : <<>>[k] = x } = {}
  OBVIOUS
<1> QED BY <1>1, FS_EmptySet DEF Occurs

\* The count of an element is a natural number, and an append adds one to that of
\* the new element only.
LEMMA OccursAppend ==
    ASSUME NEW S, NEW q \in Seq(S), NEW x \in S, NEW y
    PROVE  /\ Occurs(q, y) \in Nat
           /\ Occurs(Append(q, x), y) = IF x = y THEN Occurs(q, y) + 1 ELSE Occurs(q, y)
<1> DEFINE A == { k \in 1 .. Len(q) : q[k] = y }
           B == { k \in 1 .. Len(Append(q, x)) : Append(q, x)[k] = y }
<1>1. Len(q) \in Nat /\ Len(Append(q, x)) = Len(q) + 1
  OBVIOUS
<1>2. IsFiniteSet(A) /\ Cardinality(A) \in Nat
  <2>1. IsFiniteSet(1 .. Len(q))
    BY <1>1, FS_Interval
  <2>2. IsFiniteSet(A)
    BY <2>1, FS_Subset
  <2> QED BY <2>2, FS_CardinalityType
<1>3. \A k \in 1 .. Len(q) : Append(q, x)[k] = q[k]
  OBVIOUS
<1>4. Append(q, x)[Len(q) + 1] = x
  OBVIOUS
<1>5. B = IF x = y THEN A \cup {Len(q) + 1} ELSE A
  BY <1>1, <1>3, <1>4
<1>6. Len(q) + 1 \notin A
  BY <1>1
<1>7. Cardinality(A \cup {Len(q) + 1}) = Cardinality(A) + 1
  BY <1>2, <1>6, FS_AddElement
<1> QED BY <1>2, <1>5, <1>7 DEF Occurs

\* Steps that touch neither the accounts nor the store.
LEMMA AccountsUntouched ==
    ASSUME AInv, UNCHANGED <<store, owed>>, asked' \subseteq asked
    PROVE  AInv'
BY DEF AInv, EveryAskAccounted, Waiting

\* Every accepted request is answered once, under its own id, or its asker is on
\* the list of its name (dispatch_local, dispatch_server, add_request).
THEOREM AsksAccounted == Spec => []EveryAskAccounted
<1>1. Init => AInv
  <2> SUFFICES ASSUME Init PROVE AInv
    OBVIOUS
  <2>1. DOMAIN store = {}
    BY DEF Init
  <2>2. EveryAskAccounted
    BY <2>1, OccursNone DEF Init, EveryAskAccounted, Waiting
  <2> QED BY <2>1, <2>2 DEF Init, AInv
<1>2. AInv /\ [Next]_vars => AInv'
  <2> SUFFICES ASSUME AInv, [Next]_vars PROVE AInv'
    OBVIOUS
  <2>1. CASE Turn \/ (\E l \in Lists : Edit(l)) \/ UNCHANGED vars
    BY <2>1, AccountsUntouched
       DEF Turn, Watch, Setup, Drain, Update, Poll, EndTurn, Edit, Served, vars
  <2>2. ASSUME NEW a \in Addrs, NEW id \in Ids, LocalPtr(a, id)
        PROVE  AInv'
    BY <2>2, AccountsUntouched DEF LocalPtr, vars
  <2>3. ASSUME NEW a \in Addrs, NEW id \in Ids, NEW n \in Names, LocalHosts(a, id, n)
        PROVE  AInv'
    BY <2>3, AccountsUntouched DEF LocalHosts, vars
  <2>4. ASSUME NEW a \in Addrs, NEW id \in Ids, NEW n \in Names, LocalCached(a, id, n)
        PROVE  AInv'
    <3> DEFINE e == store[n]
    <3>1. n \in DOMAIN store /\ e \in QueryResult /\ e.response # None /\ n # PtrName
      BY <2>4 DEF LocalCached, Cached, AInv
    <3>2. PICK r0 \in Response : e.response = <<r0>>
      BY <3>1 DEF QueryResult, None
    <3> DEFINE r == SetId(r0, id)
    <3>3. r \in Response /\ r.id = id
      BY <3>2 DEF SetId, Response
    <3>4. /\ store' = [store EXCEPT ![n].response = <<r>>]
          /\ owed' = Paid(Owe(owed, a, id, n), a, r.id, n)
      BY <2>4, <3>2 DEF LocalCached
    <3>5. <<a, id, n>> \in Requests
      BY <3>1 DEF Requests
    <3>6. owed' = owed
      BY <3>3, <3>4, <3>5 DEF Paid, Owe, AInv
    <3> HIDE DEF r
    <3>7. /\ DOMAIN store' = DOMAIN store
          /\ store' = [m \in DOMAIN store' |-> store'[m]]
          /\ \A m \in DOMAIN store : m # n => store'[m] = store[m]
          /\ store'[n] = [e EXCEPT !.response = <<r>>]
      BY <3>1, <3>4 DEF AInv
    <3>8. store'[n] \in QueryResult /\ store'[n].addresses = e.addresses
      BY <3>1, <3>3, <3>7 DEF QueryResult
    <3>9. \A m \in Names : Waiting(m)' = Waiting(m)
      BY <3>7, <3>8 DEF Waiting
    <3>10. EveryAskAccounted'
      BY <3>6, <3>9 DEF AInv, EveryAskAccounted, Requests
    <3>11. \A x \in asked' : x[2] \in DOMAIN store'
      BY <2>4, <3>1, <3>7 DEF LocalCached, Sent, AInv
    <3> QED BY <3>6, <3>7, <3>8, <3>10, <3>11 DEF AInv
  <2>5. ASSUME NEW a \in Addrs, NEW id \in Ids, NEW n \in Names, LocalForward(a, id, n)
        PROVE  AInv'
    <3>1. /\ n \in Names \ {PtrName}
          /\ AddRequest(a, id, n) /\ owed' = Owe(owed, a, id, n)
          /\ asked' = asked \cup {<<Upstream(n), n, id>>}
      BY <2>5 DEF LocalForward
    <3>2. Waiting(n) \in Seq(Addrs \X Ids)
      BY DEF AInv, Waiting, QueryResult
    <3>3. /\ DOMAIN store' = DOMAIN store \cup {n}
          /\ store' = [m \in DOMAIN store' |-> store'[m]]
          /\ \A m \in DOMAIN store : m # n => store'[m] = store[m]
          /\ store'[n] \in QueryResult
          /\ store'[n].addresses = Append(Waiting(n), <<a, id>>)
      <4>1. CASE n \in DOMAIN store
        <5>1. store' = [store EXCEPT ![n].addresses = Append(@, <<a, id>>)]
          BY <3>1, <4>1 DEF AddRequest
        <5>2. store[n] \in QueryResult
          BY <4>1 DEF AInv
        <5>3. store'[n] = [store[n] EXCEPT !.addresses = Append(@, <<a, id>>)]
          BY <4>1, <5>1 DEF AInv
        <5>4. store'[n] \in QueryResult /\ store'[n].addresses = Append(store[n].addresses, <<a, id>>)
          <6>1. Append(store[n].addresses, <<a, id>>) \in Seq(Addrs \X Ids)
            BY <5>2 DEF QueryResult
          <6> QED BY <5>2, <5>3, <6>1 DEF QueryResult
        <5> QED BY <4>1, <5>1, <5>4 DEF AInv, Waiting
      <4>2. CASE n \notin DOMAIN store
        <5>1. store' = [m \in DOMAIN store \cup {n} |-> IF m = n THEN NewResult(a, id) ELSE store[m]]
          BY <3>1, <4>2 DEF AddRequest
        <5>2. NewResult(a, id) \in QueryResult
          BY DEF NewResult, QueryResult, None
        <5>3. NewResult(a, id).addresses = Append(Waiting(n), <<a, id>>)
          BY <4>2 DEF NewResult, Waiting
        <5> QED BY <5>1, <5>2, <5>3
      <4> QED BY <4>1, <4>2
    <3>4. owed' \in [Requests -> Int]
      <4>1. <<a, id, n>> \in Requests
        BY <3>1 DEF Requests
      <4> QED BY <3>1, <4>1 DEF AInv, Owe
    <3>5. EveryAskAccounted'
      <4> SUFFICES ASSUME NEW s \in Requests
                   PROVE  owed'[s] = Occurs(Waiting(s[3])', <<s[1], s[2]>>)
        BY DEF EveryAskAccounted
      <4>1. s = <<s[1], s[2], s[3]>> /\ s[1] \in Addrs /\ s[2] \in Ids /\ s[3] \in Names \ {PtrName}
        BY DEF Requests
      <4>2. owed[s] = Occurs(Waiting(s[3]), <<s[1], s[2]>>)
        BY DEF AInv, EveryAskAccounted
      <4>3. CASE s[3] # n
        <5>1. Waiting(s[3])' = Waiting(s[3])
          BY <3>3, <4>3 DEF Waiting
        <5>2. owed'[s] = owed[s]
          BY <3>1, <4>1, <4>3 DEF AInv, Owe
        <5> QED BY <4>2, <5>1, <5>2
      <4>4. CASE s[3] = n
        <5>1. Waiting(n)' = Append(Waiting(n), <<a, id>>)
          BY <3>3 DEF Waiting
        <5>2. owed'[s] = IF <<a, id>> = <<s[1], s[2]>> THEN owed[s] + 1 ELSE owed[s]
          BY <3>1, <4>1, <4>4 DEF AInv, Owe
        <5>3. Occurs(Append(Waiting(n), <<a, id>>), <<s[1], s[2]>>)
                = IF <<a, id>> = <<s[1], s[2]>> THEN Occurs(Waiting(n), <<s[1], s[2]>>) + 1
                  ELSE Occurs(Waiting(n), <<s[1], s[2]>>)
          BY <3>2, OccursAppend
        <5> QED BY <4>2, <4>4, <5>1, <5>2, <5>3
      <4> QED BY <4>3, <4>4
    <3>6. \A x \in asked' : x[2] \in DOMAIN store'
      BY <3>1, <3>3 DEF AInv
    <3> QED BY <3>1, <3>3, <3>4, <3>5, <3>6 DEF AInv
  <2>6. ASSUME NEW s \in Servers, NEW n \in Names, NEW id \in Ids, DispatchServer(s, n, id)
        PROVE  AInv'
    <3> DEFINE q == store[n].addresses
               answer == [from |-> s, id |-> IF q = <<>> THEN id ELSE q[Len(q)][2]]
               new(live) == [addresses |-> ClearAddresses(q), expired |-> ~live, response |-> <<answer>>]
    <3>1. <<s, n, id>> \in asked /\ n \in DOMAIN store /\ n \in Names \ {PtrName} /\ store[n] \in QueryResult
      BY <2>6 DEF DispatchServer, AInv
    <3>2. PICK live \in BOOLEAN :
            /\ asked' \subseteq asked
            /\ owed' = [r \in Requests |-> IF r[3] = n THEN owed[r] - Occurs(q, <<r[1], r[2]>>) ELSE owed[r]]
            /\ store' = [store EXCEPT ![n] = new(live)]
      BY <2>6 DEF DispatchServer
    <3>3. q \in Seq(Addrs \X Ids)
      BY <3>1 DEF QueryResult
    <3>4. q # <<>> => q[Len(q)][2] \in Ids
      BY <3>3
    <3>5. new(live) \in QueryResult /\ new(live).addresses = <<>>
      <4>1. answer \in Response
        BY <3>4 DEF Response
      <4>2. <<answer>> \in {None} \cup {<<r>> : r \in Response}
        BY <4>1
      <4>3. ClearAddresses(q) = <<>> /\ <<>> \in Seq(Addrs \X Ids)
        BY DEF ClearAddresses
      <4> HIDE DEF answer
      <4> QED BY <4>2, <4>3 DEF QueryResult
    <3> HIDE DEF new
    <3>6. /\ DOMAIN store' = DOMAIN store
          /\ store' = [m \in DOMAIN store' |-> store'[m]]
          /\ \A m \in DOMAIN store : m # n => store'[m] = store[m]
          /\ store'[n] = new(live)
      BY <3>1, <3>2 DEF AInv
    <3>7. \A r \in Requests : owed[r] = Occurs(Waiting(r[3]), <<r[1], r[2]>>) /\ owed[r] \in Int
      BY DEF AInv, EveryAskAccounted
    <3>8. ASSUME NEW r \in Requests
          PROVE  owed'[r] = Occurs(Waiting(r[3])', <<r[1], r[2]>>) /\ owed'[r] \in Int
      <4>1. CASE r[3] = n
        <5>1. owed'[r] = owed[r] - Occurs(q, <<r[1], r[2]>>) /\ Waiting(n) = q /\ Waiting(n)' = <<>>
          BY <3>1, <3>2, <3>5, <3>6, <4>1 DEF Waiting
        <5>2. owed'[r] = 0
          BY <3>7, <4>1, <5>1
        <5> QED BY <4>1, <5>1, <5>2, OccursNone
      <4>2. CASE r[3] # n
        <5>1. owed'[r] = owed[r]
          BY <3>2, <4>2
        <5>2. Waiting(r[3])' = Waiting(r[3])
          BY <3>6, <4>2 DEF Waiting
        <5> QED BY <3>7, <5>1, <5>2
      <4> QED BY <4>1, <4>2
    <3>9. owed' \in [Requests -> Int]
      BY <3>2, <3>8
    <3>10. EveryAskAccounted'
      BY <3>8 DEF EveryAskAccounted
    <3>11. \A m \in DOMAIN store' : store'[m] \in QueryResult
      BY <3>5, <3>6 DEF AInv
    <3>12. \A x \in asked' : x[2] \in DOMAIN store'
      BY <3>2, <3>6 DEF AInv
    <3> QED BY <3>6, <3>9, <3>10, <3>11, <3>12 DEF AInv
  <2>7. ASSUME NEW q \in asked, DispatchNoQuery(q) \/ Lose(q)
        PROVE  AInv'
    BY <2>7, AccountsUntouched DEF DispatchNoQuery, Lose
  <2>8. ASSUME NEW n \in Names, Expire(n)
        PROVE  AInv'
    <3>1. n \in DOMAIN store /\ store[n] \in QueryResult
      BY <2>8 DEF Expire, Cached, AInv
    <3>2. store' = [store EXCEPT ![n].expired = TRUE] /\ UNCHANGED <<owed, asked>>
      BY <2>8 DEF Expire
    <3>3. /\ DOMAIN store' = DOMAIN store
          /\ store' = [m \in DOMAIN store' |-> store'[m]]
          /\ \A m \in DOMAIN store : m # n => store'[m] = store[m]
          /\ store'[n] = [store[n] EXCEPT !.expired = TRUE]
      BY <3>1, <3>2 DEF AInv
    <3>4. store'[n] \in QueryResult /\ store'[n].addresses = store[n].addresses
      BY <3>1, <3>3 DEF QueryResult
    <3>5. \A m \in Names : Waiting(m)' = Waiting(m)
      BY <3>3, <3>4 DEF Waiting
    <3>6. EveryAskAccounted'
      BY <3>2, <3>5 DEF AInv, EveryAskAccounted, Requests
    <3>7. \A m \in DOMAIN store' : store'[m] \in QueryResult
      BY <3>3, <3>4 DEF AInv
    <3> QED BY <3>2, <3>3, <3>6, <3>7 DEF AInv
  <2>9. QED
    BY <2>1, <2>2, <2>3, <2>4, <2>5, <2>6, <2>7, <2>8 DEF Next
<1>3. AInv => EveryAskAccounted
  BY DEF AInv
<1> QED BY <1>1, <1>2, <1>3, PTL DEF Spec

-----------------------------------------------------------------------------
(* EachAnsweredOnce *)

\* What is known of the requests, of those that the listener has and of those that
\* wait in the entry of a name: none is in two places.
Request == [name: Queried, st: {"here", "waiting", "answered", "forgotten"}, answers: {0, 1}]

Distinct(q) == \A j, k \in 1 .. Len(q) : q[j] = q[k] => j = k
Here(q) == \A k \in 1 .. Len(q) : q[k] \in DOMAIN requests /\ requests[q[k]].st = "here"
Waiters(n, q) ==
    \A k \in 1 .. Len(q) :
        q[k] \in DOMAIN requests /\ requests[q[k]].name = n /\ requests[q[k]].st = "waiting"

ReqInv ==
    /\ requests \in Seq(Request) /\ Len(requests) <= NRequests
    /\ \A r \in DOMAIN requests : requests[r].answers = IF requests[r].st = "answered" THEN 1 ELSE 0
InboxInv == inbox \in Seq(Nat) /\ Distinct(inbox) /\ Here(inbox)
StoreInv ==
    /\ mobileStore = [n \in DOMAIN mobileStore |-> mobileStore[n]]
    /\ \A n \in DOMAIN mobileStore :
        /\ n \in Queried /\ mobileStore[n] \in Mobile!Entry
        /\ Distinct(mobileStore[n].addresses) /\ Waiters(n, mobileStore[n].addresses)
        /\ mobileStore[n].response # "none" => mobileStore[n].addresses = <<>>
\* Who waits is in the entry of its name.
ListedInv ==
    \A r \in DOMAIN requests :
        requests[r].st = "waiting" =>
            /\ requests[r].name \in DOMAIN mobileStore
            /\ \E k \in 1 .. Len(mobileStore[requests[r].name].addresses) :
                    mobileStore[requests[r].name].addresses[k] = r

MobileInv == ReqInv /\ InboxInv /\ StoreInv /\ ListedInv

LEMMA MobileInvGives == MobileInv => Mobile!EachAnsweredOnce
<1> SUFFICES ASSUME MobileInv PROVE Mobile!EachAnsweredOnce
  OBVIOUS
<1>1. Mobile!MTypeOK
  <2>1. \A r \in DOMAIN requests : requests[r] \in Request
    BY DEF MobileInv, ReqInv
  <2> QED BY <2>1 DEF MobileInv, StoreInv, Request, Mobile!MTypeOK
<1>2. ASSUME NEW r \in DOMAIN requests
      PROVE  requests[r].st = "waiting" <=>
                requests[r].name \in DOMAIN mobileStore /\ r \in Mobile!ToSet(mobileStore[requests[r].name].addresses)
  <2> DEFINE n == requests[r].name
             q == mobileStore[n].addresses
  <2>1. n \in DOMAIN mobileStore => DOMAIN q = 1 .. Len(q)
    BY DEF MobileInv, StoreInv, Mobile!Entry
  <2>2. n \in DOMAIN mobileStore => Waiters(n, q)
    BY DEF MobileInv, StoreInv
  <2>3. requests[r].st = "waiting" => n \in DOMAIN mobileStore /\ \E k \in 1 .. Len(q) : q[k] = r
    BY DEF MobileInv, ListedInv
  <2> HIDE DEF n, q
  <2>4. (n \in DOMAIN mobileStore /\ r \in Mobile!ToSet(q)) <=> (n \in DOMAIN mobileStore /\ \E k \in 1 .. Len(q) : q[k] = r)
    BY <2>1 DEF Mobile!ToSet
  <2>5. (requests[r].st = "waiting") <=> (n \in DOMAIN mobileStore /\ \E k \in 1 .. Len(q) : q[k] = r)
    BY <2>2, <2>3 DEF Waiters
  <2>6. requests[r].st = "waiting" <=> n \in DOMAIN mobileStore /\ r \in Mobile!ToSet(q)
    BY <2>4, <2>5
  <2> QED BY <2>6 DEF n, q
<1>3. \A r \in DOMAIN requests : requests[r].answers = IF requests[r].st = "answered" THEN 1 ELSE 0
  BY DEF MobileInv, ReqInv
<1>4. \A n \in DOMAIN mobileStore : mobileStore[n].response # "none" => mobileStore[n].addresses = <<>>
  BY DEF MobileInv, StoreInv
<1> QED BY <1>1, <1>2, <1>3, <1>4, Zenon DEF Mobile!EachAnsweredOnce

LEMMA SameMobileCardinality == \A T : Mobile!Cardinality(T) = Cardinality(T)
BY DEF Mobile!Cardinality, Cardinality, Mobile!IsFiniteSet, IsFiniteSet

\* A list without repetitions has every element once.
LEMMA TimesOnce ==
    ASSUME NEW q, Distinct(q), NEW r
    PROVE  Mobile!Times(q, r) = IF \E k \in 1 .. Len(q) : q[k] = r THEN 1 ELSE 0
<1> DEFINE P == {k \in 1 .. Len(q) : q[k] = r}
<1>1. Mobile!Times(q, r) = Cardinality(P)
  BY SameMobileCardinality DEF Mobile!Times
<1>2. CASE \E k \in 1 .. Len(q) : q[k] = r
  <2>1. PICK k \in 1 .. Len(q) : q[k] = r
    BY <1>2
  <2>2. P = {k}
    BY <2>1 DEF Distinct
  <2>3. Cardinality({k}) = 1
    BY FS_Singleton
  <2> QED BY <1>1, <1>2, <2>2, <2>3
<1>3. CASE ~ \E k \in 1 .. Len(q) : q[k] = r
  <2>1. P = {}
    BY <1>3
  <2> QED BY <1>1, <1>3, <2>1, FS_EmptySet
<1> QED BY <1>2, <1>3

\* A request that leaves the listener, answered, forgotten or waiting.
LEMMA TakenFromInbox ==
    ASSUME MobileInv, inbox # <<>>, inbox' = Tail(inbox), NEW st \in {"waiting", "answered", "forgotten"},
           NEW n \in {0, 1}, n = IF st = "answered" THEN 1 ELSE 0,
           Mobile!Handled(Head(inbox), st, n)
    PROVE  /\ Head(inbox) \in DOMAIN requests /\ requests[Head(inbox)].st = "here"
           /\ DOMAIN requests' = DOMAIN requests
           /\ \A x \in DOMAIN requests : x # Head(inbox) => requests'[x] = requests[x]
           /\ requests'[Head(inbox)].name = requests[Head(inbox)].name
           /\ requests'[Head(inbox)].st = st
           /\ ReqInv' /\ InboxInv'
<1> DEFINE r == Head(inbox)
<1>1. inbox \in Seq(Nat) /\ Len(inbox) \in Nat /\ Len(inbox) > 0 /\ r = inbox[1] /\ Distinct(inbox) /\ Here(inbox)
  BY DEF MobileInv, InboxInv
<1>2. r \in DOMAIN requests /\ requests[r].st = "here"
  BY <1>1 DEF Here
<1>3. /\ requests \in Seq(Request) /\ DOMAIN requests = 1 .. Len(requests) /\ Len(requests) \in Nat
      /\ Len(requests) <= NRequests
      /\ \A x \in DOMAIN requests : requests[x].answers = IF requests[x].st = "answered" THEN 1 ELSE 0
  BY DEF MobileInv, ReqInv
<1>4. requests[r] \in Request /\ requests[r].answers = 0
  BY <1>2, <1>3
<1> HIDE DEF r
<1>5. requests' = [requests EXCEPT ![r].st = st, ![r].answers = @ + n]
  BY DEF Mobile!Handled, r
<1> DEFINE e == [requests[r] EXCEPT !.st = st, !.answers = @ + n]
<1>6. e \in Request /\ e.name = requests[r].name /\ e.st = st /\ e.answers = n
  <2>1. requests[r].answers + n = n
    BY <1>4
  <2>2. e = [requests[r] EXCEPT !.st = st, !.answers = n]
    BY <2>1, <1>4 DEF Request
  <2> HIDE DEF e
  <2> QED BY <1>4, <2>2 DEF Request
<1>7. requests' = [requests EXCEPT ![r] = e]
  BY <1>5, <1>2, <1>3
<1> HIDE DEF e
<1>8. /\ DOMAIN requests' = DOMAIN requests /\ requests'[r] = e
      /\ \A x \in DOMAIN requests : x # r => requests'[x] = requests[x]
  BY <1>2, <1>3, <1>7
<1>9. requests' \in Seq(Request) /\ Len(requests') = Len(requests)
  BY <1>2, <1>3, <1>6, <1>7, ExceptSeq
<1>10. ReqInv'
  BY <1>3, <1>6, <1>8, <1>9 DEF ReqInv
<1>11. InboxInv'
  <2>1. /\ Tail(inbox) \in Seq(Nat) /\ Len(Tail(inbox)) = Len(inbox) - 1
        /\ \A k \in 1 .. Len(inbox) - 1 : Tail(inbox)[k] = inbox[k + 1]
    BY <1>1, HeadTailProperties
  <2>2. Distinct(Tail(inbox))
    BY <1>1, <2>1 DEF Distinct
  <2>3. \A k \in 1 .. Len(inbox) - 1 : inbox[k + 1] # r
    BY <1>1 DEF Distinct
  <2>4. Here(inbox)'
    <3> SUFFICES ASSUME NEW k \in 1 .. Len(Tail(inbox))
                 PROVE  Tail(inbox)[k] \in DOMAIN requests' /\ requests'[Tail(inbox)[k]].st = "here"
      BY Zenon DEF Here
    <3>1. k \in 1 .. Len(inbox) - 1 /\ Tail(inbox)[k] = inbox[k + 1] /\ k + 1 \in 1 .. Len(inbox)
      BY <1>1, <2>1
    <3>2. inbox[k + 1] # r /\ inbox[k + 1] \in DOMAIN requests /\ requests[inbox[k + 1]].st = "here"
      BY <1>1, <2>3, <3>1 DEF Here
    <3> QED BY <1>8, <3>1, <3>2
  <2>5. Distinct(inbox)'
    BY <2>2, Zenon DEF Distinct
  <2> QED BY <2>1, <2>4, <2>5 DEF InboxInv
<1> QED BY <1>2, <1>6, <1>8, <1>10, <1>11 DEF r

\* A request that is answered from the store, or forgotten.
LEMMA RequestEnds ==
    ASSUME MobileInv, inbox # <<>>, inbox' = Tail(inbox), mobileStore' = mobileStore,
           NEW st \in {"answered", "forgotten"},
           NEW n \in {0, 1}, n = IF st = "answered" THEN 1 ELSE 0,
           Mobile!Handled(Head(inbox), st, n)
    PROVE  MobileInv'
<1> DEFINE r == Head(inbox)
<1>1. /\ r \in DOMAIN requests /\ requests[r].st = "here"
      /\ DOMAIN requests' = DOMAIN requests
      /\ \A x \in DOMAIN requests : x # r => requests'[x] = requests[x]
      /\ requests'[r].st = st /\ ReqInv' /\ InboxInv'
  BY TakenFromInbox
<1> HIDE DEF r
<1>2. StoreInv'
  <2>1. \A m \in DOMAIN mobileStore : Waiters(m, mobileStore[m].addresses)'
    <3> SUFFICES ASSUME NEW m \in DOMAIN mobileStore PROVE Waiters(m, mobileStore[m].addresses)'
      OBVIOUS
    <3>1. Waiters(m, mobileStore[m].addresses)
      BY DEF MobileInv, StoreInv
    <3> QED BY <1>1, <3>1 DEF Waiters
  <2> QED BY <2>1 DEF MobileInv, StoreInv, Distinct
<1>3. ListedInv'
  BY <1>1 DEF MobileInv, ListedInv
<1> QED BY <1>1, <1>2, <1>3 DEF MobileInv

\* A request that is passed on, and waits in the entry of its name.
LEMMA RequestWaits ==
    ASSUME MobileInv, inbox # <<>>, inbox' = Tail(inbox), Mobile!Responses(requests[Head(inbox)].name) = "none",
           mobileStore' = Mobile!AddRequest(Head(inbox), TRUE), Mobile!Handled(Head(inbox), "waiting", 0)
    PROVE  MobileInv'
<1> DEFINE r == Head(inbox)
           m == requests[r].name
           q == IF m \in DOMAIN mobileStore THEN mobileStore[m].addresses ELSE <<>>
           e == [addresses |-> Append(q, r), response |-> "none"]
<1>1. /\ r \in DOMAIN requests /\ requests[r].st = "here"
      /\ DOMAIN requests' = DOMAIN requests
      /\ \A x \in DOMAIN requests : x # r => requests'[x] = requests[x]
      /\ requests'[r].name = m
      /\ requests'[r].st = "waiting" /\ ReqInv' /\ InboxInv'
  BY TakenFromInbox
<1>2. m \in Queried /\ r \in 1 .. NRequests
  <2>1. /\ requests \in Seq(Request) /\ Len(requests) \in Nat /\ DOMAIN requests = 1 .. Len(requests)
        /\ Len(requests) <= NRequests /\ NRequests \in Nat
    BY BoundsAssumption DEF MobileInv, ReqInv
  <2> HIDE DEF r
  <2>2. requests[r] \in Request
    BY <1>1, <2>1
  <2>3. m \in Queried
    BY <2>2 DEF Request
  <2> QED BY <1>1, <2>1, <2>3
<1>3. /\ DOMAIN mobileStore' = DOMAIN mobileStore \cup {m} /\ mobileStore'[m] = e
      /\ \A x \in DOMAIN mobileStore : x # m => mobileStore'[x] = mobileStore[x]
      /\ mobileStore' = [x \in DOMAIN mobileStore' |-> mobileStore'[x]]
  BY DEF Mobile!AddRequest, Mobile!WithEntry
<1>4. q \in Seq(1 .. NRequests) /\ Distinct(q) /\ Waiters(m, q)
  <2>1. CASE m \in DOMAIN mobileStore
    BY <2>1 DEF MobileInv, StoreInv, Mobile!Entry
  <2>2. CASE m \notin DOMAIN mobileStore
    BY <2>2 DEF Distinct, Waiters
  <2> QED BY <2>1, <2>2
<1>4a. m \in DOMAIN mobileStore => q = mobileStore[m].addresses
  OBVIOUS
<1> HIDE DEF r, m, q
<1>5. /\ e \in Mobile!Entry /\ e.addresses = Append(q, r) /\ e.response = "none"
  BY <1>2, <1>4 DEF Mobile!Entry
<1> HIDE DEF e
<1>6. /\ Len(q) \in Nat /\ Len(Append(q, r)) = Len(q) + 1 /\ Append(q, r)[Len(q) + 1] = r
      /\ \A k \in 1 .. Len(q) : Append(q, r)[k] = q[k]
  BY <1>2, <1>4, AppendProperties
<1>7. \A k \in 1 .. Len(q) : q[k] # r
  BY <1>1, <1>4 DEF Waiters
<1>8. Distinct(Append(q, r))
  <2> SUFFICES ASSUME NEW j \in 1 .. Len(q) + 1, NEW k \in 1 .. Len(q) + 1, Append(q, r)[j] = Append(q, r)[k]
               PROVE  j = k
    BY <1>6 DEF Distinct
  <2>1. CASE j \in 1 .. Len(q) /\ k \in 1 .. Len(q)
    BY <1>4, <1>6, <2>1 DEF Distinct
  <2>2. CASE j = Len(q) + 1 /\ k \in 1 .. Len(q)
    BY <1>6, <1>7, <2>2
  <2>3. CASE k = Len(q) + 1 /\ j \in 1 .. Len(q)
    BY <1>6, <1>7, <2>3
  <2> QED BY <1>6, <2>1, <2>2, <2>3
<1>9. ASSUME NEW k \in 1 .. Len(q) + 1
      PROVE  /\ Append(q, r)[k] \in DOMAIN requests' /\ requests'[Append(q, r)[k]].name = m
             /\ requests'[Append(q, r)[k]].st = "waiting"
  <2>1. CASE k = Len(q) + 1
    BY <1>1, <1>6, <2>1
  <2>2. CASE k \in 1 .. Len(q)
    <3>1. q[k] \in DOMAIN requests /\ q[k] # r /\ requests[q[k]].name = m /\ requests[q[k]].st = "waiting"
      BY <1>4, <1>7, <2>2 DEF Waiters
    <3> QED BY <1>1, <1>6, <2>2, <3>1
  <2> QED BY <1>6, <2>1, <2>2
<1>10. StoreInv'
  <2> SUFFICES ASSUME NEW x \in DOMAIN mobileStore'
               PROVE  /\ x \in Queried /\ mobileStore'[x] \in Mobile!Entry
                      /\ Distinct(mobileStore'[x].addresses) /\ Waiters(x, mobileStore[x].addresses)'
                      /\ mobileStore'[x].response # "none" => mobileStore'[x].addresses = <<>>
    BY <1>3, Zenon DEF StoreInv, Distinct
  <2>1. CASE x = m
    <3>1. Waiters(x, mobileStore[x].addresses)'
      BY <1>3, <1>5, <1>6, <1>9, <2>1 DEF Waiters
    <3> QED BY <1>2, <1>3, <1>5, <1>8, <2>1, <3>1
  <2>2. CASE x # m
    <3>1. x \in DOMAIN mobileStore /\ mobileStore'[x] = mobileStore[x]
      BY <1>3, <2>2
    <3>2. Waiters(x, mobileStore[x].addresses)
      BY <3>1 DEF MobileInv, StoreInv
    <3>3. Waiters(x, mobileStore[x].addresses)'
      <4> DEFINE p == mobileStore[x].addresses
      <4>1. mobileStore'[x].addresses = p
        BY <3>1
      <4>2. Waiters(x, p)
        BY <3>2
      <4> HIDE DEF p
      <4>3. \A k \in 1 .. Len(p) : p[k] \in DOMAIN requests' /\ requests'[p[k]].name = x /\ requests'[p[k]].st = "waiting"
        BY <1>1, <4>2 DEF Waiters
      <4> QED BY <4>1, <4>3 DEF Waiters
    <3> QED BY <3>1, <3>3 DEF MobileInv, StoreInv
  <2> QED BY <2>1, <2>2
<1>11. ListedInv'
  <2> SUFFICES ASSUME NEW x \in DOMAIN requests', requests'[x].st = "waiting"
               PROVE  /\ requests'[x].name \in DOMAIN mobileStore'
                      /\ \E k \in 1 .. Len(mobileStore'[requests'[x].name].addresses) :
                              mobileStore'[requests'[x].name].addresses[k] = x
    BY Zenon DEF ListedInv
  <2>1. CASE x = r
    <3>1. mobileStore'[m].addresses = Append(q, r)
      BY <1>3, <1>5
    <3>2. Len(q) + 1 \in 1 .. Len(Append(q, r))
      BY <1>6
    <3> QED BY <1>1, <1>3, <1>6, <2>1, <3>1, <3>2
  <2>2. CASE x # r
    <3>1. /\ requests'[x] = requests[x] /\ requests[x].name \in DOMAIN mobileStore
          /\ \E k \in 1 .. Len(mobileStore[requests[x].name].addresses) : mobileStore[requests[x].name].addresses[k] = x
      BY <1>1, <2>2 DEF MobileInv, ListedInv
    <3>2. CASE requests[x].name # m
      BY <1>3, <3>1, <3>2
    <3>3. CASE requests[x].name = m
      <4>1. PICK k \in 1 .. Len(q) : q[k] = x
        BY <1>4a, <3>1, <3>3
      <4>2. k \in 1 .. Len(Append(q, r)) /\ Append(q, r)[k] = x
        BY <1>6, <4>1
      <4> QED BY <1>3, <1>5, <3>1, <3>3, <4>2
    <3> QED BY <3>2, <3>3
  <2> QED BY <2>1, <2>2
<1> QED BY <1>1, <1>10, <1>11 DEF MobileInv

LEMMA RequestDone == ASSUME MobileInv, Mobile!DoRequest PROVE MobileInv'
<1> DEFINE r == Head(inbox)
           name == requests[r].name
           cached == Mobile!Responses(name) # "none"
           n == IF cached THEN 1 ELSE 0
           done == IF cached THEN "answered" ELSE "waiting"
           given == IF cached THEN "answered" ELSE "forgotten"
<1>1. inbox # <<>> /\ inbox' = Tail(inbox)
  BY DEF Mobile!DoRequest
<1>2. \/ Mobile!Responses(name) = "fresh" /\ Mobile!Handled(r, "answered", 1) /\ UNCHANGED mobileStore
      \/ mobileStore' = Mobile!AddRequest(r, ~cached) /\ Mobile!Handled(r, done, n)
      \/ UNCHANGED mobileStore /\ Mobile!Handled(r, given, n)
  BY DEF Mobile!DoRequest
<1>3. Mobile!AddRequest(r, FALSE) = mobileStore
  BY DEF Mobile!AddRequest
<1> HIDE DEF r, name, cached, n, done, given
<1>4. CASE Mobile!Handled(r, "answered", 1) /\ UNCHANGED mobileStore
  BY <1>1, <1>4, RequestEnds DEF r
<1>5. CASE Mobile!Handled(r, "forgotten", 0) /\ UNCHANGED mobileStore
  BY <1>1, <1>5, RequestEnds DEF r
<1>6. CASE ~cached /\ mobileStore' = Mobile!AddRequest(r, TRUE) /\ Mobile!Handled(r, "waiting", 0)
  BY <1>1, <1>6, RequestWaits DEF r, name, cached
<1>7. cached \in BOOLEAN
  BY DEF cached
<1> QED BY <1>2, <1>3, <1>4, <1>5, <1>6, <1>7 DEF done, given, n

\* An answer: everybody who waits for the name has it, once.
LEMMA AnswerDispatched ==
    ASSUME MobileInv, NEW name, Mobile!DispatchMessage(name), UNCHANGED inbox
    PROVE  MobileInv'
<1>1. CASE name \notin DOMAIN mobileStore
  <2>1. UNCHANGED <<requests, mobileStore>>
    BY <1>1 DEF Mobile!DispatchMessage
  <2> QED BY <2>1 DEF MobileInv, ReqInv, InboxInv, StoreInv, ListedInv, Distinct, Here, Waiters
<1>2. CASE name \in DOMAIN mobileStore
  <2> DEFINE q == mobileStore[name].addresses
             times(r) == Mobile!Times(q, r)
             In(r) == \E k \in 1 .. Len(q) : q[k] = r
             e(response) == [addresses |-> <<>>, response |-> response]
             new(r) == [requests[r] EXCEPT !.st = "answered", !.answers = @ + times(r)]
  <2>1. PICK response \in {"fresh", "expired"} : mobileStore' = Mobile!WithEntry(name, e(response))
    BY <1>2 DEF Mobile!DispatchMessage, Mobile!AddressesCleared
  <2>2. requests' = [r \in DOMAIN requests |->
            IF times(r) = 0 THEN requests[r] ELSE new(r)]
    BY <1>2 DEF Mobile!DispatchMessage
  <2>3. /\ Distinct(q) /\ Waiters(name, q) /\ name \in Queried
    BY <1>2 DEF MobileInv, StoreInv
  <2>4. /\ requests \in Seq(Request) /\ DOMAIN requests = 1 .. Len(requests) /\ Len(requests) \in Nat
        /\ Len(requests) <= NRequests
        /\ \A x \in DOMAIN requests : requests[x].answers = IF requests[x].st = "answered" THEN 1 ELSE 0
    BY DEF MobileInv, ReqInv
  <2>5. \A r : times(r) = IF In(r) THEN 1 ELSE 0
    BY <2>3, TimesOnce
  <2>6. \A r \in DOMAIN requests : In(r) => requests[r].st = "waiting" /\ requests[r].name = name
    BY <2>3 DEF Waiters
  <2>6a. \A r \in DOMAIN requests : requests[r].st = "waiting" /\ requests[r].name = name => In(r)
    BY DEF MobileInv, ListedInv
  <2>6b. e(response) \in Mobile!Entry /\ e(response).addresses = <<>>
    BY DEF Mobile!Entry
  <2>7. /\ DOMAIN mobileStore' = DOMAIN mobileStore /\ mobileStore'[name] = e(response)
        /\ \A x \in DOMAIN mobileStore : x # name => mobileStore'[x] = mobileStore[x]
        /\ mobileStore' = [x \in DOMAIN mobileStore' |-> mobileStore'[x]]
    BY <1>2, <2>1 DEF Mobile!WithEntry
  <2> HIDE DEF q, times, In, e, new
  <2>8. ASSUME NEW r \in DOMAIN requests, In(r)
        PROVE  /\ requests'[r] \in Request /\ requests'[r].name = name
               /\ requests'[r].st = "answered" /\ requests'[r].answers = 1
    <3>0. times(r) = 1
      BY <2>5, <2>8
    <3>1. requests'[r] = new(r)
      BY <2>2, <3>0
    <3>2. requests[r] \in Request /\ requests[r].answers = 0 /\ requests[r].name = name
      BY <2>4, <2>6, <2>8
    <3>3. requests'[r] = [requests[r] EXCEPT !.st = "answered", !.answers = 1]
      BY <3>0, <3>1, <3>2 DEF Request, new
    <3> QED BY <3>2, <3>3 DEF Request
  <2>9. ASSUME NEW r \in DOMAIN requests, ~In(r)
        PROVE  requests'[r] = requests[r] /\ requests[r] \in Request
    <3>1. times(r) = 0
      BY <2>5, <2>9
    <3> QED BY <2>2, <2>4, <3>1
  <2>10. DOMAIN requests' = DOMAIN requests
    BY <2>2
  <2>11. requests' \in Seq(Request) /\ Len(requests') = Len(requests)
    <3>1. \A r \in 1 .. Len(requests) : requests'[r] \in Request
      BY <2>4, <2>8, <2>9
    <3>2. requests' = [r \in 1 .. Len(requests) |-> requests'[r]]
      BY <2>2, <2>4
    <3>3. requests' \in [1 .. Len(requests) -> Request]
      BY <3>1, <3>2
    <3> QED BY <2>4, <3>3, IsASeq, LenProperties
  <2>12. ReqInv'
    <3>1. \A x \in DOMAIN requests' : requests'[x].answers = IF requests'[x].st = "answered" THEN 1 ELSE 0
      BY <2>4, <2>8, <2>9, <2>10
    <3> QED BY <2>4, <2>11, <3>1 DEF ReqInv
  <2>13. InboxInv'
    <3>1. \A x \in DOMAIN requests : requests[x].st = "here" => requests'[x] = requests[x]
      BY <2>6, <2>9
    <3>2. Here(inbox)'
      BY <2>10, <3>1 DEF MobileInv, InboxInv, Here
    <3> QED BY <3>2 DEF MobileInv, InboxInv, Distinct
  <2>14. StoreInv'
    <3> SUFFICES ASSUME NEW x \in DOMAIN mobileStore'
                 PROVE  /\ x \in Queried /\ mobileStore'[x] \in Mobile!Entry
                        /\ Distinct(mobileStore'[x].addresses) /\ Waiters(x, mobileStore[x].addresses)'
                        /\ mobileStore'[x].response # "none" => mobileStore'[x].addresses = <<>>
      BY <2>7, Zenon DEF StoreInv, Distinct
    <3>1. CASE x = name
      <4>1. mobileStore'[x].addresses = <<>> /\ mobileStore'[x] \in Mobile!Entry
        BY <2>6b, <2>7, <3>1
      <4>2. Distinct(mobileStore'[x].addresses) /\ Waiters(x, mobileStore[x].addresses)'
        BY <4>1 DEF Distinct, Waiters
      <4> QED BY <2>3, <3>1, <4>1, <4>2
    <3>2. CASE x # name
      <4> DEFINE p == mobileStore[x].addresses
      <4>1. x \in DOMAIN mobileStore /\ mobileStore'[x] = mobileStore[x] /\ mobileStore'[x].addresses = p
        BY <2>7, <3>2
      <4>2. Waiters(x, p) /\ Distinct(p)
        BY <4>1 DEF MobileInv, StoreInv
      <4> HIDE DEF p
      <4>3. \A k \in 1 .. Len(p) : p[k] \in DOMAIN requests' /\ requests'[p[k]].name = x /\ requests'[p[k]].st = "waiting"
        BY <2>6, <2>9, <2>10, <3>2, <4>2 DEF Waiters
      <4>4. Waiters(x, mobileStore[x].addresses)'
        BY <4>1, <4>3 DEF Waiters
      <4> QED BY <4>1, <4>2, <4>4 DEF MobileInv, StoreInv
    <3> QED BY <3>1, <3>2
  <2>15. ListedInv'
    <3> SUFFICES ASSUME NEW x \in DOMAIN requests', requests'[x].st = "waiting"
                 PROVE  /\ requests'[x].name \in DOMAIN mobileStore'
                        /\ \E k \in 1 .. Len(mobileStore'[requests'[x].name].addresses) :
                                mobileStore'[requests'[x].name].addresses[k] = x
      BY Zenon DEF ListedInv
    <3>1. ~In(x) /\ requests'[x] = requests[x] /\ x \in DOMAIN requests
      BY <2>8, <2>9, <2>10
    <3>2. requests[x].name # name
      BY <2>6a, <3>1
    <3>3. /\ requests[x].name \in DOMAIN mobileStore
          /\ \E k \in 1 .. Len(mobileStore[requests[x].name].addresses) : mobileStore[requests[x].name].addresses[k] = x
      BY <3>1 DEF MobileInv, ListedInv
    <3> QED BY <2>7, <3>1, <3>2, <3>3
  <2> QED BY <2>12, <2>13, <2>14, <2>15 DEF MobileInv
<1> QED BY <1>1, <1>2

LEMMA RequestAsked == ASSUME MobileInv, NEW name \in Queried, Mobile!Ask(name) PROVE MobileInv'
<1> DEFINE e == [name |-> name, st |-> "here", answers |-> 0]
           l == Len(requests)
<1>1. /\ requests \in Seq(Request) /\ DOMAIN requests = 1 .. l /\ l \in Nat
      /\ \A x \in DOMAIN requests : requests[x].answers = IF requests[x].st = "answered" THEN 1 ELSE 0
  BY DEF MobileInv, ReqInv
<1>2. /\ l < NRequests /\ requests' = Append(requests, e) /\ inbox' = Append(inbox, l + 1) /\ mobileStore' = mobileStore
  BY DEF Mobile!Ask
<1>3. e \in Request /\ e.st = "here" /\ e.answers = 0
  BY DEF Request
<1> HIDE DEF e, l
<1>4. /\ requests' \in Seq(Request) /\ Len(requests') = l + 1 /\ DOMAIN requests' = 1 .. l + 1
      /\ requests'[l + 1] = e /\ \A x \in DOMAIN requests : requests'[x] = requests[x]
  BY <1>1, <1>2, <1>3, AppendProperties DEF l
<1>5. NRequests \in Nat
  BY BoundsAssumption
<1>6. ReqInv'
  <2>1. \A x \in DOMAIN requests' : requests'[x].answers = IF requests'[x].st = "answered" THEN 1 ELSE 0
    BY <1>1, <1>3, <1>4
  <2> QED BY <1>1, <1>2, <1>4, <1>5, <2>1 DEF ReqInv
<1>7. inbox \in Seq(Nat) /\ Distinct(inbox) /\ Here(inbox) /\ Len(inbox) \in Nat
  BY DEF MobileInv, InboxInv
<1>8. /\ inbox' \in Seq(Nat) /\ Len(inbox') = Len(inbox) + 1 /\ inbox'[Len(inbox) + 1] = l + 1
      /\ \A k \in 1 .. Len(inbox) : inbox'[k] = inbox[k]
  BY <1>1, <1>2, <1>7, AppendProperties
<1>9. \A k \in 1 .. Len(inbox) : inbox[k] \in 1 .. l /\ requests[inbox[k]].st = "here"
  BY <1>1, <1>7 DEF Here
<1>10. Here(inbox)'
  <2> SUFFICES ASSUME NEW k \in 1 .. Len(inbox) + 1
               PROVE  inbox'[k] \in DOMAIN requests' /\ requests'[inbox'[k]].st = "here"
    BY <1>8 DEF Here
  <2>1. CASE k = Len(inbox) + 1
    BY <1>1, <1>3, <1>4, <1>8, <2>1
  <2>2. CASE k \in 1 .. Len(inbox)
    BY SMTT(60), <1>1, <1>4, <1>8, <1>9, <2>2
  <2> QED BY <1>7, <2>1, <2>2
<1>11. Distinct(inbox)'
  <2> SUFFICES ASSUME NEW j \in 1 .. Len(inbox) + 1, NEW k \in 1 .. Len(inbox) + 1, inbox'[j] = inbox'[k]
               PROVE  j = k
    BY <1>8 DEF Distinct
  <2>1. CASE j \in 1 .. Len(inbox) /\ k \in 1 .. Len(inbox)
    BY <1>7, <1>8, <2>1 DEF Distinct
  <2>2. CASE j = Len(inbox) + 1 /\ k \in 1 .. Len(inbox)
    BY <1>1, <1>8, <1>9, <2>2
  <2>3. CASE k = Len(inbox) + 1 /\ j \in 1 .. Len(inbox)
    BY <1>1, <1>8, <1>9, <2>3
  <2> QED BY <1>7, <2>1, <2>2, <2>3
<1>12. StoreInv'
  <2>1. ASSUME NEW x \in DOMAIN mobileStore PROVE Waiters(x, mobileStore[x].addresses)'
    <3> DEFINE p == mobileStore[x].addresses
    <3>1. Waiters(x, p) /\ mobileStore'[x].addresses = p
      BY <1>2 DEF MobileInv, StoreInv
    <3> HIDE DEF p
    <3>2. \A k \in 1 .. Len(p) : p[k] \in DOMAIN requests' /\ requests'[p[k]].name = x /\ requests'[p[k]].st = "waiting"
      BY <1>1, <1>4, <3>1 DEF Waiters
    <3> QED BY <3>1, <3>2 DEF Waiters
  <2> QED BY <1>2, <2>1 DEF MobileInv, StoreInv, Distinct
<1>13. ListedInv'
  <2>1. \A x \in DOMAIN requests' : requests'[x].st = "waiting" => x \in DOMAIN requests /\ requests'[x] = requests[x]
    BY <1>1, <1>3, <1>4
  <2> QED BY SMTT(60), <1>2, <2>1 DEF MobileInv, ListedInv
<1> QED BY <1>6, <1>8, <1>10, <1>11, <1>12, <1>13 DEF MobileInv, InboxInv

LEMMA AnswerExpires == ASSUME MobileInv, NEW name \in Queried, Mobile!Expires(name) PROVE MobileInv'
<1>1. /\ name \in DOMAIN mobileStore /\ mobileStore[name].response = "fresh"
      /\ mobileStore' = [mobileStore EXCEPT ![name].response = "expired"]
      /\ UNCHANGED <<requests, inbox>>
  BY DEF Mobile!Expires, Mobile!Responses
<1> DEFINE e == [mobileStore[name] EXCEPT !.response = "expired"]
<1>2. mobileStore[name] \in Mobile!Entry /\ mobileStore[name].addresses = <<>>
  BY <1>1 DEF MobileInv, StoreInv
<1>3. e \in Mobile!Entry /\ e.addresses = mobileStore[name].addresses
  BY <1>2 DEF Mobile!Entry
<1>4. mobileStore' = [mobileStore EXCEPT ![name] = e]
  BY <1>1
<1> HIDE DEF e
<1>5. /\ DOMAIN mobileStore' = DOMAIN mobileStore /\ mobileStore'[name] = e
      /\ \A x \in DOMAIN mobileStore : x # name => mobileStore'[x] = mobileStore[x]
      /\ mobileStore' = [x \in DOMAIN mobileStore' |-> mobileStore'[x]]
  BY <1>1, <1>4 DEF MobileInv, StoreInv
<1>6. \A x \in DOMAIN mobileStore : mobileStore'[x].addresses = mobileStore[x].addresses
  BY <1>3, <1>5
<1>7. StoreInv'
  <2> SUFFICES ASSUME NEW x \in DOMAIN mobileStore'
               PROVE  /\ x \in Queried /\ mobileStore'[x] \in Mobile!Entry
                      /\ Distinct(mobileStore'[x].addresses) /\ Waiters(x, mobileStore[x].addresses)'
                      /\ mobileStore'[x].response # "none" => mobileStore'[x].addresses = <<>>
    BY <1>5, Zenon DEF StoreInv, Distinct
  <2>1. /\ x \in Queried /\ Distinct(mobileStore[x].addresses) /\ Waiters(x, mobileStore[x].addresses)
        /\ mobileStore[x] \in Mobile!Entry
        /\ mobileStore[x].response # "none" => mobileStore[x].addresses = <<>>
    BY <1>5 DEF MobileInv, StoreInv
  <2>2. Waiters(x, mobileStore[x].addresses)'
    BY <1>1, <1>5, <1>6, <2>1 DEF Waiters
  <2> QED BY <1>2, <1>3, <1>5, <1>6, <2>1, <2>2
<1>8. ListedInv'
  BY <1>1, <1>5, <1>6 DEF MobileInv, ListedInv
<1> QED BY <1>1, <1>7, <1>8 DEF MobileInv, ReqInv, InboxInv, Distinct, Here

\* The mobile app's name server (do_request, dispatch_message, add_request): for any
\* names and lists, a request is answered once, or waits in the entry of its name, or
\* could not be passed on, and nobody waits beside an answer.
THEOREM MobileAnswersOnce == MCSpec => []EachAnsweredOnce
<1>1. MCInit => MobileInv
  <2> SUFFICES ASSUME MCInit PROVE MobileInv
    OBVIOUS
  <2>1. requests = <<>> /\ inbox = <<>> /\ mobileStore = <<>>
    BY DEF MCInit, Mobile!MInit
  <2> QED BY <2>1, BoundsAssumption
          DEF MobileInv, ReqInv, InboxInv, StoreInv, ListedInv, Distinct, Here, Waiters
<1>2. MobileInv /\ [MCNext]_all => MobileInv'
  <2> SUFFICES ASSUME MobileInv, [MCNext]_all PROVE MobileInv'
    OBVIOUS
  <2>1. CASE UNCHANGED <<requests, inbox, mobileStore>>
    BY <2>1 DEF MobileInv, ReqInv, InboxInv, StoreInv, ListedInv, Distinct, Here, Waiters
  <2>2. CASE Mobile!MNext
    <3>1. CASE Mobile!DoRequest
      BY <3>1, RequestDone
    <3>2. CASE Mobile!DoTrustedResponse
      BY <3>2, AnswerDispatched DEF Mobile!DoTrustedResponse
    <3>3. CASE Mobile!TrustedEnds
      BY <2>1, <3>3 DEF Mobile!TrustedEnds
    <3>4. ASSUME NEW name \in Queried, Mobile!Ask(name) PROVE MobileInv'
      BY <3>4, RequestAsked
    <3>5. ASSUME NEW name \in Queried, Mobile!DoUntrustedResponse(name) PROVE MobileInv'
      BY <3>5, AnswerDispatched DEF Mobile!DoUntrustedResponse
    <3>6. ASSUME NEW name \in Queried, Mobile!Expires(name) PROVE MobileInv'
      BY <3>6, AnswerExpires
    <3>7. ASSUME NEW name \in Queried, Mobile!Misdelivers(name) PROVE MobileInv'
      BY <2>1, <3>7 DEF Mobile!Misdelivers
    <3> QED BY <2>2, <3>1, <3>2, <3>3, <3>4, <3>5, <3>6, <3>7 DEF Mobile!MNext
  <2> QED BY <2>1, <2>2 DEF MCNext, ServerTurn, all, mobileVars
<1>3. MobileInv => EachAnsweredOnce
  BY MobileInvGives DEF EachAnsweredOnce
<1> QED BY <1>1, <1>2, <1>3, PTL DEF MCSpec
-----------------------------------------------------------------------------
(* ListsAsWritten: DomainMap::contains *)

\* A suffix, by its elements.
LEMMA SuffixElements ==
    ASSUME NEW S, NEW s \in Seq(S), NEW t \in Seq(S)
    PROVE  Contains!IsSuffix(s, t) <=>
             Len(s) <= Len(t) /\ \A k \in 1 .. Len(s) : s[k] = t[Len(t) - Len(s) + k]
<1> DEFINE m == Len(s)
           n == Len(t)
           rs == [k \in 1 .. m |-> s[(m - k) + 1]]
           rt == [k \in 1 .. n |-> t[(n - k) + 1]]
<1>1. m \in Nat /\ n \in Nat /\ (\A k \in 1 .. m : s[k] \in S) /\ (\A k \in 1 .. n : t[k] \in S)
  BY LenProperties, ElementOfSeq
<1>2. Contains!IsSuffix(s, t) <=> Len(rs) <= Len(rt) /\ SubSeq(rs, 1, Len(rs)) = SubSeq(rt, 1, Len(rs))
  BY DEF Contains!IsSuffix, Contains!IsPrefix, Contains!Reverse
<1> HIDE DEF m, n
<1>3. rs \in Seq(S) /\ Len(rs) = m /\ rt \in Seq(S) /\ Len(rt) = n
  <2>1. rs \in [1 .. m -> S] /\ rt \in [1 .. n -> S]
    BY <1>1
  <2> QED BY <1>1, <2>1, IsASeq, LenProperties
<1>4. /\ \A k \in 1 .. m : rs[k] = s[(m - k) + 1]
      /\ \A k \in 1 .. n : rt[k] = t[(n - k) + 1]
  OBVIOUS
<1> HIDE DEF rs, rt
<1>5. ASSUME m <= n
      PROVE  /\ SubSeq(rs, 1, m) \in Seq(S) /\ Len(SubSeq(rs, 1, m)) = m /\ \A k \in 1 .. m : SubSeq(rs, 1, m)[k] = rs[k]
             /\ SubSeq(rt, 1, m) \in Seq(S) /\ Len(SubSeq(rt, 1, m)) = m /\ \A k \in 1 .. m : SubSeq(rt, 1, m)[k] = rt[k]
  BY <1>1, <1>3, <1>5, SubSeqProperties
<1>6. ASSUME m <= n
      PROVE  SubSeq(rs, 1, m) = SubSeq(rt, 1, m) <=> \A k \in 1 .. m : rs[k] = rt[k]
  BY <1>5, <1>6, SeqEqual
<1>7. ASSUME m <= n
      PROVE  (\A k \in 1 .. m : rs[k] = rt[k]) <=> (\A k \in 1 .. m : s[k] = t[n - m + k])
  <2>1. ASSUME \A k \in 1 .. m : rs[k] = rt[k], NEW k \in 1 .. m
        PROVE  s[k] = t[n - m + k]
    <3>1. (m - k) + 1 \in 1 .. m /\ (m - k) + 1 \in 1 .. n /\ (m - ((m - k) + 1)) + 1 = k /\ (n - ((m - k) + 1)) + 1 = n - m + k
      BY <1>1, <1>7
    <3> QED BY <1>4, <2>1, <3>1
  <2>2. ASSUME \A k \in 1 .. m : s[k] = t[n - m + k], NEW k \in 1 .. m
        PROVE  rs[k] = rt[k]
    <3>1. (m - k) + 1 \in 1 .. m /\ k \in 1 .. n /\ n - m + ((m - k) + 1) = (n - k) + 1
      BY <1>1, <1>7
    <3> QED BY <1>4, <2>2, <3>1
  <2> QED BY <2>1, <2>2
<1>8. Contains!IsSuffix(s, t) <=> m <= n /\ \A k \in 1 .. m : s[k] = t[n - m + k]
  BY <1>2, <1>3, <1>6, <1>7
<1> QED BY <1>8 DEF m, n

LEMMA PlainNames ==
    ASSUME NEW d \in Contains!Plain
    PROVE  d \in Seq(Labels) /\ Len(d) \in Nat /\ Len(d) >= 1
<1>1. PICK m \in 0 .. MaxLabels : d \in [1 .. m -> Labels] /\ d # <<>>
  BY DEF Contains!Plain, Contains!SeqOf
<1>2. m \in Nat /\ d \in Seq(Labels) /\ Len(d) = m
  BY <1>1, IsASeq, LenProperties
<1>3. m # 0
  BY <1>1, <1>2
<1> QED BY <1>2, <1>3

\* What end_index is: the labels without the empty one at the end.
LEMMA EndOfName ==
    ASSUME items \in Contains!Asked
    PROVE  /\ items \in Seq(Labels \cup {Empty}) /\ Len(items) \in Nat
           /\ Contains!EndIndex \in 1 .. Len(items)
           /\ IF items[Len(items)] = Empty THEN Contains!EndIndex = Len(items) - 1 ELSE Contains!EndIndex = Len(items)
<1>1. CASE items \in Contains!Plain
  <2>1. items \in Seq(Labels) /\ Len(items) \in Nat /\ Len(items) >= 1
    BY <1>1, PlainNames
  <2>2. items[Len(items)] \in Labels
    BY <2>1, ElementOfSeq
  <2>3. items \in Seq(Labels \cup {Empty})
    BY <2>1, SeqMonotonic
  <2>4. items[Len(items)] # Empty
    BY <2>2, BoundsAssumption
  <2> QED BY <2>1, <2>3, <2>4 DEF Contains!EndIndex, Contains!Last
<1>2. CASE \E n \in Contains!Plain : items = Append(n, Empty)
  <2>1. PICK n \in Contains!Plain : items = Append(n, Empty)
    BY <1>2
  <2>2. n \in Seq(Labels) /\ Len(n) \in Nat /\ Len(n) >= 1
    BY PlainNames
  <2>3. n \in Seq(Labels \cup {Empty})
    BY <2>2, SeqMonotonic
  <2>4. items \in Seq(Labels \cup {Empty}) /\ Len(items) = Len(n) + 1 /\ items[Len(items)] = Empty
    BY <2>1, <2>2, <2>3, AppendProperties
  <2> QED BY <2>2, <2>4 DEF Contains!EndIndex, Contains!Last
<1>3. CASE items = <<Empty, Empty>>
  <2>1. items \in Seq(Labels \cup {Empty}) /\ Len(items) = 2 /\ items[2] = Empty
    BY <1>3
  <2> QED BY <2>1 DEF Contains!EndIndex, Contains!Last
<1> QED BY <1>1, <1>2, <1>3 DEF Contains!Asked

\* The domains of two labels or more that a name ends in are those that the loop
\* looks for.
LEMMA SuffixesLookedFor ==
    ASSUME items \in Contains!Asked, NEW d \in Seq(Labels)
    PROVE  Len(d) >= 2 /\ (Contains!IsSuffix(d, items) \/ Contains!IsSuffix(Append(d, Empty), items))
             <=> \E j \in 0 .. Contains!EndIndex - 2 : SubSeq(items, j + 1, Contains!EndIndex) = d
<1> DEFINE e == Contains!EndIndex
           n == Len(items)
           m == Len(d)
           S == Labels \cup {Empty}
<1>1. /\ items \in Seq(S) /\ n \in Nat /\ e \in 1 .. n /\ m \in Nat
      /\ IF items[n] = Empty THEN e = n - 1 ELSE e = n
  BY EndOfName
<1>2. d \in Seq(S)
  BY SeqMonotonic
<1> HIDE DEF e, n, m
<1>3. /\ Append(d, Empty) \in Seq(S) /\ Len(Append(d, Empty)) = m + 1 /\ Append(d, Empty)[m + 1] = Empty
      /\ \A k \in 1 .. m : Append(d, Empty)[k] = d[k]
  BY <1>2, AppendProperties DEF m
<1>4. \A k \in 1 .. m : d[k] # Empty
  <2>1. \A k \in 1 .. m : d[k] \in Labels
    BY ElementOfSeq DEF m
  <2> QED BY <2>1, BoundsAssumption
<1>5. Contains!IsSuffix(d, items) <=> m <= n /\ \A k \in 1 .. m : d[k] = items[n - m + k]
  BY <1>1, <1>2, SuffixElements DEF m, n
<1>6. Contains!IsSuffix(Append(d, Empty), items) <=>
        m + 1 <= n /\ \A k \in 1 .. m + 1 : Append(d, Empty)[k] = items[n - (m + 1) + k]
  <2> DEFINE a == Append(d, Empty)
  <2>1. a \in Seq(S) /\ Len(a) = m + 1
    BY <1>3
  <2> HIDE DEF a, S
  <2>2. Contains!IsSuffix(a, items) <=> Len(a) <= n /\ \A k \in 1 .. Len(a) : a[k] = items[n - Len(a) + k]
    BY <1>1, <2>1, SuffixElements DEF n
  <2> QED BY <2>1, <2>2 DEF a
<1> DEFINE Fits == m <= e /\ \A k \in 1 .. m : d[k] = items[e - m + k]
<1>7. ASSUME m >= 2
      PROVE  (Contains!IsSuffix(d, items) \/ Contains!IsSuffix(Append(d, Empty), items)) <=> Fits
  <2>1. CASE items[n] = Empty
    <3>1. e = n - 1
      BY <1>1, <2>1
    <3>2. ~Contains!IsSuffix(d, items)
      <4>1. m \in 1 .. m /\ n - m + m = n
        BY <1>1, <1>7
      <4> QED BY <1>4, <1>5, <2>1, <4>1
    <3>3. ASSUME Contains!IsSuffix(Append(d, Empty), items) PROVE Fits
      <4>1. m <= e
        BY <1>1, <1>6, <3>1, <3>3
      <4>2. ASSUME NEW k \in 1 .. m PROVE d[k] = items[e - m + k]
        <5>1. k \in 1 .. m + 1 /\ n - (m + 1) + k = e - m + k
          BY <1>1, <3>1
        <5> QED BY <1>3, <1>6, <3>3, <5>1
      <4> QED BY <4>1, <4>2
    <3>4. ASSUME Fits PROVE Contains!IsSuffix(Append(d, Empty), items)
      <4>1. m + 1 <= n
        BY <1>1, <3>1, <3>4
      <4>2. ASSUME NEW k \in 1 .. m + 1 PROVE Append(d, Empty)[k] = items[n - (m + 1) + k]
        <5>1. CASE k \in 1 .. m
          <6>1. n - (m + 1) + k = e - m + k
            BY <1>1, <3>1
          <6> QED BY <1>3, <3>4, <5>1, <6>1
        <5>2. CASE k = m + 1
          <6>1. n - (m + 1) + k = n
            BY <1>1, <5>2
          <6> QED BY <1>3, <2>1, <5>2, <6>1
        <5>3. k \in 1 .. m \/ k = m + 1
          BY <1>1
        <5> QED BY <5>1, <5>2, <5>3
      <4> QED BY <1>6, <4>1, <4>2
    <3> HIDE DEF Fits
    <3> QED BY <3>2, <3>3, <3>4
  <2>2. CASE items[n] # Empty
    <3>1. e = n
      BY <1>1, <2>2
    <3>2. ~Contains!IsSuffix(Append(d, Empty), items)
      <4>1. m + 1 \in 1 .. m + 1 /\ n - (m + 1) + (m + 1) = n
        BY <1>1
      <4> QED BY <1>3, <1>6, <2>2, <4>1
    <3> QED BY <1>5, <3>1, <3>2
  <2> QED BY <2>1, <2>2
<1>8. ASSUME NEW j \in 0 .. e - 2
      PROVE  /\ SubSeq(items, j + 1, e) \in Seq(S) /\ Len(SubSeq(items, j + 1, e)) = e - j
             /\ \A k \in 1 .. e - j : SubSeq(items, j + 1, e)[k] = items[j + k]
  <2>1. j + 1 \in 1 .. n + 1 /\ e \in 0 .. n /\ j + 1 <= e + 1 /\ e - (j + 1) + 1 = e - j
    BY <1>1
  <2>2. \A k \in Int : j + 1 + k - 1 = j + k
    BY <1>1
  <2>3. SubSeq(items, j + 1, e) = [k \in 1 .. e - j |-> items[j + k]] /\ e - j \in Nat
    BY <1>1, <2>1, <2>2 DEF n
  <2>4. \A k \in 1 .. e - j : items[j + k] \in S
    <3>1. \A k \in 1 .. e - j : j + k \in 1 .. n
      BY <1>1
    <3> QED BY <1>1, <3>1, ElementOfSeq DEF n
  <2>5. SubSeq(items, j + 1, e) \in [1 .. e - j -> S]
    BY <2>3, <2>4
  <2>6. SubSeq(items, j + 1, e) \in Seq(S) /\ Len(SubSeq(items, j + 1, e)) = e - j
    <3> DEFINE t == SubSeq(items, j + 1, e)
               l == e - j
    <3>1. t \in [1 .. l -> S] /\ l \in Nat
      BY <2>3, <2>5
    <3> HIDE DEF t, l, S
    <3>2. t \in Seq(S) /\ DOMAIN t = 1 .. l
      BY <3>1, IsASeq
    <3>3. Len(t) = l
      BY <3>1, <3>2, LenProperties
    <3> QED BY <3>2, <3>3 DEF t, l
  <2> QED BY <2>3, <2>6
<1>9. ASSUME m >= 2, Fits PROVE \E j \in 0 .. e - 2 : SubSeq(items, j + 1, e) = d
  <2> DEFINE j == e - m
  <2>1. j \in 0 .. e - 2 /\ e - j = m
    BY <1>1, <1>9
  <2> HIDE DEF j
  <2>2. /\ SubSeq(items, j + 1, e) \in Seq(S) /\ Len(SubSeq(items, j + 1, e)) = m
        /\ \A k \in 1 .. m : SubSeq(items, j + 1, e)[k] = items[j + k]
    BY <1>8, <2>1
  <2>3. \A k \in 1 .. m : SubSeq(items, j + 1, e)[k] = d[k]
    BY <1>9, <2>2 DEF j
  <2>4. SubSeq(items, j + 1, e) = d
    BY <1>2, <2>2, <2>3, SeqEqual DEF m
  <2> QED BY <2>1, <2>4
<1>10. ASSUME NEW j \in 0 .. e - 2, SubSeq(items, j + 1, e) = d PROVE m >= 2 /\ Fits
  <2>1. m = e - j /\ j = e - m /\ m >= 2
    BY <1>1, <1>8, <1>10 DEF m
  <2>2. \A k \in 1 .. m : d[k] = items[e - m + k]
    BY <1>8, <1>10, <2>1
  <2> QED BY <1>1, <2>1, <2>2
<1> HIDE DEF Fits
<1>11. m >= 2 /\ (Contains!IsSuffix(d, items) \/ Contains!IsSuffix(Append(d, Empty), items))
         <=> \E j \in 0 .. e - 2 : SubSeq(items, j + 1, e) = d
  BY <1>7, <1>9, <1>10
<1> QED BY <1>11 DEF m, e

\* The loop has found nothing before its index.
ContainsInv ==
    /\ domains \subseteq Contains!Plain /\ items \in Contains!Asked
    /\ i \in 0 .. Contains!EndIndex - 1 /\ result \in {"none", "true", "false"}
    /\ \A j \in 0 .. i - 1 : SubSeq(items, j + 1, Contains!EndIndex) \notin domains
    /\ result = "true" => i < Contains!EndIndex - 1 /\ Contains!Suffix \in domains
    /\ result = "false" => i >= Contains!EndIndex - 1

LEMMA ContainsStarts == ASSUME Contains!Init PROVE ContainsInv
<1>1. PICK d \in [1 .. MaxDomains -> Contains!Plain] : domains = Contains!Range(d)
  BY DEF Contains!Init
<1>2. domains \subseteq Contains!Plain
  BY <1>1 DEF Contains!Range
<1>3. items \in Contains!Asked /\ i = 0 /\ result = "none"
  BY DEF Contains!Init
<1>4. Contains!EndIndex \in Nat /\ Contains!EndIndex >= 1
  BY <1>3, EndOfName
<1> QED BY <1>2, <1>3, <1>4 DEF ContainsInv

LEMMA ContainsStep == ASSUME ContainsInv, Contains!Next PROVE ContainsInv'
<1>1. Contains!EndIndex \in Nat /\ Contains!EndIndex >= 1 /\ i \in Nat
  BY EndOfName DEF ContainsInv
<1>2. /\ domains' = domains /\ items' = items
      /\ Contains!EndIndex' = Contains!EndIndex
  BY DEF Contains!Next, Contains!Found, Contains!Continue, Contains!NotFound, Contains!EndIndex, Contains!Last
<1> DEFINE e == Contains!EndIndex
<1> HIDE DEF e
<1>3. CASE Contains!Found
  BY <1>1, <1>2, <1>3 DEF Contains!Found, Contains!Suffix, ContainsInv
<1>4. CASE Contains!Continue
  <2>1. i' = i + 1 /\ result' = result /\ result = "none" /\ i < Contains!EndIndex - 1
        /\ SubSeq(items, i + 1, Contains!EndIndex) \notin domains
    BY <1>4 DEF Contains!Continue, Contains!Suffix
  <2>2. \A j \in 0 .. i' - 1 : j \in 0 .. i - 1 \/ j = i
    BY <1>1, <2>1
  <2>3. \A j \in 0 .. i' - 1 : SubSeq(items, j + 1, Contains!EndIndex) \notin domains
    BY <2>1, <2>2 DEF ContainsInv
  <2> QED BY <1>1, <1>2, <2>1, <2>3 DEF ContainsInv
<1>5. CASE Contains!NotFound
  BY <1>1, <1>2, <1>5 DEF Contains!NotFound, ContainsInv
<1> QED BY <1>3, <1>4, <1>5 DEF Contains!Next

LEMMA ContainsGives == ASSUME ContainsInv PROVE Contains!ContainsSubdomains
<1> DEFINE e == Contains!EndIndex
           Looked(d) == \E j \in 0 .. e - 2 : SubSeq(items, j + 1, e) = d
           Ends(d) == Len(d) >= 2 /\ (Contains!IsSuffix(d, items) \/ Contains!IsSuffix(Append(d, Empty), items))
<1>1. e \in Nat /\ e >= 1 /\ i \in Nat /\ items \in Contains!Asked
  BY EndOfName DEF ContainsInv
<1>2. Contains!TypeOK
  BY <1>1 DEF ContainsInv, Contains!TypeOK
<1>3. \A d \in domains : Ends(d) <=> Looked(d)
  <2> SUFFICES ASSUME NEW d \in domains PROVE Ends(d) <=> Looked(d)
    OBVIOUS
  <2>1. d \in Seq(Labels)
    BY PlainNames DEF ContainsInv
  <2> QED BY <1>1, <2>1, SuffixesLookedFor
<1> HIDE DEF e
<1>4. ASSUME result = "true" PROVE \E d \in domains : Looked(d)
  <2>1. i \in 0 .. e - 2 /\ SubSeq(items, i + 1, e) \in domains
    BY <1>1, <1>4 DEF ContainsInv, Contains!Suffix, e
  <2> QED BY <2>1
<1>5. ASSUME result = "false", NEW d \in domains PROVE ~Looked(d)
  <2>1. \A j \in 0 .. e - 2 : j \in 0 .. i - 1
    BY <1>1, <1>5 DEF ContainsInv, e
  <2> QED BY <2>1 DEF ContainsInv, e
<1> HIDE DEF Looked
<1>6. result # "none" => (result = "true" <=> \E d \in domains : Ends(d))
  BY <1>3, <1>4, <1>5 DEF ContainsInv
<1> QED BY <1>2, <1>6 DEF Contains!ContainsSubdomains
-----------------------------------------------------------------------------
(* ListsAsWritten: the parser of the hosts file *)

\* A part of a sequence, by its elements.
LEMMA PartElements ==
    ASSUME NEW S, NEW t \in Seq(S), NEW a \in 1 .. Len(t) + 1, NEW b \in 0 .. Len(t), a <= b + 1
    PROVE  /\ SubSeq(t, a, b) \in Seq(S) /\ Len(SubSeq(t, a, b)) = b - a + 1
           /\ \A k \in 1 .. b - a + 1 : SubSeq(t, a, b)[k] = t[a + k - 1] /\ t[a + k - 1] \in S
<1> DEFINE l == b - a + 1
           p == SubSeq(t, a, b)
<1>1. Len(t) \in Nat /\ l \in Nat
  BY LenProperties
<1>2. p = [k \in 1 .. l |-> t[a + k - 1]]
  BY <1>1
<1>3. \A k \in 1 .. l : t[a + k - 1] \in S
  <2>1. \A k \in 1 .. l : a + k - 1 \in 1 .. Len(t)
    BY <1>1
  <2> QED BY <2>1, ElementOfSeq
<1> HIDE DEF p, l
<1>4. p \in [1 .. l -> S]
  BY <1>2, <1>3
<1>5. p \in Seq(S) /\ DOMAIN p = 1 .. l
  BY <1>1, <1>4, IsASeq
<1>6. Len(p) = l
  BY <1>1, <1>5, LenProperties
<1> QED BY <1>2, <1>3, <1>5, <1>6 DEF p, l

LEMMA RestElements ==
    ASSUME NEW S, NEW t \in Seq(S), NEW n \in 0 .. Len(t)
    PROVE  /\ SubSeq(t, n + 1, Len(t)) \in Seq(S) /\ Len(SubSeq(t, n + 1, Len(t))) = Len(t) - n
           /\ \A k \in 1 .. Len(t) - n : SubSeq(t, n + 1, Len(t))[k] = t[n + k]
<1> DEFINE l == Len(t)
           a == n + 1
           p == SubSeq(t, a, l)
<1>1. l \in Nat /\ a \in 1 .. l + 1 /\ l \in 0 .. l /\ a <= l + 1 /\ l - a + 1 = l - n
  BY LenProperties
<1>2. \A k \in Nat : a + k - 1 = n + k
  BY <1>1
<1> HIDE DEF a
<1>3. p \in Seq(S) /\ Len(p) = l - a + 1 /\ \A k \in 1 .. l - a + 1 : p[k] = t[a + k - 1]
  BY <1>1, PartElements
<1> HIDE DEF p, l
<1>4. ASSUME NEW k \in 1 .. l - n PROVE p[k] = t[n + k]
  <2>1. k \in 1 .. l - a + 1
    BY <1>1
  <2>2. p[k] = t[a + k - 1]
    BY <1>3, <2>1
  <2>3. a + k - 1 = n + k
    BY <1>2
  <2> QED BY <2>2, <2>3
<1>5. p \in Seq(S) /\ Len(p) = l - n
  BY <1>1, <1>3
<1> QED BY <1>4, <1>5 DEF p, l, a

\* One element more.
LEMMA PartGrows ==
    ASSUME NEW S, NEW t \in Seq(S), NEW a \in 1 .. Len(t), NEW b \in 0 .. Len(t) - 1, a <= b + 1
    PROVE  Append(SubSeq(t, a, b), t[b + 1]) = SubSeq(t, a, b + 1)
<1> DEFINE p == SubSeq(t, a, b)
           q == SubSeq(t, a, b + 1)
           l == b - a + 1
<1>1. Len(t) \in Nat /\ t[b + 1] \in S /\ l \in Nat /\ a \in Nat
  BY LenProperties, ElementOfSeq
<1>2. p \in Seq(S) /\ Len(p) = l /\ \A k \in 1 .. l : p[k] = t[a + k - 1]
  BY <1>1, PartElements
<1>3. q \in Seq(S) /\ Len(q) = l + 1 /\ \A k \in 1 .. l + 1 : q[k] = t[a + k - 1]
  <2>1. a \in 1 .. Len(t) + 1 /\ b + 1 \in 0 .. Len(t) /\ a <= (b + 1) + 1 /\ (b + 1) - a + 1 = l + 1
    BY <1>1
  <2> QED BY <2>1, PartElements
<1>4. a + (l + 1) - 1 = b + 1
  BY <1>1
<1> HIDE DEF p, q, l
<1>5. /\ Append(p, t[b + 1]) \in Seq(S) /\ Len(Append(p, t[b + 1])) = l + 1
      /\ Append(p, t[b + 1])[l + 1] = t[b + 1] /\ \A k \in 1 .. l : Append(p, t[b + 1])[k] = p[k]
  BY <1>1, <1>2, AppendProperties
<1>6. \A k \in 1 .. l + 1 : Append(p, t[b + 1])[k] = q[k]
  <2> SUFFICES ASSUME NEW k \in 1 .. l + 1 PROVE Append(p, t[b + 1])[k] = q[k]
    OBVIOUS
  <2>1. k \in 1 .. l \/ k = l + 1
    BY <1>1
  <2> QED BY <1>2, <1>3, <1>4, <1>5, <2>1
<1>7. Append(p, t[b + 1]) = q
  BY <1>3, <1>5, <1>6, SeqEqual
<1> QED BY <1>7 DEF p, q

\* There is at most one first word.
LEMMA WordUnique ==
    ASSUME NEW t, Len(t) \in Nat, NEW n \in Nat, NEW v \in Hosts!Word(t, n), NEW w \in Hosts!Word(t, n)
    PROVE  v = w
<1>1. /\ v = <<v[1], v[2]>> /\ v[1] \in n .. Len(t) /\ v[2] \in n .. Len(t) /\ v[1] <= v[2]
      /\ (\A k \in n .. v[2] : t[k] = Ws <=> k < v[1]) /\ (v[2] < Len(t) => t[v[2] + 1] = Ws)
  BY DEF Hosts!Word
<1>2. /\ w = <<w[1], w[2]>> /\ w[1] \in n .. Len(t) /\ w[2] \in n .. Len(t) /\ w[1] <= w[2]
      /\ (\A k \in n .. w[2] : t[k] = Ws <=> k < w[1]) /\ (w[2] < Len(t) => t[w[2] + 1] = Ws)
  BY DEF Hosts!Word
<1> DEFINE a == v[1]
           b == v[2]
           c == w[1]
           d == w[2]
<1> HIDE DEF a, b, c, d
<1>3. a = c
  <2>1. ~(a < c)
    <3>1. a < c => a \in n .. d /\ a \in n .. b
      BY <1>1, <1>2 DEF a, b, c, d
    <3> QED BY <1>1, <1>2, <3>1 DEF a, b, c, d
  <2>2. ~(c < a)
    <3>1. c < a => c \in n .. d /\ c \in n .. b
      BY <1>1, <1>2 DEF a, b, c, d
    <3> QED BY <1>1, <1>2, <3>1 DEF a, b, c, d
  <2> QED BY <1>1, <1>2, <2>1, <2>2 DEF a, c
<1>4. b = d
  <2>1. ~(b < d)
    <3>1. b < d => b + 1 \in n .. d /\ b < Len(t) /\ ~(b + 1 < c)
      BY <1>1, <1>2, <1>3 DEF a, b, c, d
    <3> QED BY <1>1, <1>2, <3>1 DEF b, c, d
  <2>2. ~(d < b)
    <3>1. d < b => d + 1 \in n .. b /\ d < Len(t) /\ ~(d + 1 < a)
      BY <1>1, <1>2, <1>3 DEF a, b, c, d
    <3> QED BY <1>1, <1>2, <3>1 DEF a, b, d
  <2> QED BY <1>1, <1>2, <2>1, <2>2 DEF b, d
<1> QED BY <1>1, <1>2, <1>3, <1>4 DEF a, b, c, d

Blank(a, b) == \A k \in a .. b : whole[k] = Ws
Inked(a, b) == \A k \in a .. b : whole[k] # Ws

\* The first word of the line is whole[a .. b], no comment, and collected.
FirstWord(a, b) == <<a, b>> \in Hosts!Word(whole, 1) /\ ip = SubSeq(whole, a, b) /\ whole[a] # Hash
BothWords ==
    \E a, b, c, d \in 1 .. Len(whole) :
        FirstWord(a, b) /\ <<c, d>> \in Hosts!Word(whole, b + 1) /\ host = SubSeq(whole, c, d)

\* What has been collected when n characters have been read, in every state.
CollectedAt(n) ==
    /\ n \in 0 .. Len(whole) /\ line = SubSeq(whole, n + 1, Len(whole)) /\ state \in Hosts!States
    /\ state = "LineStart" => Blank(1, n) /\ ip = <<>> /\ host = <<>>
    /\ state = "IpStart" =>
        /\ host = <<>>
        /\ \E a \in 1 .. n : Blank(1, a - 1) /\ Inked(a, n) /\ whole[a] # Hash /\ ip = SubSeq(whole, a, n)
    /\ state = "IpEnd" =>
        host = <<>> /\ \E a, b \in 1 .. Len(whole) : FirstWord(a, b) /\ b < n /\ Blank(b + 1, n)
    /\ state = "HostStart" =>
        \E a, b \in 1 .. Len(whole), c \in 1 .. n :
            FirstWord(a, b) /\ b < c /\ Blank(b + 1, c - 1) /\ Inked(c, n) /\ host = SubSeq(whole, c, n)
    /\ state = "HostEnd" => BothWords
    /\ state = "Break" =>
        \/ BothWords
        \/ /\ ip = <<>> /\ host = <<>>
           /\ \E a \in 1 .. Len(whole) : Blank(1, a - 1) /\ whole[a] = Hash /\ whole[a] # Ws

HostsInv == whole \in Seq(Hosts!Chars) /\ \E n \in Nat : CollectedAt(n)

LEMMA HostsStarts == ASSUME Hosts!Init PROVE HostsInv
<1>1. PICK m \in 0 .. MaxLen : line \in [1 .. m -> Hosts!Chars]
  BY DEF Hosts!Init, Hosts!BoundedSeq, Hosts!SeqOf
<1>2. whole \in Seq(Hosts!Chars) /\ whole = line /\ Len(whole) \in Nat
  <2>1. line \in Seq(Hosts!Chars)
    BY <1>1, IsASeq
  <2> QED BY <2>1, LenProperties DEF Hosts!Init
<1>3. line = SubSeq(whole, 0 + 1, Len(whole))
  BY <1>2, SubSeqFull
<1>4. CollectedAt(0)
  BY <1>2, <1>3 DEF CollectedAt, Hosts!Init, Hosts!States, Blank
<1> QED BY <1>2, <1>4 DEF HostsInv

\* The parser reads the next character.
LEMMA ReadNext ==
    ASSUME whole \in Seq(Hosts!Chars), NEW n \in Nat, CollectedAt(n), NEW s, Hosts!Read(s)
    PROVE  /\ state = s /\ whole' = whole /\ n + 1 \in 1 .. Len(whole) /\ Len(whole) \in Nat
           /\ Hosts!Char = whole[n + 1] /\ line' = SubSeq(whole, (n + 1) + 1, Len(whole))
<1>1. Len(whole) \in Nat /\ n \in 0 .. Len(whole) /\ line = SubSeq(whole, n + 1, Len(whole))
  BY LenProperties DEF CollectedAt
<1>2. /\ line \in Seq(Hosts!Chars) /\ Len(line) = Len(whole) - n
      /\ \A k \in 1 .. Len(whole) - n : line[k] = whole[n + k]
  BY <1>1, RestElements
<1>3. line # <<>> /\ line' = Tail(line) /\ state = s /\ whole' = whole
  BY DEF Hosts!Read
<1>4. n < Len(whole)
  BY <1>1, <1>2, <1>3
<1>5. Hosts!Char = whole[n + 1]
  BY <1>1, <1>2, <1>3, <1>4 DEF Hosts!Char
<1>6. Tail(line) = SubSeq(whole, (n + 1) + 1, Len(whole))
  <2> DEFINE l == Len(whole)
             m == n + 1
             q == SubSeq(whole, m + 1, l)
  <2>1. m \in 0 .. l /\ l - m = l - n - 1
    BY <1>1, <1>4
  <2>2. \A k \in Nat : m + k = n + (k + 1)
    BY <1>1
  <2>2a. q \in Seq(Hosts!Chars) /\ Len(q) = l - m /\ \A k \in 1 .. l - m : q[k] = whole[m + k]
    <3> HIDE DEF m
    <3> QED BY <1>1, <2>1, RestElements
  <2>3. q \in Seq(Hosts!Chars) /\ Len(q) = l - n - 1 /\ \A k \in 1 .. l - n - 1 : q[k] = whole[n + (k + 1)]
    <3> HIDE DEF q, l
    <3> QED BY <2>1, <2>2, <2>2a
  <2>4. Tail(line) \in Seq(Hosts!Chars) /\ Len(Tail(line)) = l - n - 1 /\ \A k \in 1 .. l - n - 1 : Tail(line)[k] = line[k + 1]
    BY <1>2, <1>3, HeadTailProperties
  <2> HIDE DEF q
  <2>5. \A k \in 1 .. l - n - 1 : Tail(line)[k] = q[k]
    <3>1. \A k \in 1 .. l - n - 1 : k + 1 \in 1 .. l - n
      BY <1>1
    <3> QED BY <1>2, <2>3, <2>4, <3>1
  <2>6. Tail(line) = q
    BY <2>3, <2>4, <2>5, SeqEqual
  <2> QED BY <2>6 DEF q
<1> QED BY <1>1, <1>3, <1>4, <1>5, <1>6

\* A word that ends here, or at the end of the line.
LEMMA WordEnds ==
    ASSUME Len(whole) \in Nat, NEW n \in 0 .. Len(whole), NEW a \in 1 .. n, NEW m \in 1 .. a,
           Blank(m, a - 1), Inked(a, n), n < Len(whole) => whole[n + 1] = Ws
    PROVE  <<a, n>> \in Hosts!Word(whole, m)
<1>1. a \in m .. Len(whole) /\ n \in m .. Len(whole) /\ a <= n
  OBVIOUS
<1>2. ASSUME NEW k \in m .. n PROVE whole[k] = Ws <=> k < a
  <2>1. k < a => k \in m .. a - 1
    OBVIOUS
  <2>2. ~(k < a) => k \in a .. n
    OBVIOUS
  <2> QED BY <2>1, <2>2 DEF Blank, Inked
<1> QED BY <1>1, <1>2 DEF Hosts!Word

LEMMA HostsStep == ASSUME HostsInv, Hosts!Next PROVE HostsInv'
<1>1. whole \in Seq(Hosts!Chars)
  BY DEF HostsInv
<1>2. PICK n \in Nat : CollectedAt(n)
  BY DEF HostsInv
<1> DEFINE l == Len(whole)
           ch == whole[n + 1]
<1> SUFFICES ASSUME NEW s \in Hosts!States, Hosts!Read(s) PROVE whole' \in Seq(Hosts!Chars) /\ CollectedAt(n + 1)'
  BY <1>2 DEF HostsInv, Hosts!Next, Hosts!LineStart, Hosts!IpStart, Hosts!IpEnd, Hosts!HostStart, Hosts!HostEnd, Hosts!States
<1>3. /\ state = s /\ whole' = whole /\ n + 1 \in 1 .. l /\ l \in Nat /\ n \in 0 .. l - 1
      /\ Hosts!Char = ch /\ line' = SubSeq(whole, (n + 1) + 1, l)
  BY <1>1, <1>2, ReadNext
<1>4. n + 1 \in 0 .. Len(whole)' /\ line' = SubSeq(whole', (n + 1) + 1, Len(whole'))
  BY <1>3
<1> HIDE DEF l, ch
<1>5. ASSUME NEW a, Blank(a, n), ch = Ws PROVE Blank(a, n + 1)
  <2>1. \A k \in a .. n + 1 : k \in a .. n \/ k = n + 1
    BY <1>3
  <2> QED BY <1>5, <2>1 DEF Blank, ch
<1>6. ASSUME NEW a, Inked(a, n), ch # Ws PROVE Inked(a, n + 1)
  <2>1. \A k \in a .. n + 1 : k \in a .. n \/ k = n + 1
    BY <1>3
  <2> QED BY <1>6, <2>1 DEF Inked, ch
<1>7. ASSUME NEW a \in 1 .. n + 1 PROVE Append(SubSeq(whole, a, n), ch) = SubSeq(whole, a, n + 1)
  BY <1>1, <1>3, PartGrows DEF l, ch
<1>8. SubSeq(whole, n + 1, n) = <<>>
  BY <1>1, <1>3 DEF l
<1>9. ch # Ws => Inked(n + 1, n + 1)
  BY <1>3 DEF Inked, ch
<1>10. /\ \A a, b : (Blank(a, b)' <=> Blank(a, b)) /\ (Inked(a, b)' <=> Inked(a, b))
       /\ ip' = ip => \A a, b : FirstWord(a, b)' <=> FirstWord(a, b)
  BY <1>3 DEF Blank, Inked, FirstWord, Hosts!Word
<1>11. (BothWords /\ ip' = ip /\ host' = host) => BothWords'
  BY <1>3, <1>10 DEF BothWords, Hosts!Word
<1>12. Hosts!States = {"LineStart", "IpStart", "IpEnd", "HostStart", "HostEnd", "Break"}
  BY DEF Hosts!States
<1> SUFFICES CollectedAt(n + 1)'
  BY <1>1, <1>3
<1>13. CASE s = "LineStart"
  <2>1. /\ host' = host
        /\ state' = IF ch = Ws THEN "LineStart" ELSE IF ch = Hash THEN "Break" ELSE "IpStart"
        /\ ip' = IF ch \in {Ws, Hash} THEN ip ELSE Append(ip, ch)
    BY <1>3, <1>13 DEF Hosts!Next, Hosts!Read, Hosts!LineStart, Hosts!IpStart, Hosts!IpEnd, Hosts!HostStart, Hosts!HostEnd
  <2>2. Blank(1, n) /\ ip = <<>> /\ host = <<>>
    BY <1>2, <1>3, <1>13 DEF CollectedAt
  <2>3. CASE ch = Ws
    <3>1. state' = "LineStart" /\ ip' = <<>> /\ host' = <<>> /\ Blank(1, n + 1)'
      BY <1>5, <1>10, <2>1, <2>2, <2>3
    <3> QED BY <1>4, <1>12, <3>1 DEF CollectedAt
  <2>4. CASE ch # Ws /\ ch = Hash
    <3>1. state' = "Break" /\ ip' = <<>> /\ host' = <<>>
      BY <2>1, <2>2, <2>4
    <3>2. (n + 1) - 1 = n /\ n + 1 \in 1 .. Len(whole)'
      BY <1>3 DEF l
    <3>3. \E a \in 1 .. Len(whole)' : Blank(1, a - 1)' /\ whole'[a] = Hash /\ whole'[a] # Ws
      BY <1>3, <1>10, <2>2, <2>4, <3>2 DEF ch
    <3> QED BY <1>4, <1>12, <3>1, <3>3 DEF CollectedAt
  <2>5. CASE ch # Ws /\ ch # Hash
    <3>1. state' = "IpStart" /\ ip' = Append(ip, ch) /\ host' = <<>>
      BY <2>1, <2>2, <2>5
    <3>2. (n + 1) - 1 = n /\ n + 1 \in 1 .. n + 1
      BY <1>3
    <3>3. Append(ip, ch) = SubSeq(whole, n + 1, n + 1)
      BY <1>7, <1>8, <2>2, <3>2
    <3>4. \E a \in 1 .. n + 1 : Blank(1, a - 1)' /\ Inked(a, n + 1)' /\ whole'[a] # Hash /\ ip' = SubSeq(whole', a, n + 1)
      BY <1>3, <1>9, <1>10, <2>2, <2>5, <3>1, <3>2, <3>3 DEF ch
    <3> QED BY <1>4, <1>12, <3>1, <3>4 DEF CollectedAt
  <2> QED BY <2>3, <2>4, <2>5
<1>14. CASE s = "IpStart"
  <2>1. /\ host' = host
        /\ state' = IF ch = Ws THEN "IpEnd" ELSE "IpStart"
        /\ ip' = IF ch = Ws THEN ip ELSE Append(ip, ch)
    BY <1>3, <1>14 DEF Hosts!Next, Hosts!Read, Hosts!LineStart, Hosts!IpStart, Hosts!IpEnd, Hosts!HostStart, Hosts!HostEnd
  <2>2. host = <<>>
    BY <1>2, <1>3, <1>14 DEF CollectedAt
  <2>3. PICK a \in 1 .. n : Blank(1, a - 1) /\ Inked(a, n) /\ whole[a] # Hash /\ ip = SubSeq(whole, a, n)
    BY <1>2, <1>3, <1>14 DEF CollectedAt
  <2>4. CASE ch = Ws
    <3>1. state' = "IpEnd" /\ ip' = ip /\ host' = <<>>
      BY <2>1, <2>2, <2>4
    <3>2. n \in 0 .. l /\ 1 \in 1 .. a /\ n \in 1 .. l /\ a \in 1 .. l
      BY <1>3
    <3>3. <<a, n>> \in Hosts!Word(whole, 1)
      BY <1>3, <2>3, <2>4, <3>2, WordEnds DEF l, ch
    <3>4. FirstWord(a, n)'
      BY <1>10, <2>3, <3>1, <3>3 DEF FirstWord
    <3>5. n < n + 1 /\ Blank(n + 1, n + 1)
      BY <1>3, <2>4 DEF Blank, ch
    <3>6. \E x, y \in 1 .. Len(whole)' : FirstWord(x, y)' /\ y < n + 1 /\ Blank(y + 1, n + 1)'
      BY <1>3, <1>10, <3>2, <3>4, <3>5 DEF l
    <3> QED BY <1>4, <1>12, <3>1, <3>6 DEF CollectedAt
  <2>5. CASE ch # Ws
    <3>1. state' = "IpStart" /\ ip' = Append(ip, ch) /\ host' = <<>>
      BY <2>1, <2>2, <2>5
    <3>2. a \in 1 .. n + 1
      BY <1>3
    <3>3. Append(ip, ch) = SubSeq(whole, a, n + 1)
      BY <1>7, <2>3, <3>2
    <3>4. Blank(1, a - 1)' /\ Inked(a, n + 1)' /\ whole'[a] # Hash /\ ip' = SubSeq(whole', a, n + 1)
      BY <1>3, <1>6, <1>10, <2>3, <2>5, <3>1, <3>3
    <3> QED BY <1>4, <1>12, <3>1, <3>2, <3>4 DEF CollectedAt
  <2> QED BY <2>4, <2>5
<1>15. CASE s = "IpEnd"
  <2>1. /\ ip' = ip
        /\ state' = IF ch = Ws THEN "IpEnd" ELSE "HostStart"
        /\ host' = IF ch = Ws THEN host ELSE Append(host, ch)
    BY <1>3, <1>15 DEF Hosts!Next, Hosts!Read, Hosts!LineStart, Hosts!IpStart, Hosts!IpEnd, Hosts!HostStart, Hosts!HostEnd
  <2>2. host = <<>>
    BY <1>2, <1>3, <1>15 DEF CollectedAt
  <2>3. PICK a \in 1 .. l, b \in 1 .. l : FirstWord(a, b) /\ b < n /\ Blank(b + 1, n)
    BY <1>2, <1>3, <1>15 DEF CollectedAt, l
  <2>4. CASE ch = Ws
    <3>1. state' = "IpEnd" /\ host' = <<>> /\ FirstWord(a, b)' /\ b < n + 1 /\ Blank(b + 1, n + 1)'
      BY <1>3, <1>5, <1>10, <2>1, <2>2, <2>3, <2>4
    <3>2. \E x, y \in 1 .. Len(whole)' : FirstWord(x, y)' /\ y < n + 1 /\ Blank(y + 1, n + 1)'
      BY <1>3, <3>1 DEF l
    <3> QED BY <1>4, <1>12, <3>1, <3>2 DEF CollectedAt
  <2>5. CASE ch # Ws
    <3>1. state' = "HostStart" /\ host' = Append(host, ch) /\ FirstWord(a, b)'
      BY <1>10, <2>1, <2>3, <2>5
    <3>2. (n + 1) - 1 = n /\ n + 1 \in 1 .. n + 1 /\ b < n + 1
      BY <1>3, <2>3
    <3>3. Append(host, ch) = SubSeq(whole, n + 1, n + 1)
      BY <1>7, <1>8, <2>2, <3>2
    <3>4. \E x, y \in 1 .. Len(whole)', c \in 1 .. n + 1 :
            FirstWord(x, y)' /\ y < c /\ Blank(y + 1, c - 1)' /\ Inked(c, n + 1)' /\ host' = SubSeq(whole', c, n + 1)
      BY <1>3, <1>9, <1>10, <2>3, <2>5, <3>1, <3>2, <3>3 DEF l
    <3> QED BY <1>4, <1>12, <3>1, <3>4 DEF CollectedAt
  <2> QED BY <2>4, <2>5
<1>16. CASE s = "HostStart"
  <2>1. /\ ip' = ip
        /\ state' = IF ch = Ws THEN "HostEnd" ELSE "HostStart"
        /\ host' = IF ch = Ws THEN host ELSE Append(host, ch)
    BY <1>3, <1>16 DEF Hosts!Next, Hosts!Read, Hosts!LineStart, Hosts!IpStart, Hosts!IpEnd, Hosts!HostStart, Hosts!HostEnd
  <2>2. PICK a \in 1 .. l, b \in 1 .. l, c \in 1 .. n :
            FirstWord(a, b) /\ b < c /\ Blank(b + 1, c - 1) /\ Inked(c, n) /\ host = SubSeq(whole, c, n)
    BY <1>2, <1>3, <1>16 DEF CollectedAt, l
  <2>3. CASE ch = Ws
    <3>1. state' = "HostEnd" /\ host' = host
      BY <2>1, <2>3
    <3>2. n \in 0 .. l /\ b + 1 \in 1 .. c /\ n \in 1 .. l /\ c \in 1 .. l
      BY <1>3, <2>2
    <3>3. <<c, n>> \in Hosts!Word(whole, b + 1)
      BY <1>3, <2>2, <2>3, <3>2, WordEnds DEF l, ch
    <3>4. BothWords
      BY <2>2, <3>2, <3>3 DEF BothWords, l
    <3> QED BY <1>4, <1>11, <1>12, <2>1, <3>1, <3>4 DEF CollectedAt
  <2>4. CASE ch # Ws
    <3>1. state' = "HostStart" /\ host' = Append(host, ch) /\ FirstWord(a, b)'
      BY <1>10, <2>1, <2>2, <2>4
    <3>2. c \in 1 .. n + 1
      BY <1>3
    <3>3. Append(host, ch) = SubSeq(whole, c, n + 1)
      BY <1>7, <2>2, <3>2
    <3>4. \E x, y \in 1 .. Len(whole)', z \in 1 .. n + 1 :
            FirstWord(x, y)' /\ y < z /\ Blank(y + 1, z - 1)' /\ Inked(z, n + 1)' /\ host' = SubSeq(whole', z, n + 1)
      BY <1>3, <1>6, <1>10, <2>2, <2>4, <3>1, <3>2, <3>3 DEF l
    <3> QED BY <1>4, <1>12, <3>1, <3>4 DEF CollectedAt
  <2> QED BY <2>3, <2>4
<1>17. CASE s = "HostEnd"
  <2>1. ip' = ip /\ host' = host /\ state' = "Break"
    BY <1>3, <1>17 DEF Hosts!Next, Hosts!Read, Hosts!LineStart, Hosts!IpStart, Hosts!IpEnd, Hosts!HostStart, Hosts!HostEnd
  <2>2. BothWords
    BY <1>2, <1>3, <1>17 DEF CollectedAt
  <2> QED BY <1>4, <1>11, <1>12, <2>1, <2>2 DEF CollectedAt
<1>18. s # "Break"
  BY <1>3 DEF Hosts!Next, Hosts!Read, Hosts!LineStart, Hosts!IpStart, Hosts!IpEnd, Hosts!HostStart, Hosts!HostEnd
<1> QED BY <1>12, <1>13, <1>14, <1>15, <1>16, <1>17, <1>18

\* A line without two words, or whose first word begins with #, has no entry.
NoEntry == {w \in Hosts!TwoWords(whole) : w[1][1] # Hash /\ w[1] \in Ips} = {}

\* The words of the line, by their positions.
LEMMA PairOfWords ==
    ASSUME NEW p \in Hosts!TwoWords(whole)
    PROVE  \E v \in Hosts!Word(whole, 1) : \E w \in Hosts!Word(whole, v[2] + 1) :
                p = <<SubSeq(whole, v[1], v[2]), SubSeq(whole, w[1], w[2])>>
BY DEF Hosts!TwoWords

LEMMA WordShape ==
    ASSUME NEW n, NEW v \in Hosts!Word(whole, n)
    PROVE  /\ v = <<v[1], v[2]>> /\ v[1] \in n .. Len(whole) /\ v[2] \in n .. Len(whole) /\ v[1] <= v[2]
           /\ \A k \in n .. v[2] : whole[k] = Ws <=> k < v[1]
           /\ v[2] < Len(whole) => whole[v[2] + 1] = Ws
BY DEF Hosts!Word

LEMMA NoInk ==
    ASSUME Len(whole) \in Nat, NEW n \in Nat, Blank(n, Len(whole))
    PROVE  Hosts!Word(whole, n) = {}
<1> SUFFICES ASSUME NEW v \in Hosts!Word(whole, n) PROVE FALSE
  OBVIOUS
<1>1. v[1] \in n .. Len(whole) /\ v[1] \in n .. v[2] /\ ~(v[1] < v[1])
  BY WordShape
<1> QED BY <1>1, WordShape DEF Blank

LEMMA NoSecondWord ==
    ASSUME Len(whole) \in Nat, NEW a \in 1 .. Len(whole), NEW b \in 1 .. Len(whole),
           <<a, b>> \in Hosts!Word(whole, 1), Blank(b + 1, Len(whole))
    PROVE  NoEntry
<1>1. ASSUME NEW p \in Hosts!TwoWords(whole) PROVE FALSE
  <2>1. PICK v \in Hosts!Word(whole, 1) : \E w \in Hosts!Word(whole, v[2] + 1) :
                p = <<SubSeq(whole, v[1], v[2]), SubSeq(whole, w[1], w[2])>>
    BY PairOfWords
  <2>2. v = <<a, b>>
    BY WordUnique
  <2>3. Hosts!Word(whole, b + 1) = {}
    BY NoInk
  <2> QED BY <2>1, <2>2, <2>3
<1> QED BY <1>1 DEF NoEntry

LEMMA CommentLine ==
    ASSUME whole \in Seq(Hosts!Chars), NEW a \in 1 .. Len(whole), Blank(1, a - 1), whole[a] = Hash, whole[a] # Ws
    PROVE  NoEntry
<1>0. Len(whole) \in Nat
  BY LenProperties
<1>1. ASSUME NEW p \in Hosts!TwoWords(whole) PROVE p[1][1] = Hash
  <2>1. PICK v \in Hosts!Word(whole, 1) : \E w \in Hosts!Word(whole, v[2] + 1) :
                p = <<SubSeq(whole, v[1], v[2]), SubSeq(whole, w[1], w[2])>>
    BY PairOfWords
  <2>2. /\ v[1] \in 1 .. Len(whole) /\ v[2] \in 1 .. Len(whole) /\ v[1] <= v[2]
        /\ \A k \in 1 .. v[2] : whole[k] = Ws <=> k < v[1]
    BY WordShape
  <2> DEFINE x == v[1]
             y == v[2]
  <2>3. p[1] = SubSeq(whole, x, y)
    <3>1. PICK w : p = <<SubSeq(whole, x, y), SubSeq(whole, w[1], w[2])>>
      BY <2>1
    <3> DEFINE f == SubSeq(whole, x, y)
               g == SubSeq(whole, w[1], w[2])
    <3>2. p = <<f, g>>
      BY <3>1
    <3> HIDE DEF f, g
    <3>3. p[1] = f
      BY <3>2
    <3> QED BY <3>3 DEF f
  <2> HIDE DEF x, y
  <2>4. x = a
    <3>1. ~(x < a)
      <4>1. x < a => x \in 1 .. a - 1 /\ x \in 1 .. y /\ ~(x < x)
        BY <1>0, <2>2 DEF x, y
      <4> QED BY <2>2, <4>1 DEF Blank, x, y
    <3>2. ~(a < x)
      <4>1. a < x => a \in 1 .. y
        BY <1>0, <2>2 DEF x, y
      <4> QED BY <2>2, <4>1 DEF x, y
    <3> QED BY <1>0, <2>2, <3>1, <3>2 DEF x
  <2>5. y \in 0 .. Len(whole) /\ a <= y + 1 /\ 1 \in 1 .. y - a + 1 /\ a + 1 - 1 = a /\ a \in 1 .. Len(whole) + 1
    BY <1>0, <2>2, <2>4 DEF x, y
  <2>6. SubSeq(whole, a, y)[1] = whole[a]
    BY <2>5, PartElements
  <2> QED BY <2>3, <2>4, <2>6
<1> QED BY <1>1 DEF NoEntry

\* A part without white space.
LEMMA InkedPart ==
    ASSUME whole \in Seq(Hosts!Chars), NEW x \in 1 .. Len(whole), NEW y \in 1 .. Len(whole), x <= y, Inked(x, y)
    PROVE  /\ SubSeq(whole, x, y) \in Seq(Hosts!Chars \ {Ws}) /\ SubSeq(whole, x, y) # <<>>
           /\ SubSeq(whole, x, y)[1] = whole[x]
<1> DEFINE p == SubSeq(whole, x, y)
           m == y - x + 1
<1>1. /\ Len(whole) \in Nat /\ x \in 1 .. Len(whole) + 1 /\ y \in 0 .. Len(whole) /\ x <= y + 1
      /\ m \in Nat /\ m >= 1 /\ x + 1 - 1 = x
  BY LenProperties
<1>2. p \in Seq(Hosts!Chars) /\ Len(p) = m /\ \A k \in 1 .. m : p[k] = whole[x + k - 1] /\ whole[x + k - 1] \in Hosts!Chars
  BY <1>1, PartElements
<1>3. \A k \in 1 .. m : x + k - 1 \in x .. y
  BY <1>1
<1> HIDE DEF p, m
<1>4. \A k \in 1 .. m : p[k] \in Hosts!Chars \ {Ws}
  BY <1>2, <1>3 DEF Inked
<1>5. p \in [1 .. m -> Hosts!Chars \ {Ws}]
  <2>1. p = [k \in 1 .. m |-> p[k]]
    BY <1>2, LenProperties
  <2> QED BY <1>4, <2>1
<1>6. p \in Seq(Hosts!Chars \ {Ws})
  BY <1>1, <1>5, IsASeq
<1> QED BY <1>1, <1>2, <1>6 DEF p

\* Both words are the entry, if the first is an address.
LEMMA EntryOfBoth ==
    ASSUME whole \in Seq(Hosts!Chars), BothWords
    PROVE  /\ ip \in Seq(Hosts!Chars \ {Ws}) /\ host \in Seq(Hosts!Chars \ {Ws}) /\ host # <<>>
           /\ {w \in Hosts!TwoWords(whole) : w[1][1] # Hash /\ w[1] \in Ips}
                = IF ip \in Ips THEN {<<ip, host>>} ELSE {}
<1>1. PICK a \in 1 .. Len(whole), b \in 1 .. Len(whole), c \in 1 .. Len(whole), d \in 1 .. Len(whole) :
            FirstWord(a, b) /\ <<c, d>> \in Hosts!Word(whole, b + 1) /\ host = SubSeq(whole, c, d)
  BY DEF BothWords
<1>2. /\ Len(whole) \in Nat /\ <<a, b>> \in Hosts!Word(whole, 1) /\ ip = SubSeq(whole, a, b) /\ whole[a] # Hash
  BY <1>1, LenProperties DEF FirstWord
<1>3. a <= b /\ \A k \in 1 .. b : whole[k] = Ws <=> k < a
  BY <1>2 DEF Hosts!Word
<1>4. b + 1 <= c /\ c <= d /\ \A k \in b + 1 .. d : whole[k] = Ws <=> k < c
  BY SMTT(60), <1>1 DEF Hosts!Word
<1>6. Inked(a, b) /\ Inked(c, d)
  <2>1. \A k \in a .. b : k \in 1 .. b /\ ~(k < a)
    BY <1>2
  <2>2. \A k \in c .. d : k \in b + 1 .. d /\ ~(k < c)
    BY <1>2, <1>4
  <2> QED BY <1>3, <1>4, <2>1, <2>2 DEF Inked
<1>7. ip \in Seq(Hosts!Chars \ {Ws}) /\ host \in Seq(Hosts!Chars \ {Ws}) /\ host # <<>> /\ ip[1] # Hash
  BY <1>1, <1>2, <1>3, <1>4, <1>6, InkedPart
<1>8. Hosts!TwoWords(whole) = {<<ip, host>>}
  <2>1. ASSUME NEW p \in Hosts!TwoWords(whole) PROVE p = <<ip, host>>
    <3>1. PICK v \in Hosts!Word(whole, 1) : \E w \in Hosts!Word(whole, v[2] + 1) :
                p = <<SubSeq(whole, v[1], v[2]), SubSeq(whole, w[1], w[2])>>
      BY PairOfWords
    <3>2. v = <<a, b>>
      BY <1>2, WordUnique
    <3>3. v[1] = a /\ v[2] = b
      BY <3>2
    <3>4. PICK w \in Hosts!Word(whole, b + 1) : p = <<SubSeq(whole, a, b), SubSeq(whole, w[1], w[2])>>
      BY <3>1, <3>3
    <3>5. w = <<c, d>>
      <4>1. b + 1 \in Nat
        OBVIOUS
      <4> QED BY <1>1, <1>2, <4>1, WordUnique
    <3>6. w[1] = c /\ w[2] = d
      BY <3>5
    <3> QED BY <1>1, <1>2, <3>4, <3>6
  <2>2. <<ip, host>> \in Hosts!TwoWords(whole)
    <3> DEFINE v == <<a, b>>
               w == <<c, d>>
    <3>1. v[1] = a /\ v[2] = b /\ w[1] = c /\ w[2] = d /\ v \in Hosts!Word(whole, 1) /\ w \in Hosts!Word(whole, v[2] + 1)
      BY <1>1, <1>2
    <3> HIDE DEF v, w
    <3>2. <<ip, host>> = <<SubSeq(whole, v[1], v[2]), SubSeq(whole, w[1], w[2])>>
      BY <1>1, <1>2, <3>1
    <3> DEFINE F(x) == {<<SubSeq(whole, x[1], x[2]), SubSeq(whole, y[1], y[2])>> : y \in Hosts!Word(whole, x[2] + 1)}
    <3>3. <<ip, host>> \in F(v)
      BY <3>1, <3>2
    <3>4. Hosts!TwoWords(whole) = UNION {F(x) : x \in Hosts!Word(whole, 1)}
      BY DEF Hosts!TwoWords
    <3> HIDE DEF F
    <3> QED BY <3>1, <3>3, <3>4
  <2> QED BY <2>1, <2>2
<1>9. <<ip, host>>[1] = ip
  OBVIOUS
<1> QED BY <1>7, <1>8, <1>9

LEMMA HostsGives == ASSUME HostsInv PROVE Hosts!EntryIsTwoWords
<1>1. whole \in Seq(Hosts!Chars) /\ Len(whole) \in Nat
  BY LenProperties DEF HostsInv
<1>2. PICK n \in Nat : CollectedAt(n)
  BY DEF HostsInv
<1> DEFINE l == Len(whole)
           kept == {w \in Hosts!TwoWords(whole) : w[1][1] # Hash /\ w[1] \in Ips}
<1>3. /\ n \in 0 .. l /\ state \in Hosts!States /\ line \in Seq(Hosts!Chars) /\ Len(line) = l - n
      /\ \A k \in 1 .. l - n : line[k] = whole[n + k]
  <2>1. n \in 0 .. l /\ state \in Hosts!States /\ line = SubSeq(whole, n + 1, l)
    BY <1>2 DEF CollectedAt
  <2> QED BY <1>1, <2>1, RestElements
<1>4. line = <<>> => n = l
  BY <1>1, <1>3
<1>5. Contains!IsSuffix(line, whole) => Hosts!IsSuffix(line, whole)
  BY DEF Contains!IsSuffix, Contains!IsPrefix, Contains!Reverse, Hosts!IsSuffix, Hosts!IsPrefix, Hosts!Reverse
<1>6. Hosts!IsSuffix(line, whole)
  <2>1. \A k \in 1 .. Len(line) : line[k] = whole[l - Len(line) + k]
    <3>1. l - Len(line) = n
      BY <1>1, <1>3
    <3> QED BY <1>3, <3>1
  <2>2. Len(line) <= l
    BY <1>1, <1>3
  <2>3. Contains!IsSuffix(line, whole)
    BY <1>1, <1>3, <2>1, <2>2, SuffixElements
  <2> QED BY <1>5, <2>3
<1>7. /\ ip \in Seq(Hosts!Chars \ {Ws}) /\ host \in Seq(Hosts!Chars \ {Ws})
      /\ state = "LineStart" => ip = <<>>
      /\ state \in {"LineStart", "IpStart", "IpEnd"} => host = <<>>
      /\ Hosts!Done => kept = IF host # <<>> /\ ip \in Ips THEN {<<ip, host>>} ELSE {}
  <2>0. <<>> \in Seq(Hosts!Chars \ {Ws})
    BY EmptySeq
  <2>1. Hosts!Done => state = "Break" \/ n = l
    BY <1>4 DEF Hosts!Done
  <2>2. CASE state = "LineStart"
    <3>1. Blank(1, n) /\ ip = <<>> /\ host = <<>>
      BY <1>2, <2>2 DEF CollectedAt
    <3>2. Hosts!Done => kept = {}
      <4> SUFFICES ASSUME n = l PROVE \A p \in Hosts!TwoWords(whole) : FALSE
        BY <2>1, <2>2
      <4>1. Hosts!Word(whole, 1) = {}
        BY <1>1, <3>1, NoInk
      <4> QED BY <4>1, PairOfWords
    <3> QED BY <2>0, <2>2, <3>1, <3>2
  <2>3. CASE state = "IpStart"
    <3>1. host = <<>>
      BY <1>2, <2>3 DEF CollectedAt
    <3>2. PICK a \in 1 .. n : Blank(1, a - 1) /\ Inked(a, n) /\ whole[a] # Hash /\ ip = SubSeq(whole, a, n)
      BY <1>2, <2>3 DEF CollectedAt
    <3>3. a \in 1 .. l /\ n \in 1 .. l /\ a <= n /\ 1 \in 1 .. a
      BY <1>1, <1>3
    <3>4. ip \in Seq(Hosts!Chars \ {Ws})
      BY <1>1, <3>2, <3>3, InkedPart
    <3>5. Hosts!Done => kept = {}
      <4> SUFFICES ASSUME n = l PROVE kept = {}
        BY <2>1, <2>3
      <4>1. <<a, n>> \in Hosts!Word(whole, 1)
        BY <1>1, <1>3, <3>2, <3>3, WordEnds
      <4>2. Blank(n + 1, l)
        BY <1>1 DEF Blank
      <4>3. NoEntry
        BY <1>1, <3>3, <4>1, <4>2, NoSecondWord
      <4> QED BY <4>3 DEF NoEntry
    <3> HIDE DEF kept
    <3> QED BY <2>0, <2>3, <3>1, <3>4, <3>5
  <2>4. CASE state = "IpEnd"
    <3>1. host = <<>>
      BY <1>2, <2>4 DEF CollectedAt
    <3>2. PICK a \in 1 .. l, b \in 1 .. l : FirstWord(a, b) /\ b < n /\ Blank(b + 1, n)
      BY <1>2, <2>4 DEF CollectedAt
    <3>3. a <= b /\ \A k \in 1 .. b : whole[k] = Ws <=> k < a
      BY <3>2 DEF FirstWord, Hosts!Word
    <3>4. Inked(a, b)
      <4>1. \A k \in a .. b : k \in 1 .. b /\ ~(k < a)
        OBVIOUS
      <4> QED BY <3>3, <4>1 DEF Inked
    <3>5. ip \in Seq(Hosts!Chars \ {Ws})
      BY <1>1, <3>2, <3>3, <3>4, InkedPart DEF FirstWord
    <3>6. Hosts!Done => kept = {}
      <4> SUFFICES ASSUME n = l PROVE kept = {}
        BY <2>1, <2>4
      <4>1. NoEntry
        BY <1>1, <3>2, NoSecondWord DEF FirstWord
      <4> QED BY <4>1 DEF NoEntry
    <3> HIDE DEF kept
    <3> QED BY <2>0, <2>4, <3>1, <3>5, <3>6
  <2>5. CASE BothWords /\ state \in {"HostStart", "HostEnd", "Break"}
    BY <1>1, <2>5, EntryOfBoth
  <2>6. CASE state = "HostStart"
    <3>1. PICK a \in 1 .. l, b \in 1 .. l, c \in 1 .. n :
            FirstWord(a, b) /\ b < c /\ Blank(b + 1, c - 1) /\ Inked(c, n) /\ host = SubSeq(whole, c, n)
      BY <1>2, <2>6 DEF CollectedAt
    <3>2. c \in 1 .. l /\ n \in 1 .. l /\ c <= n /\ b + 1 \in 1 .. c
      BY <1>1, <1>3, <3>1
    <3>3. CASE n = l
      <4>1. <<c, n>> \in Hosts!Word(whole, b + 1)
        BY <1>1, <1>3, <3>1, <3>2, <3>3, WordEnds
      <4>2. BothWords
        BY <3>1, <3>2, <4>1 DEF BothWords
      <4> QED BY <2>5, <2>6, <4>2
    <3>4. CASE n # l
      <4>1. a <= b /\ \A k \in 1 .. b : whole[k] = Ws <=> k < a
        BY <3>1 DEF FirstWord, Hosts!Word
      <4>2. Inked(a, b)
        <5>1. \A k \in a .. b : k \in 1 .. b /\ ~(k < a)
          OBVIOUS
        <5> QED BY <4>1, <5>1 DEF Inked
      <4>3. ip \in Seq(Hosts!Chars \ {Ws})
        BY <1>1, <3>1, <4>1, <4>2, InkedPart DEF FirstWord
      <4>4. host \in Seq(Hosts!Chars \ {Ws})
        BY <1>1, <3>1, <3>2, InkedPart
      <4>5. ~Hosts!Done
        BY <2>1, <2>6, <3>4
      <4> HIDE DEF kept
      <4> QED BY <2>6, <4>3, <4>4, <4>5
    <3> QED BY <3>3, <3>4
  <2>7. CASE state = "HostEnd"
    BY <1>2, <2>5, <2>7 DEF CollectedAt
  <2>8. CASE state = "Break" /\ ~BothWords
    <3>1. ip = <<>> /\ host = <<>>
      BY <1>2, <2>8 DEF CollectedAt
    <3>2. PICK a \in 1 .. l : Blank(1, a - 1) /\ whole[a] = Hash /\ whole[a] # Ws
      BY <1>2, <2>8 DEF CollectedAt
    <3>3. NoEntry
      BY <1>1, <3>2, CommentLine
    <3> QED BY <2>0, <2>8, <3>1, <3>3 DEF NoEntry
  <2> HIDE DEF kept
  <2> QED BY <1>3, <2>2, <2>3, <2>4, <2>5, <2>6, <2>7, <2>8 DEF Hosts!States
<1>8. Hosts!TypeOK
  BY <1>1, <1>3, <1>6, <1>7 DEF Hosts!TypeOK
<1>9. Hosts!Done => Hosts!Entry = {<<w[1], Hosts!Dotted(w[2])>> : w \in kept}
  <2> SUFFICES ASSUME Hosts!Done PROVE Hosts!Entry = {<<w[1], Hosts!Dotted(w[2])>> : w \in kept}
    OBVIOUS
  <2>1. kept = IF host # <<>> /\ ip \in Ips THEN {<<ip, host>>} ELSE {}
    BY <1>7
  <2>2. <<ip, host>>[1] = ip /\ <<ip, host>>[2] = host
    OBVIOUS
  <2> HIDE DEF kept
  <2>3. {<<w[1], Hosts!Dotted(w[2])>> : w \in {<<ip, host>>}} = {<<ip, Hosts!Dotted(host)>>}
    BY <2>2
  <2>4. {<<w[1], Hosts!Dotted(w[2])>> : w \in {}} = {}
    OBVIOUS
  <2> QED BY <2>1, <2>3, <2>4 DEF Hosts!Entry
<1> QED BY <1>8, <1>9 DEF Hosts!EntryIsTwoWords

\* For any labels, domains and lines: DomainMap::contains is the relation of being a
\* domain of the list, or below one, and its indices stay in range; update_hosts
\* enters the first two words of every line that is no comment.
THEOREM ListsRead == MCSpec => []ListsAsWritten
<1> DEFINE ListInv == (part = "contains" => ContainsInv) /\ (part = "hosts" => HostsInv)
<1>1. MCInit => ListInv
  BY ContainsStarts, HostsStarts DEF MCInit
<1>2. ListInv /\ [MCNext]_all => ListInv'
  <2> SUFFICES ASSUME ListInv, [MCNext]_all PROVE ListInv'
    OBVIOUS
  <2>0. part' = part
    BY DEF MCNext, ServerTurn, all
  <2>1. ASSUME part = "contains" PROVE ContainsInv'
    <3>1. CASE Contains!Next
      BY <2>1, <3>1, ContainsStep
    <3>2. CASE UNCHANGED containsVars
      BY <2>1, <3>2 DEF containsVars, ContainsInv, Contains!EndIndex, Contains!Suffix, Contains!Last
    <3> QED BY <2>1, <3>1, <3>2 DEF MCNext, ServerTurn, all
  <2>2. ASSUME part = "hosts" PROVE HostsInv'
    <3>1. CASE Hosts!Next
      BY <2>2, <3>1, HostsStep
    <3>2. CASE UNCHANGED hostsVars
      <4>1. \A a, b : (Blank(a, b)' <=> Blank(a, b)) /\ (Inked(a, b)' <=> Inked(a, b)) /\ (FirstWord(a, b)' <=> FirstWord(a, b))
        BY <3>2 DEF hostsVars, Blank, Inked, FirstWord, Hosts!Word
      <4>2. BothWords => BothWords'
        <5>1. whole' = whole /\ host' = host /\ \A b : Hosts!Word(whole, b)' = Hosts!Word(whole, b)
          BY <3>2 DEF hostsVars, Hosts!Word
        <5> QED BY <4>1, <5>1 DEF BothWords
      <4>3. \A n : CollectedAt(n) => CollectedAt(n)'
        BY <3>2, <4>1, <4>2 DEF hostsVars, CollectedAt
      <4> QED BY <2>2, <3>2, <4>3 DEF hostsVars, HostsInv
    <3> QED BY <2>2, <3>1, <3>2 DEF MCNext, ServerTurn, all
  <2> QED BY <2>0, <2>1, <2>2
<1>3. ListInv => ListsAsWritten
  BY ContainsGives, HostsGives DEF ListsAsWritten
<1> QED BY <1>1, <1>2, <1>3, PTL DEF MCSpec
=============================================================================
