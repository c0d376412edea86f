------------------------------ MODULE IdlePool ------------------------------
(***************************************************************************)
(* The pool of TLS connections the proxy opens ahead of time               *)
(* (src/src/idle_pool.rs), driven by the proxy's loop, with the resolver   *)
(* that finds the server's address again when a connect fails at once.     *)
(* Connects do not block: one to an address that the server has left does  *)
(* not fail at once as a rule, but later, with an event.                   *)
(*                                                                         *)
(* ev holds the sources with an edge nobody has fetched, batch the events  *)
(* of the current poll; a connection's source is its index, the resolver's *)
(* is 0.  The index counter of the code only ever meets an index in use    *)
(* after 2^62 connections: here a new connection takes the smallest free   *)
(* index.                                                                  *)
(***************************************************************************)
EXTENDS ConnStatus, Sequences, FiniteSets, FiniteSetsExt

CONSTANTS
    Size,       \* IdlePool.size, pool_size + 1
    MaxIndex,   \* indexes a run may use
    Addrs,      \* addresses the server may have
    MaxMoves,   \* how often the server changes its address
    MaxLookups  \* lookups in the resolver's threads at one time

VARIABLES
    pool,       \* IdlePool.pool
    addr,       \* IdlePool.addr
    real,       \* the address DNS gives
    moves,
    asked,      \* lookups that have not reached DNS
    looked,     \* lookups that have their answer and have not sent it
    answers,    \* the resolver's channel
    ev,
    batch,      \* source -> readiness, {} when there is no event
    polling

dns  == <<addr, real, moves, asked, looked, answers>>
vars == <<pool, addr, real, moves, asked, looked, answers, ev, batch, polling>>

Failed == "failed"
Answer == Addrs \cup {Failed}
Resolver == 0
Source == 0 .. MaxIndex

\* tls: "start", the ClientHello is not written; "sent"; "fin", the server's
\* answer is read and the client's Finished not written; "done".  to: the address
\* it connects to.  hin, sin: the server's answer or other data is in the kernel;
\* end: the server has closed, or the connect has failed.
Conn ==
    [ index: 1 .. MaxIndex, to: Addrs, status: Status, tls: {"start", "sent", "fin", "done"},
      scon: {"connecting", "up"}, hin: BOOLEAN, sin: BOOLEAN, end: BOOLEAN ]

\* new_conn; the connect goes on in the background.
NewConn(i) ==
    [ index |-> i, to |-> addr, status |-> "Connecting", tls |-> "start",
      scon |-> "connecting", hin |-> FALSE, sin |-> FALSE, end |-> FALSE ]

-----------------------------------------------------------------------------
(* TlsConn, as far as an idle connection goes *)

WantsWrite(r) == r.tls \in {"start", "fin"}

DoRead(r) ==
    [r EXCEPT !.hin = FALSE, !.sin = FALSE,
              !.tls = IF r.hin THEN "fin" ELSE @,
              !.status = IF r.end THEN Shutdown(@) ELSE @]

DoSend(r) ==
    IF r.status = "Connecting" \/ ~WantsWrite(r) THEN r
    ELSE IF r.end \/ IsShutdown(r.status) THEN [r EXCEPT !.status = Shutdown(@)]
    ELSE [r EXCEPT !.tls = IF @ = "start" THEN "sent" ELSE "done"]

Checked(r) == [r EXCEPT !.status = CheckStatus(@, ~WantsWrite(r))]

-----------------------------------------------------------------------------
(* IdlePool *)

\* The k-th index from the free ones.
Taken(q) == { q[k].index : k \in 1 .. Len(q) } \cup ev \cup { x \in Source : batch[x] # {} }
NextIndex(q, k) ==
    CHOOSE i \in (1 .. MaxIndex) \ Taken(q) :
        Cardinality({ j \in (1 .. MaxIndex) \ Taken(q) : j <= i }) = k

\* alloc with n successful connects: fresh connections at the end.
Alloc(q, n) == q \o [k \in 1 .. n |-> NewConn(NextIndex(q, k))]

\* Mutant: a failed connect does not ask for the address.
UpdateDnsNever(n) == asked

\* update_dns, once for each of n failed connects, up to MaxLookups at a time.
Outstanding == asked + Len(answers) + Cardinality({ x \in Answer \X (1 .. MaxLookups) : x[2] <= looked[x[1]] })
UpdateDns(n) == IF Outstanding + n <= MaxLookups THEN asked + n ELSE asked + (MaxLookups - Outstanding)

\* How many of alloc's connects may be begun: the others fail at once (no route,
\* no descriptor).  Whether the server has the address does not matter yet.
Connects(q) == 0 .. Size - Len(q)

\* IdlePool::new and init: a pool of size 1 is disabled.
Init ==
    /\ addr \in Addrs /\ real = addr /\ moves = 0
    /\ asked = 0 /\ looked = [a \in Answer |-> 0] /\ answers = <<>>
    /\ ev = {} /\ batch = [x \in Source |-> {}] /\ polling = TRUE
    /\ pool = IF Size > 1 THEN Alloc(<<>>, Size) ELSE <<>>

\* get with n connects begun: alloc fills the pool up and the last connection is
\* handed out.  Where every connect fails and the pool is empty, Size rounds of
\* it give None.
GetWith(n) ==
    LET q == Alloc(pool, n) IN
    /\ pool' = IF q = <<>> THEN q ELSE SubSeq(q, 1, Len(q) - 1)
    /\ asked' = UpdateDns(Size - Len(q))
    /\ ev' = IF q = <<>> THEN ev ELSE ev \ {q[Len(q)].index}
    /\ UNCHANGED <<addr, real, moves, looked, answers, batch, polling>>

\* get, called from accept within a batch.
Get == ~polling /\ \E n \in Connects(pool) : GetWith(n)

\* Vec::swap_remove: the last element takes the place of the removed one.
SwapRemove(q, k) == [j \in 1 .. Len(q) - 1 |-> IF j = k THEN q[Len(q)] ELSE q[j]]

\* Mutant: the handshake's last flight is not sent.
ServeNoSend(r, flags) ==
    LET t == IF "r" \in flags THEN DoRead(r) ELSE r
    IN Checked(IF "w" \in flags /\ t.tls = "start" THEN DoSend([t EXCEPT !.status = Established(@)]) ELSE t)

\* ready for one connection
Serve(r, flags) ==
    LET t == IF "r" \in flags THEN DoRead(r) ELSE r
        u == IF "w" \in flags THEN DoSend([t EXCEPT !.status = Established(@)]) ELSE t
    IN Checked(u)

\* Mutant: a connection that is deregistered stays.
DropKeeps(q, k) == q

Drop(q, k) == IF q[k].status = "Deregistered" THEN SwapRemove(q, k) ELSE q

\* ready; an event of a connection that was handed out in the meantime is
\* only logged.
Ready ==
    \E x \in Source \ {Resolver} :
        /\ ~polling /\ batch[x] # {}
        /\ batch' = [batch EXCEPT ![x] = {}]
        /\ IF \E k \in 1 .. Len(pool) : pool[k].index = x
           THEN LET k == CHOOSE j \in 1 .. Len(pool) : pool[j].index = x
                    r == Serve(pool[k], batch[x])
                IN /\ pool' = Drop([pool EXCEPT ![k] = r], k)
                   /\ ev' = IF r.status = "Deregistered" THEN ev \ {x} ELSE ev
           ELSE UNCHANGED <<pool, ev>>
        /\ UNCHANGED <<dns, polling>>

\* Mutant: the places are removed from the front.
SweepForward(q, dead) ==
    LET f[k \in 0 .. Len(q)] ==
            IF k = 0 THEN q
            ELSE IF k \in dead /\ k <= Len(f[k - 1]) THEN SwapRemove(f[k - 1], k) ELSE f[k - 1]
    IN f[Len(q)]

\* The last loop of check_timeout: the places of dead, from the back.
Sweep(q, dead) ==
    LET f[k \in 1 .. Len(q) + 1] ==
            IF k = Len(q) + 1 THEN q
            ELSE IF k \in dead THEN SwapRemove(f[k + 1], k) ELSE f[k + 1]
    IN f[1]

\* check_timeout
CheckTimeout ==
    LET q == [k \in 1 .. Len(pool) |-> Checked(DoRead(pool[k]))]
        dead == { k \in 1 .. Len(q) : q[k].status = "Deregistered" }
    IN /\ polling
       /\ pool' = Sweep(q, dead)
       /\ ev' = ev \ { q[k].index : k \in dead }
       /\ UNCHANGED <<dns, batch, polling>>

\* resolver.consume with resolve: every answer in the channel, in order.
Resolve ==
    LET good == { k \in 1 .. Len(answers) : answers[k] # Failed } IN
    /\ ~polling /\ batch[Resolver] # {}
    /\ addr' = IF good = {} THEN addr ELSE answers[Max(good)]
    /\ answers' = <<>> /\ batch' = [batch EXCEPT ![Resolver] = {}]
    /\ UNCHANGED <<pool, real, moves, asked, looked, ev, polling>>

-----------------------------------------------------------------------------
(* The loop, the resolver's threads, the server *)

Flags(r) ==
    (IF r.hin \/ r.sin \/ r.end THEN {"r"} ELSE {}) \cup (IF r.scon = "up" \/ r.end THEN {"w"} ELSE {})

\* poll.poll, which also returns when nothing happens.
Fetch ==
    /\ polling /\ polling' = FALSE
    /\ batch' = [x \in Source |->
                    IF x \notin ev THEN {}
                    ELSE IF x = Resolver THEN {"r"}
                    ELSE UNION { Flags(pool[k]) : k \in { j \in 1 .. Len(pool) : pool[j].index = x } }]
    /\ ev' = {}
    /\ UNCHANGED <<pool, dns>>

EndOfBatch ==
    /\ ~polling /\ \A x \in Source : batch[x] = {}
    /\ polling' = TRUE
    /\ UNCHANGED <<pool, dns, ev, batch>>

\* A thread of DnsResolver::resolve looks the name up ...
LookUp ==
    /\ asked > 0 /\ asked' = asked - 1
    /\ \E a \in {real, Failed} : looked' = [looked EXCEPT ![a] = @ + 1]
    /\ UNCHANGED <<pool, addr, real, moves, answers, ev, batch, polling>>

\* ... and sends its answer, after or before those of other threads.
SendAnswer ==
    \E a \in Answer :
        /\ looked[a] > 0
        /\ looked' = [looked EXCEPT ![a] = @ - 1]
        /\ answers' = Append(answers, a)
        /\ ev' = ev \cup {Resolver}
        /\ UNCHANGED <<pool, addr, real, moves, asked, batch, polling>>

ServerMoves ==
    /\ moves < MaxMoves /\ moves' = moves + 1
    /\ real' \in Addrs \ {real}
    /\ UNCHANGED <<pool, addr, asked, looked, answers, ev, batch, polling>>

\* Something happens to the socket of the connection at place k.
Outside(k, r) ==
    /\ pool' = [pool EXCEPT ![k] = r]
    /\ ev' = ev \cup {r.index}
    /\ UNCHANGED <<dns, batch, polling>>

\* Only the server answers; a connect to an address it does not have is refused
\* or runs out of time.
ServerStep ==
    \E k \in 1 .. Len(pool) :
        LET r == pool[k] IN
        /\ ~r.end
        /\ \/ r.scon = "connecting" /\ r.to = real /\ Outside(k, [r EXCEPT !.scon = "up"])
           \/ r.tls = "sent" /\ ~r.hin /\ Outside(k, [r EXCEPT !.hin = TRUE])
           \/ r.tls = "done" /\ ~r.sin /\ Outside(k, [r EXCEPT !.sin = TRUE])
           \/ Outside(k, [r EXCEPT !.end = TRUE])

Next ==
    \/ Get \/ Ready \/ CheckTimeout \/ Resolve \/ Fetch \/ EndOfBatch
    \/ LookUp \/ SendAnswer \/ ServerMoves \/ ServerStep

Spec == Init /\ [][Next]_vars

\* Weak fairness of the loop, which always has a step to take, spelled out:
\* nothing else changes polling or batch.
LoopRuns == []<><<polling' # polling \/ batch' # batch>>_vars

\* The loop and the lookups go on, and DNS does not fail for ever.
FairSpec ==
    /\ Spec
    /\ LoopRuns /\ WF_vars(SendAnswer)
    /\ SF_vars(LookUp /\ looked'[real] > looked[real])

-----------------------------------------------------------------------------
(* Properties *)

\* Every variable keeps its type, and the pool never holds more than Size
\* connections, no two under one index.
TypeOK ==
    /\ pool \in Seq(Conn) /\ Len(pool) <= Size
    /\ \A j, k \in 1 .. Len(pool) : j # k => pool[j].index # pool[k].index
    /\ addr \in Addrs /\ real \in Addrs /\ moves \in 0 .. MaxMoves
    /\ asked \in 0 .. MaxLookups /\ looked \in [Answer -> Nat] /\ answers \in Seq(Answer)
    /\ ev \subseteq Source /\ batch \in [Source -> SUBSET {"r", "w"}] /\ polling \in BOOLEAN

\* get never hands out a connection that is known to be closed: ready and
\* check_timeout take it out of the pool in the step in which they close it.
\* The pool is never filled beyond its size.
NoneClosed ==
    /\ TypeOK
    /\ \A k \in 1 .. Len(pool) : ~IsShutdown(pool[k].status)

\* An idle connection with something to read or to write has an event to come,
\* also when check_timeout has read the server's answer first.
NoStall ==
    \A k \in 1 .. Len(pool) :
        LET r == pool[k] IN
        (r.index \notin ev /\ batch[r.index] = {} /\ r.scon = "up")
            => ~r.hin /\ ~r.sin /\ ~r.end /\ ~WantsWrite(r)

\* alloc meets a connect that fails at once.
ConnectFails == ~polling /\ \E n \in Connects(pool) : n < Size - Len(pool) /\ GetWith(n)

\* If the server moves, the pool finds its new address, although lookups overtake
\* each other and an older answer may be applied last - provided that as long as
\* the address is wrong some connects fail at once.  Nothing else asks for it:
\* ready and check_timeout drop a connection whose connect fails later.
AddrFollows ==
    ([]<>(addr = real) \/ []<><<ConnectFails>>_vars) => <>[](addr = real)
=============================================================================
