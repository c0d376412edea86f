---------------------------- MODULE PingResults ----------------------------
(***************************************************************************)
(* The table of ping results that both bypass profilers keep, and the      *)
(* grouping by which they choose the addresses to ask for again and to     *)
(* decide on (src/src/proxy/net_profiler.rs; src/src/aproxy/profiler.rs    *)
(* repeats it word for word).  Ping times and losses are reduced to        *)
(* whether they are there; last_time to an age.                            *)
(***************************************************************************)
EXTENDS Naturals, Sequences, FiniteSets, SequencesExt

CONSTANTS
    Ips,        \* target addresses
    NoBypass,   \* those of no_bypass_ipset, which the administrator fills
    Order       \* the order in which the HashMap `set` iterates

ASSUME OrderAssumption ==
    /\ IsFiniteSet(Ips) /\ NoBypass \subseteq Ips
    /\ Order \in Seq(Ips) /\ Range(Order) = Ips /\ Len(Order) = Cardinality(Ips)

\* known: the map has an entry for the address;
\* age: last_time is less than 100 seconds ago, more, or at least `timeout`.
Entry ==
    [ known: BOOLEAN, age: 0 .. 2, local: {"none", "value", "nobypass"}, remote: {"none", "value"},
      sent: BOOLEAN ]

NewEntry == [ known |-> TRUE, age |-> 0, local |-> "none", remote |-> "none",
              sent |-> TRUE ]
Absent == [ NewEntry EXCEPT !.known = FALSE ]

IsComplete(e) == e.local # "none" /\ e.remote # "none"
IsNoBypass(e) == e.local = "nobypass"

\* The result of a local check: at once and without a ping for an address of the
\* no-bypass set.
LocalKind(i) == IF i \in NoBypass THEN "nobypass" ELSE "value"

\* A new round keeps the results of an earlier round but for sent.
Asked(e) ==
    [e EXCEPT !.known = TRUE, !.age = 0, !.sent = FALSE]

Key(e) == IF ~IsComplete(e) THEN 0 ELSE IF e.sent \/ IsNoBypass(e) THEN 2 ELSE 1

\* group_by over the map makes a group of every run of neighbours with one key;
\* each group overwrites ips1 or ips0, so that the last one stays.
Among(s, key, k) == s[Order[k]].known /\ Key(s[Order[k]]) = key
LastGroup(s, key) ==
    { Order[k] : k \in { k \in 1 .. Len(Order) :
        /\ Among(s, key, k)
        /\ \A l \in k .. Len(Order) :
            Among(s, key, l) => \A m \in k .. l : s[Order[m]].known => Among(s, key, m) } }

\* Mutant: incomplete entries are not asked for again.
ResendNothing(s) == {}

\* ips0: the incomplete entries to ask the server for again.
Resend(s) == { i \in LastGroup(s, 0) : ~IsNoBypass(s[i]) /\ s[i].age >= 1 }

\* Mutant: a group of another kind clears ips1.
DecideLastOnly(s) ==
    { i \in LastGroup(s, 1) : \A k, l \in 1 .. Len(Order) :
        Order[k] = i /\ k < l /\ s[Order[l]].known => Among(s, 1, l) }

\* ips1: the entries to decide on.
Decide(s) == LastGroup(s, 1)
============================================================================
