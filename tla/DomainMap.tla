----------------------------- MODULE DomainMap -----------------------------
(***************************************************************************)
(* DomainMap::contains (src/src/dns/domain.rs): is a name, or a domain     *)
(* above it, in the set?  A name is the sequence of its labels; the name   *)
(* of a query ends in a dot, for which split gives an empty last label.    *)
(***************************************************************************)
EXTENDS Naturals, Sequences, SequencesExt

CONSTANTS
    Labels, Empty,  \* the labels; the empty label
    MaxLabels,      \* bound on the labels of a name
    MaxDomains      \* bound on the domains in the set

VARIABLES
    domains,        \* the set of DomainMap
    items,          \* the labels of the name, from split
    i,              \* the loop
    result          \* "none" until contains returns

vars == <<domains, items, i, result>>

Plain == SeqOf(Labels, MaxLabels) \ {<<>>}

\* Names that a query can have: the root is ".", which split makes two empty
\* labels of.
Asked == Plain \cup { Append(n, Empty) : n \in Plain } \cup {<<Empty, Empty>>}

Init ==
    /\ \E d \in [1 .. MaxDomains -> Plain] : domains = Range(d)
    /\ items \in Asked /\ i = 0 /\ result = "none"

\* Mutant: the empty label is part of the suffixes.
EndIndexAll == Len(items)

EndIndex == IF Last(items) = Empty THEN Len(items) - 1 ELSE Len(items)

\* items[i..end_index]
Suffix == SubSeq(items, i + 1, EndIndex)

Found ==
    /\ result = "none" /\ i < EndIndex - 1 /\ Suffix \in domains
    /\ result' = "true" /\ UNCHANGED <<domains, items, i>>

Continue ==
    /\ result = "none" /\ i < EndIndex - 1 /\ Suffix \notin domains
    /\ i' = i + 1 /\ UNCHANGED <<domains, items, result>>

NotFound ==
    /\ result = "none" /\ i >= EndIndex - 1
    /\ result' = "false" /\ UNCHANGED <<domains, items, i>>

Next == Found \/ Continue \/ NotFound

Spec == Init /\ [][Next]_vars

-----------------------------------------------------------------------------
(* Properties *)

\* Every variable keeps its type; end_index - 1 does not underflow.
TypeOK ==
    /\ domains \subseteq Plain /\ items \in Asked /\ EndIndex >= 1
    /\ i \in 0 .. EndIndex - 1 /\ result \in {"none", "true", "false"}

\* A name is contained exactly if it is, or lies below, a domain of the set of two
\* labels or more, with or without the dot at its end: top-level domains in the
\* list have no effect.  The indices stay in range.
ContainsSubdomains ==
    /\ TypeOK
    /\ result # "none" =>
        (result = "true" <=>
            \E d \in domains : Len(d) >= 2 /\ (IsSuffix(d, items) \/ IsSuffix(Append(d, Empty), items)))
=============================================================================
