-------------------------------- MODULE Pipe --------------------------------
(***************************************************************************)
(* What a relay promises for one direction of a connection: the reader     *)
(* gets what the writer wrote, in order and once, and is told of the end   *)
(* only after all of it - unless the pipe is cut, by a failure or a        *)
(* timeout, after which nothing more arrives.                              *)
(***************************************************************************)
EXTENDS Naturals, Sequences

CONSTANT Items

VARIABLES
    sent,   \* what the writer has written
    closed, \* the writer has ended
    got,    \* what has reached the reader
    end     \* what the reader was told: "open", "eof" or "cut"

vars == <<sent, closed, got, end>>

Init == sent = <<>> /\ closed = FALSE /\ got = <<>> /\ end = "open"

Write ==
    /\ ~closed /\ \E i \in Items : sent' = Append(sent, i)
    /\ UNCHANGED <<closed, got, end>>

Close == closed' = TRUE /\ UNCHANGED <<sent, got, end>>

\* The last piece may come together with the end, or with the cut.
Deliver ==
    /\ end = "open"
    /\ \E n \in Len(got) .. Len(sent) : got' = SubSeq(sent, 1, n)
    /\ \/ end' = "open"
       \/ end' = "eof" /\ closed /\ got' = sent
       \/ end' = "cut"
    /\ UNCHANGED <<sent, closed>>

Next == Write \/ Close \/ Deliver

Spec == Init /\ [][Next]_vars
=============================================================================
