----------------------------- MODULE ConnStatus -----------------------------
(***************************************************************************)
(* The life cycle every mio endpoint of trojan-rs shares: the enum         *)
(* ConnStatus and the default methods of the trait StatusProvider          *)
(* (src/src/status.rs).  A method that only changes the status is an       *)
(* operator from the old status to the new one.                            *)
(*                                                                         *)
(* Every implementation of close_conn and deregister in the repository     *)
(* returns true, so shutdown() and check_status() never stop half way.     *)
(***************************************************************************)
EXTENDS Naturals

Status == {"Connecting", "Established", "PeerClosed", "Shutdown", "Deregistered"}

Alive(st) == st \in {"PeerClosed", "Established"}

IsShutdown(st) == st \in {"Shutdown", "Deregistered"}

\* Mutant: peer_closed does not look at the current status.
PeerClosedAlways(st) == "PeerClosed"

\* The other side of the relay is closed: what is queued here is still sent.
PeerClosed(st) == IF st \in {"Established", "Connecting"} THEN "PeerClosed" ELSE st

Established(st) == IF st = "Connecting" THEN "Established" ELSE st

Shutdown(st) == IF st = "Deregistered" THEN st ELSE "Shutdown"

\* The loop of check_status: a PeerClosed endpoint that has nothing left to
\* send shuts down, and an endpoint that is shut down leaves the poll.
CheckStatus(st, finishSend) ==
    IF IsShutdown(st) \/ (st = "PeerClosed" /\ finishSend) THEN "Deregistered" ELSE st

\* The order in which an endpoint may pass through its statuses.
Rank(st) == CASE st = "Connecting"   -> 0
              [] st = "Established"  -> 1
              [] st = "PeerClosed"   -> 2
              [] st = "Shutdown"     -> 3
              [] st = "Deregistered" -> 4
=============================================================================
