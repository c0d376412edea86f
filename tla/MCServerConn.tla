---------------------------- MODULE MCServerConn ----------------------------
(* The server connection with one unit per kernel buffer, so that every      *)
(* write of two units is a partial one.                                      *)
EXTENDS ServerConn

MCRequests == {"ip", "domain", "udp", "udpBad", "none"}
=============================================================================
