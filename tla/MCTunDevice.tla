---------------------------- MODULE MCTunDevice -----------------------------
(* The device with two applications and buffers of one byte.  The module does *)
(* not tell one source from another.                                          *)
EXTENDS TunDevice, TLC

SourcesAlike == Permutations(Sources)
=============================================================================
