---------------------------- MODULE MCHostQueues ----------------------------
(* HostQueues for TLC. *)
EXTENDS HostQueues, TLC
=============================================================================
