------------------------------- MODULE MCTcpip -------------------------------
(***************************************************************************)
(* tcpip_thread and its clients for TLC, with one message of each pool and      *)
(* room for one in the mailbox.                                              *)
(***************************************************************************)
EXTENDS Tcpip

CONSTANTS a1, a2, d1, k1, i1, b1
==============================================================================
