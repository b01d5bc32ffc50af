---------------------------- MODULE MCLwipLatency ----------------------------
(***************************************************************************)
(* LwipLatency for TLC; the configurations give the constants their values. *)
(***************************************************************************)
EXTENDS LwipLatency
=============================================================================
