----------------------------- MODULE MCMembership -----------------------------
(***************************************************************************)
(* Membership for TLC: two sockets, and memory for every group on every       *)
(* interface.                                                               *)
(***************************************************************************)
EXTENDS Membership

TwoNetifs == <<"n1", "n2">>
===============================================================================
