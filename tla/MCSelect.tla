------------------------------- MODULE MCSelect -------------------------------
(***************************************************************************)
(* Select for TLC: a thread with a UDP socket and a TCP connection, which it    *)
(* accepts when data, a FIN or a reset may already have come.                 *)
(***************************************************************************)
EXTENDS Select

OwnTwo == [T |-> <<1, 2>>]
===============================================================================
