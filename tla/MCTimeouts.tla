------------------------------ MODULE MCTimeouts ------------------------------
(***************************************************************************)
(* The timeout list for TLC.                                                 *)
(***************************************************************************)
EXTENDS Timeouts, TLC

\* One cyclic timer, the TCP timer and one client.  With W = 8, timeouts of up to 1
\* tick that are served up to 2 late are as far apart as LWIP_MAX_TIMEOUT allows.
OneCyclic == <<"etharp">>
UnitIntervals == "etharp" :> 1 @@ "tcp" :> 1
===============================================================================
