------------------------------ MODULE MCMailbox ------------------------------
(***************************************************************************)
(* A mailbox of the port for TLC.                                            *)
(***************************************************************************)
EXTENDS SysMbox, TLC

CONSTANTS t1, t2, t3, m1, m2

AllPostOps == {"post", "trypost"}
AllFetchOps == {"fetch", "timedfetch", "tryfetch"}

\* Only the bound on posts may bring the threads to rest.
MailboxNext == Next \/ (last >= MaxLast /\ UNCHANGED vars)
MailboxSpec == Init /\ [][MailboxNext]_vars

\* Posters are interchangeable, and so are messages.
Symmetry == Permutations({t1, t2}) \cup Permutations({m1, m2})
===============================================================================
