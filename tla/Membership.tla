------------------------------ MODULE Membership ------------------------------
(***************************************************************************)
(* The table of the multicast memberships of sockets (sockets.c), above       *)
(* igmp_joingroup and igmp_leavegroup.  setsockopt runs under the core lock    *)
(* and is one step; lwip_close walks the table without the lock and takes it   *)
(* only to leave each group.  One thread uses each socket.                   *)
(***************************************************************************)
EXTENDS Integers, Sequences, FiniteSets

CONSTANTS Sockets,
          Netifs,           \* interfaces with NETIF_FLAG_IGMP, in the order of the list
          Groups,
          NumGroups,        \* MEMP_IGMP_GROUP blocks beside those of allsystems
          MaxMemberships    \* LWIP_SOCKET_MAX_MEMBERSHIPS

VARIABLES table,    \* socket_ipv4_multicast_memberships
          use,      \* use[n][g]: igmp_group.use, 0 when g is not in the list of n
          pc,       \* pc[s]: "closed", "open", or where lwip_close is
          i,        \* i[s]: index of lwip_socket_drop_registered_memberships
          copy,     \* copy[s]: the addresses it copied
          member    \* <<s, a, g>>: memberships that setsockopt granted and s still has

vars == <<table, use, pc, i, copy, member>>

Ifs == {Netifs[k] : k \in DOMAIN Netifs}
Any == "any"            \* IPADDR_ANY, as interface and as the address of an empty entry
Nobody == "NULL"
Slots == 1..MaxMemberships
Entry == [sock : Sockets \cup {Nobody}, if_addr : Ifs \cup {Any}, multi_addr : Groups \cup {Any}]
EmptyEntry == [sock |-> Nobody, if_addr |-> Any, multi_addr |-> Any]

Init ==
  /\ table = [k \in Slots |-> EmptyEntry]
  /\ use = [n \in Ifs |-> [g \in Groups |-> 0]]
  /\ pc = [s \in Sockets |-> "closed"]
  /\ i = [s \in Sockets |-> 1]
  /\ copy = [s \in Sockets |-> EmptyEntry]
  /\ member = {}

(***************************************************************************)
(* igmp_joingroup stops at the first interface that has no memory for the     *)
(* group, and keeps the ones it joined; igmp_leavegroup leaves every          *)
(* interface that has the group.                                            *)
(***************************************************************************)
Matching(a) == {k \in DOMAIN Netifs : a \in {Any, Netifs[k]}}
Fresh(a, g) == {k \in Matching(a) : use[Netifs[k]][g] = 0}
InUse == Cardinality({<<n, g>> \in Ifs \X Groups : use[n][g] > 0})

\* The interfaces (by index) that igmp_joingroup joins.
Joins(a, g) ==
  {k \in Matching(a) : InUse + Cardinality({f \in Fresh(a, g) : f <= k}) <= NumGroups
                        \/ \A f \in Fresh(a, g) : f > k}

igmp_joingroup(a, g) ==
  use' = [n \in Ifs |-> [use[n] EXCEPT ![g] =
            IF \E k \in Joins(a, g) : Netifs[k] = n THEN @ + 1 ELSE @]]

igmp_leavegroup(a, g) ==
  use' = [n \in Ifs |-> [h \in Groups |->
            IF h = g /\ a \in {Any, n} /\ use[n][h] > 0 THEN use[n][h] - 1 ELSE use[n][h]]]

(***************************************************************************)
(* lwip_setsockopt                                                          *)
(***************************************************************************)
FreeSlots == {k \in Slots : table[k].sock = Nobody}
FirstFree == CHOOSE k \in FreeSlots : \A l \in FreeSlots : k <= l

lwip_socket(s) ==
  /\ pc[s] = "closed"
  /\ pc' = [pc EXCEPT ![s] = "open"]
  /\ UNCHANGED <<table, use, i, copy, member>>

\* IP_ADD_MEMBERSHIP: lwip_socket_register_membership, then the join.  The entry
\* stays when the join fails.
AddMembership(s, a, g) ==
  /\ pc[s] = "open" /\ <<s, a, g>> \notin member
  /\ FreeSlots # {}
  /\ table' = [table EXCEPT ![FirstFree] = [sock |-> s, if_addr |-> a, multi_addr |-> g]]
  /\ igmp_joingroup(a, g)
  /\ member' = IF Joins(a, g) = Matching(a) THEN member \cup {<<s, a, g>>} ELSE member
  /\ UNCHANGED <<pc, i, copy>>

\* IP_DROP_MEMBERSHIP: the leave, then lwip_socket_unregister_membership.
Registered(s, a, g) == {k \in Slots : table[k] = [sock |-> s, if_addr |-> a, multi_addr |-> g]}

DropMembership(s, a, g) ==
  /\ pc[s] = "open" /\ <<s, a, g>> \in member
  /\ igmp_leavegroup(a, g)
  /\ table' = [k \in Slots |->
       IF k \in Registered(s, a, g) /\ \A l \in Registered(s, a, g) : k <= l
         THEN EmptyEntry ELSE table[k]]
  /\ member' = member \ {<<s, a, g>>}
  /\ UNCHANGED <<pc, i, copy>>

(***************************************************************************)
(* lwip_close, up to free_socket: lwip_socket_drop_registered_memberships      *)
(***************************************************************************)
lwip_close(s) ==
  /\ pc[s] = "open"
  /\ pc' = [pc EXCEPT ![s] = "scan"]
  /\ i' = [i EXCEPT ![s] = 1]
  /\ member' = {m \in member : m[1] # s}
  /\ UNCHANGED <<table, use, copy>>

\* An entry of the socket: copy its addresses and give the entry back.
DropScan(s) ==
  /\ pc[s] = "scan"
  /\ IF i[s] \in Slots /\ table[i[s]].sock = s
       THEN /\ copy' = [copy EXCEPT ![s] = table[i[s]]]
            /\ table' = [table EXCEPT ![i[s]].sock = Nobody]
            /\ pc' = [pc EXCEPT ![s] = "zero"]
            /\ UNCHANGED i
       ELSE /\ i' = [i EXCEPT ![s] = IF @ \in Slots THEN @ + 1 ELSE 1]
            /\ pc' = [pc EXCEPT ![s] = IF i[s] \in Slots THEN "scan" ELSE "closed"]
            /\ UNCHANGED <<copy, table>>
  /\ UNCHANGED <<use, member>>

\* ip4_addr_set_zero of both addresses.
DropZero(s) ==
  /\ pc[s] = "zero"
  /\ table' = [table EXCEPT ![i[s]].if_addr = Any, ![i[s]].multi_addr = Any]
  /\ pc' = [pc EXCEPT ![s] = "leave"]
  /\ UNCHANGED <<use, i, copy, member>>

\* netconn_join_leave_group: an address that is not multicast is refused.
DropLeave(s) ==
  /\ pc[s] = "leave"
  /\ IF copy[s].multi_addr \in Groups THEN igmp_leavegroup(copy[s].if_addr, copy[s].multi_addr)
     ELSE UNCHANGED use
  /\ i' = [i EXCEPT ![s] = @ + 1]
  /\ pc' = [pc EXCEPT ![s] = "scan"]
  /\ copy' = [copy EXCEPT ![s] = EmptyEntry]
  /\ UNCHANGED <<table, member>>

Next ==
  \E s \in Sockets :
    \/ lwip_socket(s) \/ lwip_close(s) \/ DropScan(s) \/ DropZero(s) \/ DropLeave(s)
    \/ \E a \in Ifs \cup {Any}, g \in Groups : AddMembership(s, a, g) \/ DropMembership(s, a, g)

Spec == Init /\ [][Next]_vars
-------------------------------------------------------------------------------
(***************************************************************************)
(* Properties                                                               *)
(***************************************************************************)
TypeOK ==
  /\ table \in [Slots -> Entry] /\ copy \in [Sockets -> Entry]
  /\ use \in [Ifs -> [Groups -> Nat]]
  /\ pc \in [Sockets -> {"closed", "open", "scan", "zero", "leave"}]
  /\ member \subseteq Sockets \X (Ifs \cup {Any}) \X Groups

\* "On socket close, the membership is dropped automatically" (the comment of
\* lwip_socket_register_membership): when no socket is open, no group is in use.
CloseDropsMemberships == (\A s \in Sockets : pc[s] = "closed") => InUse = 0
===============================================================================
