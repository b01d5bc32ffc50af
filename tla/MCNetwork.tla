------------------------------ MODULE MCNetwork ------------------------------
(***************************************************************************)
(* The components below the sockets for TLC: the memberships of groups, the      *)
(* loopback queue, the ARP table and the reassembly of fragments.  They share   *)
(* nothing but the core lock, under which each handler is one step, so that a   *)
(* behaviour is of one of them, chosen in Init.                              *)
(***************************************************************************)
EXTENDS Igmp

VARIABLES part,
          traffic, queued, loop_cnt_current, polls, others, tcpip,
          arp_table, cached, refs, frames,
          reassdatagrams, pbufcount, out

Loop == INSTANCE NetifLoop WITH LWIP_LOOPBACK_MAX_PBUFS <- 10, Capacity <- 8

\* Two hosts that packets go to, the first also as the router to an address that is
\* far, and with two network cards over time; a third that only speaks.  Entries for
\* two of them.
Hosts == {"h1", "h2", "h3"}
NextHop == [h1 |-> "h1", h2 |-> "h2", h3 |-> "h3", far |-> "h1"]
EthsOf == [h1 |-> {"e1", "f1"}, h2 |-> {"e2"}, h3 |-> {"e3"}]
Packets == [to : {"h1", "h2", "far"}]

Arp == INSTANCE Etharp WITH TableSize <- 2, MaxAge <- 5, MaxPending <- 2, RerequestUsed <- 2,
                            sent <- frames

\* Three datagrams of four pbufs for two reassembly entries, and fewer pbufs than
\* all their fragments.  As on Ethernet, whole units of 8 bytes fill the links.
Reass == INSTANCE IpReass WITH Ids <- {"a", "b", "c"}, Length <- 28, Rooms <- {8, 24},
                               MaxPbufs <- 6, NumReassdata <- 2, MaxAge <- 2

loopVars == <<traffic, queued, loop_cnt_current, polls, others, tcpip>>
arpVars == <<arp_table, cached, refs, frames>>
reassVars == <<reassdatagrams, pbufcount, out>>
allVars == <<igmpVars, part, loopVars, arpVars, reassVars>>

\* Where Init leaves a choice, the parts that do not run make none.
NetInit ==
  /\ part \in {"loop", "arp", "reass", "groups"}
  /\ Init /\ Loop!Init /\ Arp!Init /\ Reass!Init
  /\ part # "loop" => ~traffic

GroupStep(A) == part = "groups" /\ A /\ UNCHANGED <<part, loopVars, arpVars, reassVars>>
LoopStep(A) == part = "loop" /\ A /\ UNCHANGED <<part, igmpVars, arpVars, reassVars>>
ArpStep(A) == part = "arp" /\ A /\ UNCHANGED <<part, igmpVars, loopVars, reassVars>>
ReassStep(A) == part = "reass" /\ A /\ UNCHANGED <<part, igmpVars, loopVars, arpVars>>

NetNext ==
  \/ GroupStep(Next) \/ LoopStep(Loop!Next) \/ ArpStep(Arp!Next) \/ ReassStep(Reass!Next)

\* The fairness of each component: as one of them runs, being fair to the disjunction
\* of what they ask for is being fair to the one that runs.
NetSpec ==
  /\ NetInit /\ [][NetNext]_allVars
  /\ SF_allVars(LoopStep(Loop!PollBegin))
  /\ WF_allVars(\/ LoopStep(Loop!TcpipStep)
                \/ ArpStep(Arp!etharp_tmr)
                \/ GroupStep(igmp_tmr))
-------------------------------------------------------------------------------
\* NetifLoop: queued packets are input.
QueueServed == part = "loop" => Loop!QueueServed

\* Etharp: one entry for an address, packets waiting on their own next hop only, one
\* reference for each, and none sent to an address that its next hop never had.
ArpQueues == Arp!QueuedOnce /\ Arp!RightHost

\* Etharp: no address stays pending.
ArpPendingEnds == part = "arp" => Arp!PendingEnds

\* IpReass: the pbufs of all datagrams are counted exactly, within their bound; NetifLoop:
\* queue, count and mailbox keep theirs.
PbufsCounted == Reass!PbufsCounted /\ Loop!TypeOK

\* IpReass: a datagram is passed on only when it is whole.
ReassDatagramWhole == Reass!DatagramWhole

\* Igmp: a delaying member reports or stops to be one.
GroupsDelayEnds == part = "groups" => DelayEnds
===============================================================================
