------------------------------- MODULE NetifLoop -------------------------------
(***************************************************************************)
(* The loopback queue of a network interface (netif.c): netif_loop_output   *)
(* appends a copy of the packet and, when the queue was empty, asks         *)
(* tcpip_thread with tcpip_try_callback to run netif_poll, which empties    *)
(* the queue into ip_input.  All of it runs with the core locked.           *)
(***************************************************************************)
EXTENDS Naturals

CONSTANTS LWIP_LOOPBACK_MAX_PBUFS,
          Capacity    \* messages tcpip_thread's mailbox holds

VARIABLES traffic,           \* whether other messages compete for the mailbox
          queued,            \* packets from loop_first to loop_last
          loop_cnt_current,  \* the interface's count of them
          polls,             \* netif_poll callbacks in the mailbox
          others,            \* other messages in the mailbox
          tcpip              \* tcpip_thread: "idle", in netif_poll ("poll"),
                             \* or in its ip_input ("input")

vars == <<traffic, queued, loop_cnt_current, polls, others, tcpip>>

Init ==
  /\ traffic \in BOOLEAN
  /\ queued = 0 /\ loop_cnt_current = 0
  /\ polls = 0 /\ others = 0
  /\ tcpip = "idle"

\* tcpip_try_callback: the caller of netif_loop_output does not look at its result.
tcpip_try_callback ==
  polls' = IF polls + others < Capacity THEN polls + 1 ELSE polls

\* Mutant: a poll is asked for only when the queue was not empty.
SchedulePollInverted == queued # 0

\* "No existing packets queued, schedule poll"
SchedulePoll == queued = 0

TooManyPbufs == loop_cnt_current + 1 > LWIP_LOOPBACK_MAX_PBUFS

\* Called by an application thread with the core locked, or by tcpip_thread from
\* within ip_input.  The copy is one PBUF_RAM pbuf; without one, or with too many
\* queued, the packet is dropped with ERR_MEM.
netif_loop_output ==
  /\ tcpip \in {"idle", "input"}
  /\ ~TooManyPbufs
  /\ queued' = queued + 1
  /\ loop_cnt_current' = loop_cnt_current + 1
  /\ IF SchedulePoll THEN tcpip_try_callback ELSE UNCHANGED polls
  /\ UNCHANGED <<traffic, others, tcpip>>

PollBegin ==
  /\ tcpip = "idle" /\ tcpip' = "poll"
  /\ polls > 0 /\ polls' = polls - 1
  /\ UNCHANGED <<traffic, queued, loop_cnt_current, others>>

\* One turn of the loop of netif_poll, up to ip_input.
PollTake ==
  /\ tcpip = "poll" /\ tcpip' = "input"
  /\ queued > 0 /\ queued' = queued - 1
  /\ loop_cnt_current' = loop_cnt_current - 1
  /\ UNCHANGED <<traffic, polls, others>>

InputReturn ==
  /\ tcpip = "input" /\ tcpip' = "poll"
  /\ UNCHANGED <<traffic, queued, loop_cnt_current, polls, others>>

PollReturn ==
  /\ tcpip = "poll" /\ tcpip' = "idle"
  /\ queued = 0
  /\ UNCHANGED <<traffic, queued, loop_cnt_current, polls, others>>

\* The rest of the mailbox's traffic.
OtherPost ==
  /\ traffic
  /\ polls + others < Capacity
  /\ others' = others + 1
  /\ UNCHANGED <<traffic, queued, loop_cnt_current, polls, tcpip>>

OtherHandle ==
  /\ tcpip = "idle"
  /\ others > 0 /\ others' = others - 1
  /\ UNCHANGED <<traffic, queued, loop_cnt_current, polls, tcpip>>

TcpipStep == PollBegin \/ PollTake \/ InputReturn \/ PollReturn \/ OtherHandle

Next == netif_loop_output \/ TcpipStep \/ OtherPost

Spec == Init /\ [][Next]_vars

\* tcpip_thread runs, and takes a poll from the mailbox though others come too.
FairSpec == Spec /\ WF_vars(TcpipStep) /\ SF_vars(PollBegin)

-----------------------------------------------------------------------------
(***************************************************************************)
(* Properties                                                               *)
(***************************************************************************)
\* What is assumed of the constants.
Constants == LWIP_LOOPBACK_MAX_PBUFS \in Nat \ {0} /\ Capacity \in Nat \ {0}

\* Type invariant: queue, count and mailbox keep their bounds.
TypeOK ==
  /\ Constants
  /\ traffic \in BOOLEAN
  /\ queued \in 0..LWIP_LOOPBACK_MAX_PBUFS
  /\ loop_cnt_current \in 0..LWIP_LOOPBACK_MAX_PBUFS
  /\ polls \in 0..Capacity /\ others \in 0..Capacity
  /\ tcpip \in {"idle", "poll", "input"}

\* "Packets passed to netif_loop_output() are put on a list that is passed to
\* netif->input() by netif_poll()" (netif.c:1193): while the mailbox has room for
\* a poll, queued packets are input and not left lying.
QueueServed == (~traffic /\ queued > 0) ~> (tcpip = "input")

=============================================================================
