--------------------------- MODULE McastMeasurement ---------------------------
(***************************************************************************)
(* The multicast measurement (tests/multicast-performance): the main thread *)
(* of MulticastSender sends one packet per sample to all receivers and      *)
(* waits on a semaphore; responderCallback, in the thread of the RTPS       *)
(* reader, counts the responses and signals when the last one is in.  The   *)
(* RTPS library in between may lose packets and deliver them late.          *)
(*                                                                          *)
(* A packet carries the number of the sample but not the round: beside its  *)
(* id stands the sample it really belongs to, <<round, number>>, which only *)
(* the properties read.                                                     *)
(***************************************************************************)
EXTENDS Naturals, FiniteSets, Sequences, Functions

CONSTANTS Receivers,
          NUM_ROUNDS, NUM_SAMPLES,
          MaxLate      \* bound on late

ASSUME RoundsAssumption == NUM_ROUNDS \in Nat \ {0} /\ NUM_SAMPLES \in Nat \ {0}
ASSUME ReceiversAssumption == IsFiniteSet(Receivers) /\ Cardinality(Receivers) < 256
ASSUME LateAssumption == MaxLate \in Nat

VARIABLES late,               \* how often a wait ended before its responses were in
                              \* or lost, or a receiver went undiscovered
          k, i,               \* loop variables of run
          main,               \* where the main thread is
          numberOfPartners, numberOfResponses, currentId,   \* the first two: uint8_t
          m_time,             \* the sample whose start m_time holds
          m_rtimes,           \* the samples timed in this round
          m_sem,              \* the binary semaphore of the port
          net,                \* packets on their way
          cb,                 \* where responderCallback is
          mp,                 \* the packet it was called for
          counted             \* the responses counted since the last reset

loopVars == <<late, k, i>>
countVars == <<numberOfPartners, numberOfResponses, counted>>
cbVars == <<cb, mp>>
vars == <<late, k, i, main, numberOfPartners, numberOfResponses, currentId, m_time,
          m_rtimes, m_sem, net, cb, mp, counted>>

Samples == (1..NUM_ROUNDS) \X (0..(NUM_SAMPLES - 1))
NoSample == <<0, 0>>
Packet(type, r, sample) == [type |-> type, r |-> r, id |-> sample[2], sample |-> sample]
NoPacket == [type |-> "none", r |-> "none", id |-> 0, sample |-> NoSample]

Init ==
  /\ late = 0
  /\ k = 1 /\ i = 0
  /\ main = "init"
  /\ numberOfPartners = 0 /\ numberOfResponses = 0
  /\ currentId = 0
  /\ m_time = NoSample
  /\ m_rtimes = <<>>
  /\ m_sem = FALSE
  /\ net = {}
  /\ cb = "idle" /\ mp = NoPacket
  /\ counted = {}

(***************************************************************************)
(* run, in the main thread                                                  *)
(***************************************************************************)
\* newChange sends to all receivers; what gets lost is lost underway.
Multicast(type, sample) == net' = net \cup {Packet(type, r, sample) : r \in Receivers}

\* Whatever was sent has been answered and counted, or lost.
Quiet == net = {} /\ cb = "idle"

\* What happens only in a network that is late counts as such.
LateUnless(prompt) ==
  IF prompt THEN UNCHANGED late ELSE late < MaxLate /\ late' = late + 1

sendInitPacket ==
  /\ main = "init" /\ main' = "partners"
  /\ numberOfPartners' = 0 /\ numberOfResponses' = 0
  /\ Multicast("init", NoSample)
  /\ UNCHANGED <<loopVars, currentId, m_time, m_rtimes, m_sem, cbVars, counted>>

\* The 5 s for the partners to answer are over.
InitDone ==
  /\ main = "partners" /\ main' = "clear"
  /\ LateUnless(Quiet)
  /\ UNCHANGED <<k, i, countVars, currentId, m_time, m_rtimes, m_sem, net, cbVars>>

\* Mutant: the times of the previous round stay.
ClearTimesNot ==
  /\ main = "clear" /\ main' = "reset"
  /\ UNCHANGED <<loopVars, countVars, currentId, m_time, m_rtimes, m_sem, net, cbVars>>

ClearTimes ==
  /\ main = "clear" /\ main' = "reset"
  /\ m_rtimes' = <<>>
  /\ UNCHANGED <<loopVars, countVars, currentId, m_time, m_sem, net, cbVars>>

ResetResponses ==
  /\ main = "reset" /\ main' = "time"
  /\ numberOfResponses' = 0
  /\ counted' = {}
  /\ UNCHANGED <<loopVars, numberOfPartners, currentId, m_time, m_rtimes, m_sem, net,
                 cbVars>>

start_time ==
  /\ main = "time" /\ main' = "send"
  /\ m_time' = <<k, i>>
  /\ UNCHANGED <<loopVars, countVars, currentId, m_rtimes, m_sem, net, cbVars>>

buildAndSendPacket(index) ==
  /\ main = "send" /\ main' = "wait"
  /\ currentId' = index
  /\ Multicast("send", <<k, index>>)
  /\ UNCHANGED <<loopVars, countVars, m_time, m_rtimes, m_sem, cbVars>>

\* The next sample; after the last one evaluate prints, and the next round begins.
NextSample ==
  IF i + 1 < NUM_SAMPLES
  THEN i' = i + 1 /\ main' = "reset" /\ UNCHANGED k
  ELSE IF k < NUM_ROUNDS
       THEN k' = k + 1 /\ i' = 0 /\ main' = "clear"
       ELSE main' = "done" /\ UNCHANGED <<k, i>>

\* sys_arch_sem_wait(&m_sem, 2000)
WaitSignalled ==
  /\ main = "wait"
  /\ m_sem /\ m_sem' = FALSE
  /\ NextSample
  /\ UNCHANGED <<late, countVars, currentId, m_time, m_rtimes, net, cbVars>>

\* The wait gives up, even beside a token that comes at that moment: the port
\* returns SYS_ARCH_TIMEOUT without another look at the count.
WaitTimeout ==
  /\ main = "wait"
  /\ LateUnless(Quiet /\ ~m_sem)
  /\ NextSample
  /\ UNCHANGED <<countVars, currentId, m_time, m_rtimes, m_sem, net, cbVars>>

MainStep ==
  \/ sendInitPacket \/ InitDone \/ ClearTimes \/ ResetResponses \/ start_time
  \/ buildAndSendPacket(i) \/ WaitSignalled \/ WaitTimeout

(***************************************************************************)
(* MulticastReceiver, and a network that may lose what it carries           *)
(***************************************************************************)
ResponseType(type) == IF type = "init" THEN "partner" ELSE "response"

sendResponse(p) ==
  /\ p \in net /\ p.type \in {"init", "send"}
  /\ net' = (net \ {p}) \cup {[p EXCEPT !.type = ResponseType(p.type)]}
  /\ UNCHANGED <<loopVars, main, countVars, currentId, m_time, m_rtimes, m_sem, cbVars>>

Lose(p) ==
  /\ p \in net
  /\ LateUnless(p.type \in {"send", "response"})
  /\ net' = net \ {p}
  /\ UNCHANGED <<k, i, main, countVars, currentId, m_time, m_rtimes, m_sem, cbVars>>

(***************************************************************************)
(* responderCallback, in the reader's thread                                *)
(***************************************************************************)
CallbackPartner(p) ==
  /\ cb = "idle"
  /\ p \in net /\ p.type = "partner"
  /\ net' = net \ {p}
  /\ numberOfPartners' = (numberOfPartners + 1) % 256
  /\ UNCHANGED <<loopVars, main, numberOfResponses, currentId, m_time, m_rtimes, m_sem,
                 cbVars, counted>>

\* The id is compared without m_mutex.
CallbackResponse(p) ==
  /\ cb = "idle"
  /\ p \in net /\ p.type = "response"
  /\ net' = net \ {p}
  /\ IF p.id = currentId THEN cb' = "count" /\ mp' = p ELSE UNCHANGED cbVars
  /\ UNCHANGED <<loopVars, main, countVars, currentId, m_time, m_rtimes, m_sem>>

\* Mutant: the first response ends the sample.
CallbackCountFirst ==
  /\ cb = "count" /\ mp' = NoPacket
  /\ numberOfResponses' = (numberOfResponses + 1) % 256
  /\ counted' = counted \cup {mp}
  /\ m_rtimes' = Append(m_rtimes, m_time)
  /\ cb' = "signal"
  /\ UNCHANGED <<loopVars, main, numberOfPartners, currentId, m_time, m_sem, net>>

\* With m_mutex: the last response adds the time of the sample.
CallbackCount ==
  /\ cb = "count" /\ mp' = NoPacket
  /\ numberOfResponses' = (numberOfResponses + 1) % 256
  /\ counted' = counted \cup {mp}
  /\ IF numberOfResponses' = numberOfPartners
     THEN m_rtimes' = Append(m_rtimes, m_time) /\ cb' = "signal"
     ELSE cb' = "idle" /\ UNCHANGED m_rtimes
  /\ UNCHANGED <<loopVars, main, numberOfPartners, currentId, m_time, m_sem, net>>

CallbackSignal ==
  /\ cb = "signal" /\ cb' = "idle"
  /\ m_sem' = TRUE
  /\ UNCHANGED <<loopVars, main, countVars, currentId, m_time, m_rtimes, net, mp>>

CallbackStep ==
  \/ \E p \in net : CallbackPartner(p) \/ CallbackResponse(p)
  \/ CallbackCount
  \/ CallbackSignal

Next ==
  \/ MainStep
  \/ CallbackStep
  \/ \E p \in net : sendResponse(p) \/ Lose(p)

Spec == Init /\ [][Next]_vars

\* The threads run on and no packet is on its way for ever.
FairSpec ==
  /\ Spec
  /\ WF_vars(MainStep)
  /\ WF_vars(CallbackStep)
  /\ WF_vars(\E p \in net : sendResponse(p))

-----------------------------------------------------------------------------
(***************************************************************************)
(* Properties                                                               *)
(***************************************************************************)
\* Type invariant: in particular no more partners are counted than receivers exist.
TypeOK ==
  /\ late \in Nat
  /\ k \in 1..NUM_ROUNDS /\ i \in 0..(NUM_SAMPLES - 1)
  /\ main \in {"init", "partners", "clear", "reset", "time", "send", "wait", "done"}
  /\ numberOfPartners \in 0..Cardinality(Receivers)
  /\ numberOfResponses \in 0..255
  /\ currentId \in 0..(NUM_SAMPLES - 1)
  /\ m_time \in Samples \cup {NoSample}
  /\ m_rtimes \in Seq(Samples)
  /\ m_sem \in BOOLEAN
  /\ net \subseteq [type : {"init", "partner", "send", "response"}, r : Receivers,
                    id : 0..(NUM_SAMPLES - 1), sample : Samples \cup {NoSample}]
  /\ cb \in {"idle", "count", "signal"}
  /\ mp = NoPacket \/ mp.type = "response"
  /\ \A p \in counted : p.type = "response"

\* The run ends whatever is lost or late: the wait of each sample has a timeout,
\* and responderCallback signals without holding m_mutex.
RunCompletes == <>(main = "done")

\* While no response is late, the semaphore is signalled for a sample only when
\* every partner has answered that very sample.  (The ids start again in every
\* round, so that a response "delayed from prev round", McastSender.cpp:107, can
\* have the current id.)
SampleComplete ==
  /\ TypeOK
  /\ late = 0 /\ cb = "signal" =>
       /\ Cardinality(counted) = numberOfPartners
       /\ \A p \in counted : p.sample = <<k, i>>

\* While no response is late, no token is left over from an earlier sample that
\* would end the next one at once, and evaluate gets the times of its own round,
\* each sample at most once.
RoundTimes ==
  late = 0 =>
    /\ main \in {"clear", "reset", "time", "send"} => ~m_sem
    /\ IsInjective(m_rtimes)
    /\ main # "clear" => \A n \in DOMAIN m_rtimes : m_rtimes[n] \in {k} \X (0..i)

=============================================================================
