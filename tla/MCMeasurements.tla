---------------------------- MODULE MCMeasurements ----------------------------
(***************************************************************************)
(* The latency measurements for TLC.  They share no state, so that a behaviour  *)
(* is of one of them, chosen in Init.                                        *)
(***************************************************************************)
EXTENDS McastMeasurement

VARIABLES part,
          faults, m_mutex, core, m_receivedResponse, m_start, m_times, pool, requests,
          responses, wire, size, n, at, timedout, answered, callback, answer

\* The multicast measurement where something is late: a response of an earlier round,
\* which has the id of a later one, and one of an earlier sample.
Rounds == INSTANCE McastMeasurement WITH NUM_ROUNDS <- 2, NUM_SAMPLES <- 1, MaxLate <- 1
Ids == INSTANCE McastMeasurement WITH NUM_ROUNDS <- 1, NUM_SAMPLES <- 2, MaxLate <- 1

\* The two others are alternatives of one another, with variables of the same names.
Lwip == INSTANCE LwipLatency
          WITH NumSizes <- 2, m_numSamples <- 2, PoolSize <- 2,
               Faults <- {"late", "sendto", "bind"}, main <- at, cb <- callback, i <- n
Rtps == INSTANCE RtpsLatency
          WITH NumSizes <- 2, m_numSamples <- 2, Faults <- {"late", "history"},
               main <- at, cb <- callback, i <- n, net <- wire

lwipVars == <<core, pool, requests, responses>>
bothVars == <<faults, m_mutex, m_receivedResponse, m_start, m_times, size, n, at, timedout,
              answered, callback, answer>>
allVars == <<part, vars, lwipVars, wire, bothVars>>

\* Where Init leaves a choice, the parts that do not run make none.
MeasurementsInit ==
  /\ part \in {"mcast", "rounds", "ids", "lwip", "rtps"} /\ Init
  /\ core = "none" /\ pool = 2 /\ requests = {} /\ responses = {} /\ wire = {}
  /\ IF part = "rtps" THEN Rtps!Init ELSE Lwip!Init
  /\ part \notin {"lwip", "rtps"} => faults = {}

Mc(p, A) == part = p /\ A /\ UNCHANGED <<part, lwipVars, wire, bothVars>>
Lw(A) == part = "lwip" /\ A /\ UNCHANGED <<part, vars, wire>>
Rt(A) == part = "rtps" /\ A /\ UNCHANGED <<part, vars, lwipVars>>

MeasurementsNext ==
  \/ Mc("mcast", Next) \/ Mc("rounds", Rounds!Next) \/ Mc("ids", Ids!Next)
  \/ Lw(Lwip!Next) \/ Rt(Rtps!Next)

\* The fairness of all: as one of them runs, being fair to the disjunction of what
\* they ask for is being fair to the one that runs.
MeasurementsSpec ==
  /\ MeasurementsInit /\ [][MeasurementsNext]_allVars
  /\ SF_allVars(Lw(Lwip!WaitTimeout) \/ Rt(Rtps!WaitTimeout))
  /\ SF_allVars(Lw(Lwip!CallbackSet) \/ Rt(Rtps!CallbackSet))
  /\ WF_allVars(\/ Lw(Lwip!MainStep) \/ Rt(Rtps!MainStep)
                \/ Mc("mcast", MainStep) \/ Mc("rounds", Rounds!MainStep)
                \/ Mc("ids", Ids!MainStep))
  /\ WF_allVars(\/ Lw(Lwip!TcpipStep) \/ Rt(Rtps!CallbackStep)
                \/ \E p \in {"mcast", "rounds", "ids"} : Mc(p, CallbackStep))
  /\ WF_allVars(\/ Lw(\E s \in requests : Lwip!Respond(s))
                \/ Rt(\E s \in Rtps!Samples : Rtps!responderCallback(s))
                \/ \E p \in {"mcast", "rounds", "ids"} : Mc(p, \E q \in net : sendResponse(q)))
-------------------------------------------------------------------------------
\* LwipLatency and RtpsLatency: no answer slips in between test and sleep.
AnswersNotified ==
  IF part = "rtps" THEN Rtps!NoLostNotification ELSE Lwip!NoLostNotification

\* LwipLatency and RtpsLatency: an answered sample has a duration, measured from its own
\* start while nothing is late; LwipLatency gives its packet buffers back.
AnswersMeasured ==
  IF part = "rtps" THEN Rtps!OwnStart ELSE Lwip!AnsweredMeasured /\ Lwip!BuffersReturned

\* Each measurement ends, for LwipLatency while nothing but datagrams gets lost.
RunsComplete ==
  <>(IF part \in {"lwip", "rtps"} THEN at = "done" \/ (part = "lwip" /\ faults # {})
     ELSE main = "done")
===============================================================================
