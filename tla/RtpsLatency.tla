----------------------------- MODULE RtpsLatency -----------------------------
(***************************************************************************)
(* The round-trip measurement over embeddedRTPS (tests/performance): the    *)
(* main thread of MeasurementUnit publishes one change per sample and waits *)
(* for the responder's; measurementCallback runs in the thread of the RTPS  *)
(* reader.  The two share m_mutex, m_receivedResponse, m_times and m_start. *)
(* The writer's history may be full; the transport may lose a sample or     *)
(* deliver it late.                                                         *)
(*                                                                          *)
(* A sample is named by its position: <<message size, number>>.             *)
(***************************************************************************)
EXTENDS Naturals, FiniteSets

CONSTANTS NumSizes,      \* length of m_messageSizesInBytes
          m_numSamples,
          Faults         \* what may go wrong, a subset of AllFaults

\* An answer may come after the wait for it timed out, and newChange may return
\* nullptr because the history is full.
AllFaults == {"late", "history"}

VARIABLES faults,              \* what goes wrong in this behaviour
          m_mutex,             \* held: the main thread is inside it
          m_receivedResponse,
          m_start,             \* the sample whose start time m_start holds
          m_times,             \* durations: the sample answered, the start it was measured from
          net,                 \* samples on their way there ("request") or back ("answer")
          size, i,             \* loop variables of run and runWithSpecificSize
          main,                \* where the main thread is
          timedout,            \* its wait has timed out
          answered,            \* samples of this size whose wait saw a response
          cb,                  \* where measurementCallback is
          answer               \* the sample it was called for

loopVars == <<faults, size, i, answered>>
cbVars == <<cb, answer>>
vars == <<faults, m_mutex, m_receivedResponse, m_start, m_times, net, size, i, main,
          timedout, answered, cb, answer>>

Samples == (1..NumSizes) \X (1..m_numSamples)
NoSample == <<0, 0>>
At(from, to) == main = from /\ main' = to

Init ==
  /\ faults \in SUBSET Faults
  /\ m_mutex = FALSE
  /\ m_receivedResponse = FALSE
  /\ m_start = NoSample
  /\ m_times = {}
  /\ net = {}
  /\ size = 1 /\ i = 1
  /\ main = "start"
  /\ timedout = FALSE
  /\ answered = 0
  /\ cb = "idle" /\ answer = NoSample

(***************************************************************************)
(* run and runWithSpecificSize                                              *)
(***************************************************************************)
\* Mutant: the flag of the previous sample is kept.
StartKeepsFlag ==
  /\ At("start", "publish")
  /\ ~m_mutex /\ m_mutex' = TRUE
  /\ m_start' = <<size, i>>
  /\ timedout' = FALSE
  /\ UNCHANGED <<m_receivedResponse, m_times, net, loopVars, cbVars>>

Start ==
  /\ At("start", "publish")
  /\ ~m_mutex /\ m_mutex' = TRUE
  /\ m_receivedResponse' = FALSE
  /\ m_start' = <<size, i>>
  /\ timedout' = FALSE
  /\ UNCHANGED <<m_times, net, loopVars, cbVars>>

newChange ==
  /\ At("publish", "wait")
  /\ net' = net \cup {<<"request", <<size, i>>>>}
  /\ UNCHANGED <<m_mutex, m_receivedResponse, m_start, m_times, loopVars, timedout, cbVars>>

\* Mutant: m_mutex is still held when the loop is left.
HistoryFullKeepsLock ==
  /\ "history" \in faults
  /\ At("publish", "evaluate")
  /\ UNCHANGED <<m_mutex, m_receivedResponse, m_start, m_times, net, loopVars, timedout,
                 cbVars>>

\* "History full. Abort.": the loop is left and m_mutex with it.
HistoryFull ==
  /\ "history" \in faults
  /\ At("publish", "evaluate")
  /\ m_mutex' = FALSE
  /\ UNCHANGED <<m_receivedResponse, m_start, m_times, net, loopVars, timedout, cbVars>>

\* wait_for: with m_mutex held, the predicate is false and the time not over.
Wait ==
  /\ At("wait", "blocked")
  /\ ~m_receivedResponse /\ ~timedout
  /\ m_mutex' = FALSE
  /\ UNCHANGED <<m_receivedResponse, m_start, m_times, net, loopVars, timedout, cbVars>>

\* 2 s pass; unless answers may be late, they have then all arrived or got lost.
WaitTimeout ==
  /\ At("blocked", "relock")
  /\ "late" \in faults \/ (net = {} /\ cb = "idle")
  /\ timedout' = TRUE
  /\ UNCHANGED <<m_mutex, m_receivedResponse, m_start, m_times, net, loopVars, cbVars>>

\* A condition variable may wake its waiter for no reason.
WaitSpurious ==
  /\ At("blocked", "relock")
  /\ UNCHANGED <<m_mutex, m_receivedResponse, m_start, m_times, net, loopVars, timedout,
                 cbVars>>

WaitRelock ==
  /\ At("relock", "wait")
  /\ ~m_mutex /\ m_mutex' = TRUE
  /\ UNCHANGED <<m_receivedResponse, m_start, m_times, net, loopVars, timedout, cbVars>>

\* wait_for returns; the lock is dropped at the end of the loop body.
SampleEnd ==
  /\ main = "wait"
  /\ m_receivedResponse \/ timedout
  /\ m_mutex' = FALSE
  /\ answered' = IF m_receivedResponse THEN answered + 1 ELSE answered
  /\ i' = i + 1
  /\ main' = IF i < m_numSamples THEN "start" ELSE "evaluate"
  /\ UNCHANGED <<faults, m_receivedResponse, m_start, m_times, net, size, timedout, cbVars>>

\* evaluate, then prepare for the next message size.
Evaluate ==
  /\ main = "evaluate"
  /\ IF size < NumSizes
     THEN /\ main' = "start"
          /\ size' = size + 1 /\ i' = 1
          /\ m_times' = {} /\ answered' = 0
     ELSE /\ main' = "done"
          /\ UNCHANGED <<m_times, size, i, answered>>
  /\ UNCHANGED <<faults, m_mutex, m_receivedResponse, m_start, net, timedout, cbVars>>

MainStep ==
  \/ Start \/ newChange \/ HistoryFull \/ Wait \/ WaitTimeout \/ WaitRelock
  \/ SampleEnd \/ Evaluate

(***************************************************************************)
(* The responder, and a transport that may lose what it carries             *)
(***************************************************************************)
responderCallback(s) ==
  /\ <<"request", s>> \in net
  /\ net' = (net \ {<<"request", s>>}) \cup {<<"answer", s>>}
  /\ UNCHANGED <<m_mutex, m_receivedResponse, m_start, m_times, loopVars, main, timedout,
                 cbVars>>

Lose(p) ==
  /\ p \in net
  /\ net' = net \ {p}
  /\ UNCHANGED <<m_mutex, m_receivedResponse, m_start, m_times, loopVars, main, timedout,
                 cbVars>>

(***************************************************************************)
(* measurementCallback, in the reader's thread                              *)
(***************************************************************************)
CallbackPush(s) ==
  /\ cb = "idle" /\ cb' = "lock"
  /\ <<"answer", s>> \in net
  /\ net' = net \ {<<"answer", s>>}
  /\ answer' = s
  /\ m_times' = m_times \cup {[answer |-> s, start |-> m_start]}
  /\ UNCHANGED <<m_mutex, m_receivedResponse, m_start, loopVars, main, timedout>>

\* The guarded block: m_mutex is taken and released again.
CallbackSet ==
  /\ cb = "lock" /\ cb' = "notify"
  /\ ~m_mutex
  /\ m_receivedResponse' = TRUE
  /\ UNCHANGED <<m_mutex, m_start, m_times, net, loopVars, main, timedout, answer>>

CallbackNotify ==
  /\ cb = "notify" /\ cb' = "idle"
  /\ main' = IF main = "blocked" THEN "relock" ELSE main
  /\ answer' = NoSample
  /\ UNCHANGED <<m_mutex, m_receivedResponse, m_start, m_times, net, loopVars, timedout>>

CallbackStep ==
  \/ \E s \in Samples : CallbackPush(s)
  \/ CallbackSet
  \/ CallbackNotify

Next ==
  \/ MainStep
  \/ WaitSpurious
  \/ \E s \in Samples : responderCallback(s)
  \/ \E p \in net : Lose(p)
  \/ CallbackStep

Spec == Init /\ [][Next]_vars

\* Both threads are scheduled, no sample is on its way for ever, the deadline of
\* wait_for passes however often the wait is woken for no reason, and a callback
\* that waits for m_mutex gets it if it is free again and again.
FairSpec ==
  /\ Spec
  /\ WF_vars(MainStep)
  /\ SF_vars(WaitTimeout)
  /\ WF_vars(CallbackStep)
  /\ SF_vars(CallbackSet)
  /\ WF_vars(\E s \in Samples : responderCallback(s))

-----------------------------------------------------------------------------
(***************************************************************************)
(* Properties                                                               *)
(***************************************************************************)
\* Type invariant; m_mutex is held from the publication to the end of the wait.
TypeOK ==
  /\ faults \subseteq Faults
  /\ m_mutex \in BOOLEAN
  /\ m_receivedResponse \in BOOLEAN
  /\ m_start \in Samples \cup {NoSample}
  /\ m_times \subseteq [answer : Samples, start : Samples]
  /\ net \subseteq {"request", "answer"} \X Samples
  /\ size \in 1..NumSizes /\ i \in 1..(m_numSamples + 1)
  /\ main \in {"start", "publish", "wait", "blocked", "relock", "evaluate", "done"}
  /\ timedout \in BOOLEAN
  /\ answered \in 0..m_numSamples
  /\ cb \in {"idle", "lock", "notify"}
  /\ answer \in Samples \cup {NoSample}
  /\ m_mutex <=> main \in {"publish", "wait"}

\* A main thread that sleeps while m_receivedResponse is set is about to be
\* notified: the flag is reset, tested and set under m_mutex, so that no answer
\* slips in between the test and the sleep.
NoLostNotification ==
  /\ TypeOK
  /\ main = "blocked" /\ m_receivedResponse => cb = "notify"

\* The measurement ends, also with late answers and a full history: unlike the
\* raw lwIP test, the callback holds no lock of its own while it takes m_mutex.
RunCompletes == <>(main = "done")

\* While samples are lost but never late, each duration is measured from the
\* start of the sample it answers, and there is one for every answered sample.
OwnStart ==
  "late" \notin faults =>
    /\ \A t \in m_times : t.answer = t.start
    /\ answered <= Cardinality(m_times)

=============================================================================
