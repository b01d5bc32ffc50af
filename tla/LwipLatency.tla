----------------------------- MODULE LwipLatency -----------------------------
(***************************************************************************)
(* The round-trip measurement over raw lwIP UDP (tests/lwip_performance):   *)
(* the main thread of LwipMeasurementUnit sends one datagram per sample and *)
(* waits for the answer; measurementCallback runs in tcpip_thread, with the *)
(* core locked.  The two share m_mutex, the core lock, m_times, m_start and *)
(* the pool of packet buffers.  The responder and the network in between    *)
(* may lose an answer or deliver it late.                                   *)
(*                                                                          *)
(* A sample is named by its position: <<message size, number>>.             *)
(***************************************************************************)
EXTENDS Naturals, FiniteSets

CONSTANTS NumSizes,      \* length of m_messageSizesInBytes
          m_numSamples,
          PoolSize,      \* PBUF_POOL_SIZE
          Faults         \* what may go wrong, a subset of AllFaults

\* An answer may come after the wait for it timed out, and udp_sendto and
\* udp_bind may return an error.
AllFaults == {"late", "sendto", "bind"}

VARIABLES faults,              \* what goes wrong in this behaviour
          m_mutex,             \* holder of m_mutex: "main" or "none"
          core,                \* holder of the core lock: "main", "tcpip" or "none"
          m_receivedResponse,
          m_start,             \* the sample whose start time m_start holds
          m_times,             \* durations: the sample answered, the start it was measured from
          pool,                \* free packet buffers
          requests, responses, \* samples whose datagram is on its way
          size, i,             \* loop variables of run and runWithSpecificSize
          main,                \* where the main thread is
          timedout,            \* its wait has timed out
          answered,            \* samples of this size whose wait saw a response
          cb,                  \* where measurementCallback is
          answer               \* the sample it was called for

lockVars == <<faults, m_mutex, core>>
netVars == <<requests, responses>>
loopVars == <<size, i, answered>>
vars == <<faults, m_mutex, core, m_receivedResponse, m_start, m_times, pool, requests, responses,
          size, i, main, timedout, answered, cb, answer>>

Samples == (1..NumSizes) \X (1..m_numSamples)
NoSample == <<0, 0>>
At(from, to) == main = from /\ main' = to

Init ==
  /\ faults \in SUBSET Faults
  /\ m_mutex = "none" /\ core = "none"
  /\ m_receivedResponse = FALSE
  /\ m_start = NoSample
  /\ m_times = {}
  /\ pool = PoolSize
  /\ requests = {} /\ responses = {}
  /\ size = 1 /\ i = 1
  /\ main = "new"
  /\ timedout = FALSE
  /\ answered = 0
  /\ cb = "idle" /\ answer = NoSample

(***************************************************************************)
(* The main thread: the constructor, then run                               *)
(***************************************************************************)
\* prepareLWIP; the return on a bind error leaves the core locked.
prepareLWIP ==
  /\ At("new", "alloc")
  /\ core = "none"
  /\ \/ UNCHANGED core
     \/ "bind" \in faults /\ core' = "main"
  /\ UNCHANGED <<faults, m_mutex, m_receivedResponse, m_start, m_times, pool, netVars, loopVars,
                 timedout, cb, answer>>

\* pbuf_alloc and the pause.  Without a free buffer udp_sendto is called with
\* NULL, refuses it, and the error message reads through the null pointer.
Alloc ==
  /\ \/ At("alloc", "lock") /\ pool > 0 /\ pool' = pool - 1
     \/ At("alloc", "crashed") /\ pool = 0 /\ UNCHANGED pool
  /\ UNCHANGED <<lockVars, m_receivedResponse, m_start, m_times, netVars, loopVars,
                 timedout, cb, answer>>

Start ==
  /\ At("lock", "core")
  /\ m_mutex = "none"
  /\ m_mutex' = "main"
  /\ m_receivedResponse' = FALSE
  /\ m_start' = <<size, i>>
  /\ timedout' = FALSE
  /\ UNCHANGED <<faults, core, m_times, pool, netVars, loopVars, cb, answer>>

LOCK_TCPIP_CORE ==
  /\ At("core", "send")
  /\ core = "none"
  /\ core' = "main"
  /\ UNCHANGED <<faults, m_mutex, m_receivedResponse, m_start, m_times, pool, netVars, loopVars,
                 timedout, cb, answer>>

\* udp_sendto and UNLOCK_TCPIP_CORE; the network may lose the datagram at once.
Send ==
  /\ At("send", "wait")
  /\ core' = "none"
  /\ \/ requests' = requests \cup {<<size, i>>}
     \/ UNCHANGED requests
  /\ UNCHANGED <<faults, m_mutex, m_receivedResponse, m_start, m_times, pool, responses, loopVars,
                 timedout, cb, answer>>

\* The loop step: another sample, or evaluate when this was the last one.
NextSample(from) ==
  /\ main = from
  /\ i' = i + 1
  /\ main' = IF i < m_numSamples THEN "alloc" ELSE "evaluate"
  /\ UNCHANGED size

\* The error path continues with the next sample and keeps the buffer.
SendError ==
  /\ "sendto" \in faults
  /\ NextSample("send")
  /\ core' = "none"
  /\ m_mutex' = "none"
  /\ UNCHANGED <<faults, m_receivedResponse, m_start, m_times, pool, netVars, timedout,
                 answered, cb, answer>>

\* wait_for: with m_mutex held, the predicate is false and the time not over.
Wait ==
  /\ At("wait", "blocked")
  /\ ~m_receivedResponse /\ ~timedout
  /\ m_mutex' = "none"
  /\ UNCHANGED <<faults, core, m_receivedResponse, m_start, m_times, pool, netVars, loopVars,
                 timedout, cb, answer>>

\* 5 s pass; unless answers may be late, they have then all arrived or got lost.
WaitTimeout ==
  /\ At("blocked", "relock")
  /\ "late" \in faults \/ (requests = {} /\ responses = {} /\ cb = "idle")
  /\ timedout' = TRUE
  /\ UNCHANGED <<lockVars, m_receivedResponse, m_start, m_times, pool, netVars, loopVars,
                 cb, answer>>

\* A condition variable may wake its waiter for no reason.
WaitSpurious ==
  /\ At("blocked", "relock")
  /\ UNCHANGED <<lockVars, m_receivedResponse, m_start, m_times, pool, netVars, loopVars,
                 timedout, cb, answer>>

WaitRelock ==
  /\ At("relock", "wait")
  /\ m_mutex = "none"
  /\ m_mutex' = "main"
  /\ UNCHANGED <<faults, core, m_receivedResponse, m_start, m_times, pool, netVars, loopVars,
                 timedout, cb, answer>>

\* wait_for returns; the flag is set, the buffer freed and the lock dropped.
SampleEnd ==
  /\ NextSample("wait")
  /\ m_receivedResponse \/ timedout
  /\ answered' = IF m_receivedResponse THEN answered + 1 ELSE answered
  /\ m_receivedResponse' = TRUE
  /\ pool' = pool + 1
  /\ m_mutex' = "none"
  /\ UNCHANGED <<faults, core, m_start, m_times, netVars, timedout, cb, answer>>

\* evaluate, then prepare for the next message size.
Evaluate ==
  /\ main = "evaluate"
  /\ IF size < NumSizes
     THEN /\ main' = "alloc"
          /\ size' = size + 1 /\ i' = 1
          /\ m_times' = {} /\ answered' = 0
     ELSE /\ main' = "done"
          /\ UNCHANGED <<size, i, m_times, answered>>
  /\ UNCHANGED <<lockVars, m_receivedResponse, m_start, pool, netVars, timedout, cb, answer>>

MainStep ==
  \/ prepareLWIP \/ Alloc \/ Start \/ LOCK_TCPIP_CORE \/ Send \/ SendError
  \/ Wait \/ WaitTimeout \/ WaitRelock \/ SampleEnd \/ Evaluate

(***************************************************************************)
(* The responder (responderCallback) and the network                        *)
(***************************************************************************)
Respond(s) ==
  /\ s \in requests
  /\ requests' = requests \ {s}
  /\ \/ responses' = responses \cup {s}
     \/ UNCHANGED responses             \* the send failed, or a datagram was lost
  /\ UNCHANGED <<lockVars, m_receivedResponse, m_start, m_times, pool, size, i, main,
                 timedout, answered, cb, answer>>

\* low_level_input: the driver drops a datagram when there is no buffer for it.
HasBuffer == pool > 0

\* tcpip_thread, with the core locked, hands a received datagram to udp_input, which
\* calls the callback of the PCB.
Deliver(s) ==
  /\ cb = "idle" /\ s \in responses
  /\ responses' = responses \ {s}
  /\ IF HasBuffer
     THEN /\ core = "none"
          /\ core' = "tcpip"
          /\ pool' = pool - 1
          /\ cb' = "push" /\ answer' = s
     ELSE UNCHANGED <<core, pool, cb, answer>>
  /\ UNCHANGED <<faults, m_mutex, m_receivedResponse, m_start, m_times, requests, size, i, main,
                 timedout, answered>>

(***************************************************************************)
(* measurementCallback                                                      *)
(***************************************************************************)
CallbackPush ==
  /\ cb = "push" /\ cb' = "lock"
  /\ m_times' = m_times \cup {[answer |-> answer, start |-> m_start]}
  /\ UNCHANGED <<lockVars, m_receivedResponse, m_start, pool, netVars, size, i, main,
                 timedout, answered, answer>>

\* The guarded block: m_mutex is taken and released again.
CallbackSet ==
  /\ cb = "lock" /\ cb' = "notify"
  /\ m_mutex = "none"
  /\ m_receivedResponse' = TRUE
  /\ pool' = pool + 1
  /\ UNCHANGED <<lockVars, m_start, m_times, netVars, size, i, main, timedout, answered,
                 answer>>

\* Mutant: nobody is notified.
CallbackNotifyNone ==
  /\ cb = "notify" /\ cb' = "return"
  /\ UNCHANGED <<lockVars, m_receivedResponse, m_start, m_times, pool, netVars, size, i,
                 main, timedout, answered, answer>>

CallbackNotify ==
  /\ cb = "notify" /\ cb' = "return"
  /\ main' = IF main = "blocked" THEN "relock" ELSE main
  /\ UNCHANGED <<lockVars, m_receivedResponse, m_start, m_times, pool, netVars, size, i,
                 timedout, answered, answer>>

\* Back in tcpip_thread, which releases the core before it waits for the next message.
CallbackReturn ==
  /\ cb = "return" /\ cb' = "idle"
  /\ core' = "none"
  /\ answer' = NoSample
  /\ UNCHANGED <<faults, m_mutex, m_receivedResponse, m_start, m_times, pool, netVars, size, i,
                 main, timedout, answered>>

TcpipStep ==
  \/ \E s \in responses : Deliver(s)
  \/ CallbackPush \/ CallbackSet \/ CallbackNotify \/ CallbackReturn

Next ==
  \/ MainStep
  \/ WaitSpurious
  \/ \E s \in requests : Respond(s)
  \/ TcpipStep

Spec == Init /\ [][Next]_vars

\* Both threads are scheduled, what the network carries it delivers or loses, the
\* deadline of wait_for passes however often the wait is woken for no reason, and
\* a callback that waits for m_mutex gets it if it is free again and again.
FairSpec ==
  /\ Spec
  /\ SF_vars(WaitTimeout)
  /\ SF_vars(CallbackSet)
  /\ WF_vars(MainStep)
  /\ WF_vars(TcpipStep)
  /\ WF_vars(\E s \in requests : Respond(s))

-----------------------------------------------------------------------------
(***************************************************************************)
(* Properties                                                               *)
(***************************************************************************)
\* What is assumed of the constants.
Constants ==
  /\ NumSizes \in Nat \ {0} /\ m_numSamples \in Nat \ {0} /\ PoolSize \in Nat \ {0}
  /\ Faults \subseteq AllFaults

\* Type invariant: in particular the buffer pool neither underflows nor grows.
TypeOK ==
  /\ Constants
  /\ faults \subseteq Faults
  /\ m_mutex \in {"main", "none"}
  /\ core \in {"main", "tcpip", "none"}
  /\ m_receivedResponse \in BOOLEAN
  /\ m_start \in Samples \cup {NoSample}
  /\ m_times \subseteq [answer : Samples, start : Samples]
  /\ pool \in 0..PoolSize
  /\ requests \subseteq Samples /\ responses \subseteq Samples
  /\ size \in 1..NumSizes /\ i \in 1..(m_numSamples + 1)
  /\ main \in {"new", "alloc", "lock", "core", "send", "wait", "blocked", "relock",
               "evaluate", "done", "crashed"}
  /\ timedout \in BOOLEAN
  /\ answered \in 0..m_numSamples
  /\ cb \in {"idle", "push", "lock", "notify", "return"}
  /\ answer \in Samples \cup {NoSample}

\* A main thread that sleeps while m_receivedResponse is set is about to be
\* notified: the flag is reset, tested and set under m_mutex, so that no answer
\* slips in between the test and the sleep.
NoLostNotification == (main = "blocked" /\ m_receivedResponse) => cb = "notify"

\* Every sample whose wait ended with a response has left its duration in
\* m_times, although m_times is cleared, filled and read without m_mutex: the
\* callback holds the core lock from its push_back until it has set the flag,
\* and the main thread cannot reach its wait without that lock.  While datagrams
\* are lost but never late, it is measured from the start of that very sample.
AnsweredMeasured ==
  /\ answered <= Cardinality(m_times)
  /\ "late" \notin faults => \A t \in m_times : t.answer = t.start

\* While udp_sendto does not fail, every packet buffer is free, held by the main
\* thread's sample, or held by the callback.
BuffersReturned ==
  /\ TypeOK
  /\ "sendto" \notin faults =>
       pool + (IF main \in {"lock", "core", "send", "wait", "blocked", "relock"}
               THEN 1 ELSE 0)
            + (IF cb \in {"push", "lock"} THEN 1 ELSE 0) = PoolSize

\* While nothing but datagrams gets lost, the measurement ends.
RunCompletes == faults = {} ~> main = "done"

\* "Received response was already signalized" (LwipMeasurementUnit.cpp:67): an
\* answer that comes after its wait was over is reported, and the measurement
\* goes on to its end.
LateRunCompletes == faults \subseteq {"late"} ~> main = "done"

=============================================================================
