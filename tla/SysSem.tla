-------------------------------- MODULE SysSem --------------------------------
(***************************************************************************)
(* The semaphore of the Unix port (sys_arch.c): a count guarded by a        *)
(* pthread mutex, and a condition variable.  Time is counted in ticks; it   *)
(* passes only while every thread is idle or blocked.                       *)
(***************************************************************************)
EXTENDS Naturals, FiniteSets

CONSTANTS Waiters,     \* threads that call sys_arch_sem_wait
          Signallers,  \* threads that call sys_sem_signal
          Timeouts,    \* timeout arguments of the waiters, 0 meaning forever
          Spurious,    \* TRUE: pthread_cond_wait may return without a signal
          MaxTicks     \* bound on the clock

VARIABLES c,         \* the count
          owner,     \* holder of sem->mutex, or "free"
          pc,        \* pc[t]: where thread t is
          timeout,   \* timeout[t]: argument of the current wait
          deadline,  \* deadline[t]: end of the current pthread_cond_timedwait
          called,    \* called[t]: the time the current wait was called
          now        \* the monotonic clock

vars == <<c, owner, pc, timeout, deadline, called, now>>
times == <<timeout, deadline, called, now>>

Threads == Waiters \cup Signallers
Free == "free"
Returned == {"taken", "timeout", "signalled"}

Goto(t, from, to) == pc[t] = from /\ pc' = [pc EXCEPT ![t] = to]
Take(t) == owner = Free /\ owner' = t
Drop(t) == owner = t /\ owner' = Free

\* sys_sem_new(count)
Init ==
  /\ c \in {0, 1}
  /\ owner = Free
  /\ pc = [t \in Threads |-> "idle"]
  /\ timeout = [t \in Threads |-> 0]
  /\ deadline = [t \in Threads |-> 0]
  /\ called = [t \in Threads |-> 0]
  /\ now = 0

StartWait(t) ==
  /\ Goto(t, "idle", "w_lock")
  /\ \E d \in Timeouts : timeout' = [timeout EXCEPT ![t] = d]
  /\ called' = [called EXCEPT ![t] = now]
  /\ UNCHANGED <<c, owner, deadline, now>>

WaitLock(t) ==
  /\ Goto(t, "w_lock", "w_test")
  /\ Take(t)
  /\ UNCHANGED <<c, times>>

WaitTake(t) ==
  /\ Goto(t, "w_test", "w_unlock")
  /\ c > 0
  /\ c' = c - 1
  /\ UNCHANGED <<owner, times>>

\* Mutant: the timeout is taken for a point in time.
WaitBlockAbsolute(t) ==
  /\ Goto(t, "w_test", "w_asleep")
  /\ c <= 0
  /\ Drop(t)
  /\ deadline' = [deadline EXCEPT ![t] = timeout[t]]
  /\ UNCHANGED <<c, timeout, called, now>>

\* while (sem->c <= 0): cond_wait releases the mutex and sleeps in one step,
\* with the whole timeout counted again from now.
WaitBlock(t) ==
  /\ Goto(t, "w_test", "w_asleep")
  /\ c <= 0
  /\ Drop(t)
  /\ deadline' = [deadline EXCEPT ![t] = now + timeout[t]]
  /\ UNCHANGED <<c, timeout, called, now>>

\* pthread_cond_timedwait returns ETIMEDOUT, with the mutex again.
WaitExpire(t) ==
  /\ Goto(t, "w_asleep", "w_expired")
  /\ timeout[t] > 0 /\ now >= deadline[t]
  /\ UNCHANGED <<c, owner, times>>

SpuriousWake(t) ==
  /\ Spurious
  /\ Goto(t, "w_asleep", "w_lock")
  /\ UNCHANGED <<c, owner, times>>

\* Mutant: the result of cond_wait is not looked at.
WaitGiveUpUnseen(t) ==
  /\ Goto(t, "w_expired", "w_unlock")
  /\ Take(t)
  /\ UNCHANGED <<c, times>>

WaitGiveUp(t) ==
  /\ Goto(t, "w_expired", "w_timeout")
  /\ Take(t)
  /\ UNCHANGED <<c, times>>

WaitUnlock(t) ==
  /\ Goto(t, "w_unlock", "taken") \/ Goto(t, "w_timeout", "timeout")
  /\ Drop(t)
  /\ UNCHANGED <<c, times>>

StartSignal(t) ==
  /\ Goto(t, "idle", "s_lock")
  /\ UNCHANGED <<c, owner, times>>

SignalLock(t) ==
  /\ Goto(t, "s_lock", "s_count")
  /\ Take(t)
  /\ UNCHANGED <<c, times>>

SignalCount(t) ==
  /\ Goto(t, "s_count", "s_broadcast")
  /\ c' = IF c + 1 > 1 THEN 1 ELSE c + 1
  /\ UNCHANGED <<owner, times>>

\* Mutant: nobody is woken.
SignalBroadcastNone(t) ==
  /\ Goto(t, "s_broadcast", "s_unlock")
  /\ UNCHANGED <<c, owner, times>>

\* pthread_cond_broadcast: every sleeper goes for the mutex.
SignalBroadcast(t) ==
  /\ pc[t] = "s_broadcast"
  /\ pc' = [u \in Threads |-> IF u = t THEN "s_unlock"
                              ELSE IF pc[u] = "w_asleep" THEN "w_lock"
                              ELSE pc[u]]
  /\ UNCHANGED <<c, owner, times>>

SignalUnlock(t) ==
  /\ Goto(t, "s_unlock", "signalled")
  /\ Drop(t)
  /\ UNCHANGED <<c, times>>

\* The call returns and its local variables go out of scope.
Return(t) ==
  /\ \E r \in Returned : Goto(t, r, "idle")
  /\ timeout' = [timeout EXCEPT ![t] = 0]
  /\ deadline' = [deadline EXCEPT ![t] = 0]
  /\ called' = [called EXCEPT ![t] = 0]
  /\ UNCHANGED <<c, owner, now>>

\* A millisecond passes while nobody can run.
Tick ==
  /\ now < MaxTicks
  /\ \A t \in Threads :
       \/ pc[t] = "idle"
       \/ pc[t] = "w_asleep" /\ (timeout[t] = 0 \/ now < deadline[t])
  /\ now' = now + 1
  /\ UNCHANGED <<c, owner, pc, timeout, deadline, called>>

WaitStep(t) ==
  \/ WaitLock(t) \/ WaitTake(t) \/ WaitBlock(t) \/ WaitExpire(t)
  \/ WaitGiveUp(t) \/ WaitUnlock(t)

SignalStep(t) ==
  SignalLock(t) \/ SignalCount(t) \/ SignalBroadcast(t) \/ SignalUnlock(t)

Next ==
  \/ \E t \in Waiters : StartWait(t) \/ WaitStep(t) \/ SpuriousWake(t)
  \/ \E t \in Signallers : StartSignal(t) \/ SignalStep(t)
  \/ \E t \in Threads : Return(t)
  \/ Tick

Spec == Init /\ [][Next]_vars

\* A thread that can run runs, and contention for the pthread mutex of a
\* semaphore does not starve a thread for ever.
Fairness ==
  /\ \A t \in Waiters : SF_vars(WaitStep(t)) /\ WF_vars(Return(t))
  /\ \A t \in Signallers : SF_vars(SignalStep(t)) /\ WF_vars(Return(t))

FairSpec == Spec /\ Fairness
------------------------------------------------------------------------------
HoldingPCs == {"w_test", "w_unlock", "w_timeout", "s_count", "s_broadcast",
               "s_unlock"}

\* Type invariant: the semaphore is binary.
TypeOK ==
  /\ c \in {0, 1}
  /\ owner \in Threads \cup {Free}
  /\ pc \in [Threads -> HoldingPCs \cup {"idle", "w_lock", "w_asleep", "w_expired",
                                         "s_lock"} \cup Returned]
  /\ timeout \in [Threads -> Timeouts \cup {0}]
  /\ deadline \in [Threads -> Nat] /\ called \in [Threads -> Nat]
  /\ now \in Nat

\* A thread never sleeps on the condition variable beside an available token:
\* when one does, a signaller holds the mutex and is about to broadcast.
NoSleepBesideToken ==
  /\ TypeOK
  /\ c > 0 /\ (\E t \in Threads : pc[t] = "w_asleep")
       => \E s \in Threads : pc[s] = "s_broadcast"

\* What the caller of each thread can tell.
View(t) ==
  CASE pc[t] \in Returned \cup {"idle"} -> pc[t]
    [] pc[t] \in {"s_lock", "s_count"} -> "signal"
    [] pc[t] \in {"s_broadcast", "s_unlock"} -> "signalled"
    [] pc[t] = "w_unlock" -> "taken"
    [] pc[t] = "w_timeout" -> "timeout"
    [] OTHER -> IF timeout[t] = 0 THEN "wait" ELSE "timedwait"

Semaphore ==
  INSTANCE BinarySemaphore WITH count <- c, state <- [t \in Threads |-> View(t)]

\* Mutex, count and condition variable together behave as a binary semaphore
\* whose wait and signal are single steps; the mailbox is modelled on that.
ImplementsSemaphore == Semaphore!Spec

\* A token that is signalled while a thread waits is taken: the broadcast
\* reaches a sleeper whatever it was doing when the count changed.
TokenTaken ==
  \A t \in Waiters :
    (c = 1 /\ View(t) \in {"wait", "timedwait"})
      ~> (c = 0 \/ View(t) \notin {"wait", "timedwait"})

\* lwip/sys.h on sys_arch_sem_wait: SYS_ARCH_TIMEOUT "if the semaphore wasn't
\* signaled within the specified time": no wait gives up before its time is over,
\* however often it is woken in vain.  (It may give up later: every turn of the
\* loop starts the whole timeout again.)
NoEarlyTimeout ==
  \A t \in Waiters :
    pc[t] \in {"w_expired", "w_timeout", "timeout"} => now - called[t] >= timeout[t]
==============================================================================
