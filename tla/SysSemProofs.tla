----------------------------- MODULE SysSemProofs -----------------------------
(***************************************************************************)
(* The semaphore of the Unix port is the one that lwip/sys.h promises, for    *)
(* any threads, timeouts and spurious wake-ups.                              *)
(***************************************************************************)
EXTENDS SysSem, TLAPS

\* What the constants stand for: "free" is no thread, and timeouts are milliseconds.
Constants == Free \notin Threads /\ Timeouts \subseteq Nat

Expired == {"w_expired", "w_timeout", "timeout"}

\* The mutex is that of the thread inside; a timed wait that sleeps does so until
\* its whole timeout is over, counted from its call or from later on.
ThreadInv(t) ==
  /\ owner = t <=> pc[t] \in HoldingPCs
  /\ called[t] <= now
  /\ pc[t] = "w_asleep" => deadline[t] >= called[t] + timeout[t]
  /\ pc[t] \in Expired => timeout[t] > 0 /\ now >= called[t] + timeout[t]

IInv == NoSleepBesideToken /\ \A t \in Threads : ThreadInv(t)

\* The times that sys_arch_sem_wait computes with are natural numbers.
LEMMA TimesAreNat ==
  ASSUME Constants, TypeOK
  PROVE  \A t \in Threads : timeout[t] \in Nat /\ deadline[t] \in Nat /\ called[t] \in Nat
<1> TAKE t \in Threads
<1>1. timeout[t] \in Timeouts \cup {0}
  BY Zenon DEF TypeOK
<1>2. deadline[t] \in Nat /\ called[t] \in Nat
  BY Zenon DEF TypeOK
<1>3. Timeouts \subseteq Nat /\ 0 \in Nat
  BY Zenon DEF Constants
<1>4. timeout[t] \in Nat
  BY Zenon, <1>1, <1>3
<1> QED
  BY Zenon, <1>2, <1>4

\* Every step of sys_arch_sem_wait and sys_sem_signal keeps the invariant.
LEMMA StepKeepsInv ==
  ASSUME Constants, IInv, [Next]_vars PROVE IInv'
<1> USE DEF Constants, IInv, NoSleepBesideToken, TypeOK, ThreadInv, Expired, HoldingPCs,
            Returned, Threads, Goto, Take, Drop, times
<1>0. \A t \in Threads : timeout[t] \in Nat /\ deadline[t] \in Nat /\ called[t] \in Nat
  BY Zenon, TimesAreNat
<1>1. ASSUME NEW t \in Waiters, StartWait(t) PROVE IInv'
  BY <1>1 DEF StartWait
<1>2. ASSUME NEW t \in Waiters, WaitLock(t) PROVE IInv'
  BY Zenon, <1>2 DEF WaitLock
<1>3. ASSUME NEW t \in Waiters, WaitTake(t) PROVE IInv'
  BY <1>3 DEF WaitTake
<1>4. ASSUME NEW t \in Waiters, WaitBlock(t) PROVE IInv'
  BY <1>0, <1>4 DEF WaitBlock
<1>5. ASSUME NEW t \in Waiters, WaitExpire(t) PROVE IInv'
  BY <1>0, <1>5 DEF WaitExpire
<1>6. ASSUME NEW t \in Waiters, WaitGiveUp(t) PROVE IInv'
  BY Zenon, <1>6 DEF WaitGiveUp
<1>7. ASSUME NEW t \in Waiters, WaitUnlock(t) PROVE IInv'
  BY <1>7 DEF WaitUnlock
<1>8. ASSUME NEW t \in Waiters, SpuriousWake(t) PROVE IInv'
  BY Zenon, <1>8 DEF SpuriousWake
<1>9. ASSUME NEW t \in Signallers, StartSignal(t) PROVE IInv'
  BY Zenon, <1>9 DEF StartSignal
<1>10. ASSUME NEW t \in Signallers, SignalLock(t) PROVE IInv'
  BY Zenon, <1>10 DEF SignalLock
<1>11. ASSUME NEW t \in Signallers, SignalCount(t) PROVE IInv'
  BY <1>11 DEF SignalCount
<1>12. ASSUME NEW t \in Signallers, SignalBroadcast(t) PROVE IInv'
  BY Zenon, <1>12 DEF SignalBroadcast
<1>13. ASSUME NEW t \in Signallers, SignalUnlock(t) PROVE IInv'
  BY Zenon, <1>13 DEF SignalUnlock
<1>14. ASSUME NEW t \in Threads, Return(t) PROVE IInv'
  BY <1>14 DEF Return
<1>15. CASE Tick
  BY <1>15 DEF Tick
<1>16. CASE UNCHANGED vars
  BY Zenon, <1>16 DEF vars
<1> QED
  BY Zenon, <1>1, <1>2, <1>3, <1>4, <1>5, <1>6, <1>7, <1>8, <1>9, <1>10, <1>11, <1>12, <1>13,
     <1>14, <1>15, <1>16 DEF Next, WaitStep, SignalStep

\* A new semaphore, with or without a token, and idle threads.
LEMMA InitInv ==
  ASSUME Constants, Init PROVE IInv
BY DEF Constants, Init, IInv, NoSleepBesideToken, TypeOK, ThreadInv, Expired, HoldingPCs,
       Returned, Threads

\* The invariant of sem->mutex, sem->c and the sleepers.
THEOREM Inductive == ASSUME Constants PROVE Spec => []IInv
<1>1. Init => IInv
  BY Zenon, InitInv
<1>2. IInv /\ [Next]_vars => IInv'
  BY Zenon, StepKeepsInv
<1> QED
  BY <1>1, <1>2, PTL DEF Spec

\* No thread sleeps beside a token unless a signaller is about to broadcast.
THEOREM NoSleepBesideTokenCorrect == ASSUME Constants PROVE Spec => []NoSleepBesideToken
<1>1. IInv => NoSleepBesideToken
  BY Zenon DEF IInv
<1>2. Spec => []IInv
  BY Zenon, Inductive
<1> QED
  BY <1>1, <1>2, PTL

\* No wait gives up before its time is over, however often cond_wait returns in vain.
THEOREM NoEarlyTimeoutCorrect == ASSUME Constants PROVE Spec => []NoEarlyTimeout
<1>1. IInv => NoEarlyTimeout
  <2> SUFFICES ASSUME IInv, NEW t \in Waiters, pc[t] \in Expired
               PROVE  now - called[t] >= timeout[t]
    BY Zenon DEF NoEarlyTimeout, Expired
  <2>1. timeout[t] \in Nat /\ called[t] \in Nat /\ now \in Nat
    BY Zenon, TimesAreNat DEF IInv, NoSleepBesideToken, TypeOK, Threads
  <2>2. now >= called[t] + timeout[t]
    BY Zenon DEF IInv, ThreadInv, Threads
  <2> QED
    BY <2>1, <2>2
<1>2. Spec => []IInv
  BY Zenon, Inductive
<1> QED
  BY <1>1, <1>2, PTL

(***************************************************************************)
(* Refinement                                                               *)
(***************************************************************************)
state == [t \in Threads |-> View(t)]

\* A step that moves one thread moves it alone in the abstract state.
LEMMA OneMoves ==
  ASSUME NEW t \in Threads, NEW v, View(t)' = v,
         \A u \in Threads \ {t} : pc'[u] = pc[u] /\ timeout'[u] = timeout[u]
  PROVE  state' = [state EXCEPT ![t] = v]
<1>1. \A u \in Threads \ {t} : View(u)' = View(u)
  BY Zenon DEF View
<1> QED
  BY Zenon, <1>1 DEF state

\* A step of a thread is a step of the semaphore of BinarySemaphore, or of nobody.
LEMMA StepRefines ==
  ASSUME Constants, IInv, [Next]_vars PROVE [Semaphore!Next]_(Semaphore!vars)
<1> USE DEF IInv, NoSleepBesideToken, TypeOK, Threads, Goto, times
<1> DEFINE Abstract == [Semaphore!Next]_(Semaphore!vars)
<1>0. ASSUME state' = state, c' = c PROVE Abstract
  BY Zenon, <1>0 DEF Semaphore!vars, state
<1>1. ASSUME NEW t \in Waiters, StartWait(t) PROVE Abstract
  <2>1. View(t) = "idle" /\ View(t)' \in {"wait", "timedwait"}
    BY Zenon, <1>1 DEF StartWait, View, Returned
  <2>2. state' = [state EXCEPT ![t] = View(t)']
    BY Zenon, <1>1, OneMoves DEF StartWait
  <2>3. Semaphore!CallWait(t)
    BY Zenon, <1>1, <2>1, <2>2 DEF StartWait, Semaphore!CallWait, Semaphore!Move, state
  <2> QED
    BY Zenon, <2>3 DEF Semaphore!Next, Semaphore!Threads
<1>2. ASSUME NEW t \in Waiters, WaitLock(t) \/ WaitBlock(t) \/ WaitExpire(t) \/ SpuriousWake(t)
      PROVE Abstract
  <2>1. View(t)' = View(t)
    BY Zenon, <1>2 DEF WaitLock, WaitBlock, WaitExpire, SpuriousWake, View, Returned
  <2>2. state' = [state EXCEPT ![t] = View(t)]
    BY Zenon, <1>2, <2>1, OneMoves DEF WaitLock, WaitBlock, WaitExpire, SpuriousWake
  <2> QED
    BY Zenon, <1>0, <1>2, <2>2 DEF WaitLock, WaitBlock, WaitExpire, SpuriousWake, state
<1>3. ASSUME NEW t \in Waiters, WaitTake(t) PROVE Abstract
  <2>1. View(t) \in {"wait", "timedwait"} /\ View(t)' = "taken"
    BY Zenon, <1>3 DEF WaitTake, View, Returned
  <2>2. state' = [state EXCEPT ![t] = "taken"]
    BY Zenon, <1>3, <2>1, OneMoves DEF WaitTake
  <2>3. c = 1 /\ c' = 0
    BY <1>3 DEF WaitTake
  <2>4. Semaphore!Acquire(t)
    BY Zenon, <2>1, <2>2, <2>3 DEF Semaphore!Acquire, Semaphore!Move, state
  <2> QED
    BY Zenon, <2>4 DEF Semaphore!Next, Semaphore!Threads
<1>4. ASSUME NEW t \in Waiters, WaitGiveUp(t) PROVE Abstract
  <2>1. View(t) = "timedwait" /\ View(t)' = "timeout"
    BY <1>4 DEF WaitGiveUp, View, Returned, ThreadInv, Expired
  <2>2. state' = [state EXCEPT ![t] = "timeout"]
    BY Zenon, <1>4, <2>1, OneMoves DEF WaitGiveUp
  <2>3. Semaphore!GiveUp(t)
    BY Zenon, <1>4, <2>1, <2>2 DEF WaitGiveUp, Semaphore!GiveUp, Semaphore!Move, state
  <2> QED
    BY Zenon, <2>3 DEF Semaphore!Next, Semaphore!Threads
<1>5. ASSUME NEW t \in Threads, WaitUnlock(t) \/ SignalLock(t) \/ SignalUnlock(t) PROVE Abstract
  <2>1. View(t)' = View(t)
    BY Zenon, <1>5 DEF WaitUnlock, SignalLock, SignalUnlock, View, Returned
  <2>2. state' = [state EXCEPT ![t] = View(t)]
    BY Zenon, <1>5, <2>1, OneMoves DEF WaitUnlock, SignalLock, SignalUnlock
  <2> QED
    BY Zenon, <1>0, <1>5, <2>2 DEF WaitUnlock, SignalLock, SignalUnlock, state
<1>6. ASSUME NEW t \in Signallers, StartSignal(t) PROVE Abstract
  <2>1. View(t) = "idle" /\ View(t)' = "signal"
    BY Zenon, <1>6 DEF StartSignal, View, Returned
  <2>2. state' = [state EXCEPT ![t] = "signal"]
    BY Zenon, <1>6, <2>1, OneMoves DEF StartSignal
  <2>3. Semaphore!CallSignal(t)
    BY Zenon, <1>6, <2>1, <2>2 DEF StartSignal, Semaphore!CallSignal, Semaphore!Move, state
  <2> QED
    BY Zenon, <2>3 DEF Semaphore!Next, Semaphore!Threads
<1>7. ASSUME NEW t \in Signallers, SignalCount(t) PROVE Abstract
  <2>1. View(t) = "signal" /\ View(t)' = "signalled"
    BY Zenon, <1>7 DEF SignalCount, View, Returned
  <2>2. state' = [state EXCEPT ![t] = "signalled"]
    BY Zenon, <1>7, <2>1, OneMoves DEF SignalCount
  <2>3. c' = 1
    BY <1>7 DEF SignalCount
  <2>4. Semaphore!Release(t)
    BY Zenon, <2>1, <2>2, <2>3 DEF Semaphore!Release, Semaphore!Move, state
  <2> QED
    BY Zenon, <2>4 DEF Semaphore!Next, Semaphore!Threads
<1>8. ASSUME NEW t \in Signallers, SignalBroadcast(t) PROVE Abstract
  <2>1. \A u \in Threads : View(u)' = View(u)
    BY Zenon, <1>8 DEF SignalBroadcast, View, Returned
  <2> QED
    BY Zenon, <1>0, <1>8, <2>1 DEF SignalBroadcast, state
<1>9. ASSUME NEW t \in Threads, Return(t) PROVE Abstract
  <2>1. View(t) \in Returned /\ View(t)' = "idle"
    BY Zenon, <1>9 DEF Return, View, Returned
  <2>2. state' = [state EXCEPT ![t] = "idle"]
    BY Zenon, <1>9, <2>1, OneMoves DEF Return
  <2>3. Semaphore!Return(t)
    BY Zenon, <1>9, <2>1, <2>2 DEF Return, Semaphore!Return, Semaphore!Move, Returned, state
  <2> QED
    BY Zenon, <2>3 DEF Semaphore!Next, Semaphore!Threads
<1>10. CASE Tick \/ UNCHANGED vars
  <2>1. \A u \in Threads : View(u)' = View(u)
    BY Zenon, <1>10 DEF Tick, vars, View
  <2> QED
    BY Zenon, <1>0, <1>10, <2>1 DEF Tick, vars, state
<1> QED
  BY Zenon, <1>1, <1>2, <1>3, <1>4, <1>5, <1>6, <1>7, <1>8, <1>9, <1>10
     DEF Next, WaitStep, SignalStep

\* Mutex, count and condition variable of sys_arch.c implement a binary semaphore.
THEOREM ImplementsSemaphoreCorrect == ASSUME Constants PROVE Spec => ImplementsSemaphore
<1>1. Init => Semaphore!Init
  BY Zenon DEF Init, Semaphore!Init, Semaphore!Threads, View, Returned, Threads
<1>2. IInv /\ [Next]_vars => [Semaphore!Next]_(Semaphore!vars)
  BY Zenon, StepRefines
<1>3. Spec => []IInv
  BY Zenon, Inductive
<1> QED
  BY <1>1, <1>2, <1>3, PTL DEF Spec, ImplementsSemaphore, Semaphore!Spec
===============================================================================
