---------------------------- MODULE SysMboxProofs ----------------------------
(***************************************************************************)
(* Proofs about the mailbox of the Unix port, for any number of threads and *)
(* any mailbox size.                                                        *)
(***************************************************************************)
EXTENDS SysMbox, FiniteSetTheorems, SequenceTheorems, TLAPS

(***************************************************************************)
(* Ring indices: two counters less than n apart fall on different slots.    *)
(***************************************************************************)

\* Quotient and remainder of a counter.
LEMMA DivMod ==
  ASSUME NEW n \in Nat \ {0}, NEW a \in Nat
  PROVE  /\ a % n \in 0..(n - 1)
         /\ a \div n \in Nat
         /\ a = n * (a \div n) + (a % n)
  OBVIOUS

\* No multiple of n lies strictly between 0 and n.
LEMMA NoMultipleBelow ==
  ASSUME NEW n \in Nat \ {0}, NEW k \in Int, 0 < n * k, n * k < n
  PROVE  FALSE
<1>1. CASE k <= 0
  BY <1>1
<1>2. CASE k >= 1
  BY <1>2
<1>3. QED
  BY <1>1, <1>2

\* msgs[a % n] and msgs[b % n] are different slots.
LEMMA SlotsDiffer ==
  ASSUME NEW n \in Nat \ {0}, NEW a \in Nat, NEW b \in Nat, a < b, b < a + n
  PROVE  a % n # b % n
<1> SUFFICES ASSUME a % n = b % n PROVE FALSE
  BY Zenon
<1>1. PICK q \in Nat : a = n * q + (a % n)
  BY ZenonT(60), DivMod
<1>2. PICK p \in Nat : b = n * p + (b % n)
  BY ZenonT(60), DivMod
<1>3. a % n \in Int
  BY DivMod
<1>4. b - a = n * (p - q)
  BY <1>1, <1>2, <1>3
<1>5. QED
  BY <1>4, NoMultipleBelow
------------------------------------------------------------------------------
(***************************************************************************)
(* Control: where each thread can be, with which call and which result.     *)
(***************************************************************************)
DecidedPCs == {"p_signal", "f_signal", "unlock", "return"}
UndecidedPCs == (PostPCs \cup FetchPCs) \ DecidedPCs

Control ==
  /\ TypeOK
  /\ \A t \in Posters : pc[t] \notin FetchPCs
  /\ \A t \in Fetchers : pc[t] \notin PostPCs
  /\ \A t \in Threads :
       /\ pc[t] = "idle" <=> call[t] = NoCall
       /\ pc[t] \in PostPCs => call[t] \in PostCalls
       /\ pc[t] \in FetchPCs => call[t] \in FetchCalls
       /\ pc[t] \in UndecidedPCs => ret[t] = Pending
       /\ pc[t] \in DecidedPCs => ret[t] # Pending

\* The result of a fetch is a result, and decides the call.
LEMMA ReceivedResult ==
  ASSUME NEW m \in Contents
  PROVE  Received(m) \in Results /\ Received(m) # Pending
  BY Zenon DEF Results, Received, Pending

\* Every thread follows one of the two programs, and its call is undecided
\* until the step that changes the mailbox or gives up.
THEOREM ControlInv == Spec => []Control
<1> USE SizeAssumption, OpsAssumption, MaxLastAssumption, ThreadsAssumption
<1> USE DEF Control, TypeOK, PostPCs, FetchPCs, OutsidePCs, Threads, DecidedPCs,
            UndecidedPCs, Results, Result, Received, Pending, NoCall, PostCalls,
            FetchCalls, Contents
<1>1. Init => Control
  BY DEF Init
<1>2. Control /\ [Next]_vars => Control'
  <2> SUFFICES ASSUME Control, [Next]_vars PROVE Control'
    BY Zenon
  <2> USE DEF mbox, sems, locals, Goto, Decide, Lock, Unlock, SemSignal, SemWait
  <2>1. ASSUME NEW t \in Posters, StartPost(t) PROVE Control'
    BY SMTT(60), <2>1 DEF StartPost
  <2>2. ASSUME NEW t \in Posters, PostLock(t) PROVE Control'
    BY SMTT(60), <2>2 DEF PostLock
  <2>3. ASSUME NEW t \in Posters, TryPostFull(t) PROVE Control'
    BY SMTT(60), <2>3 DEF TryPostFull
  <2>4. ASSUME NEW t \in Posters, PostFull(t) PROVE Control'
    BY SMTT(60), <2>4 DEF PostFull
  <2>5. ASSUME NEW t \in Posters, PostRelease(t) PROVE Control'
    BY SMTT(60), <2>5 DEF PostRelease
  <2>6. ASSUME NEW t \in Posters, PostWait(t) PROVE Control'
    BY SMTT(60), <2>6 DEF PostWait
  <2>7. ASSUME NEW t \in Posters, PostRelock(t) PROVE Control'
    BY SMTT(60), <2>7 DEF PostRelock
  <2>8. ASSUME NEW t \in Posters, PostStore(t) PROVE Control'
    BY SMTT(60), <2>8 DEF PostStore
  <2>9. ASSUME NEW t \in Posters, PostAdvance(t) PROVE Control'
    BY SMTT(60), <2>9 DEF PostAdvance
  <2>10. ASSUME NEW t \in Posters, PostSignal(t) PROVE Control'
    BY SMTT(60), <2>10 DEF PostSignal
  <2>11. ASSUME NEW t \in Fetchers, StartFetch(t) PROVE Control'
    BY SMTT(60), <2>11 DEF StartFetch
  <2>12. ASSUME NEW t \in Fetchers, FetchLock(t) PROVE Control'
    BY SMTT(60), <2>12 DEF FetchLock
  <2>13. ASSUME NEW t \in Fetchers, TryFetchEmpty(t) PROVE Control'
    BY SMTT(60), <2>13 DEF TryFetchEmpty
  <2>14. ASSUME NEW t \in Fetchers, FetchEmpty(t) PROVE Control'
    BY SMTT(60), <2>14 DEF FetchEmpty
  <2>15. ASSUME NEW t \in Fetchers, FetchRelease(t) PROVE Control'
    BY SMTT(60), <2>15 DEF FetchRelease
  <2>16. ASSUME NEW t \in Fetchers, FetchWait(t) PROVE Control'
    BY SMTT(60), <2>16 DEF FetchWait
  <2>17. ASSUME NEW t \in Fetchers, FetchTimeout(t) PROVE Control'
    BY SMTT(60), <2>17 DEF FetchTimeout
  <2>18. ASSUME NEW t \in Fetchers, FetchRead(t) PROVE Control'
    BY SMTT(60), <2>18 DEF FetchRead
  <2>19. ASSUME NEW t \in Fetchers, FetchAdvance(t) PROVE Control'
    <3> DEFINE r == Received(got[t])
    <3>1. r \in Results /\ r # Pending
      BY SMTT(60), ReceivedResult
    <3>2. ret' = [ret EXCEPT ![t] = r]
      BY Zenon, <2>19 DEF FetchAdvance
    <3> HIDE DEF r, Results
    <3>3. QED
      BY SMTT(60), <2>19, <3>1, <3>2 DEF FetchAdvance
  <2>20. ASSUME NEW t \in Fetchers, FetchSignal(t) PROVE Control'
    BY SMTT(60), <2>20 DEF FetchSignal
  <2>21. ASSUME NEW t \in Threads, Finish(t) PROVE Control'
    BY SMTT(60), <2>21 DEF Finish
  <2>22. ASSUME NEW t \in Threads, Return(t) PROVE Control'
    BY Zenon, <2>22 DEF Return
  <2>23. CASE UNCHANGED vars
    BY Zenon, <2>23 DEF vars
  <2>24. QED
    BY ZenonT(60), <2>1, <2>2, <2>3, <2>4, <2>5, <2>6, <2>7, <2>8, <2>9, <2>10, <2>11, <2>12, <2>13, <2>14, <2>15, <2>16, <2>17, <2>18, <2>19, <2>20, <2>21, <2>22, <2>23 DEF Next, PostStep, FetchStep, Leave
<1>3. QED
  BY <1>1, <1>2, PTL DEF Spec

\* The types of the mailbox, its semaphores and its callers.
THEOREM TypeCorrect == Spec => []TypeOK
  BY ControlInv, PTL DEF Control

------------------------------------------------------------------------------
(***************************************************************************)
(* Mutual exclusion.  A signal saturates at 1, so the invariant must also   *)
(* say that the semaphore is 0 while a thread is inside.                    *)
(***************************************************************************)
Exclusion ==
  /\ MutualExclusion
  /\ \A t \in Threads : pc[t] \in CriticalPCs => mutex = 0

\* At most one thread is between the wait and the signal on `mutex`.
THEOREM ExclusionInv == Spec => []Exclusion
<1> USE DEF Exclusion, MutualExclusion, CriticalPCs, Threads
<1>1. Init => Exclusion
  BY Zenon DEF Init
<1>2. Control /\ Exclusion /\ [Next]_vars => Exclusion'
  <2> SUFFICES ASSUME Control, Exclusion, [Next]_vars PROVE Exclusion'
    BY Zenon
  <2>0. pc \in [Threads -> OutsidePCs \cup PostPCs \cup FetchPCs] /\ mutex \in {0, 1}
    BY Zenon DEF Control, TypeOK
  <2> USE <2>0 DEF sems, Goto, Lock, Unlock, SemSignal, SemWait
  <2>1. ASSUME NEW t \in Posters, StartPost(t) PROVE Exclusion'
    BY Zenon, <2>1 DEF StartPost
  <2>2. ASSUME NEW t \in Posters, PostLock(t) PROVE Exclusion'
    BY SMTT(60), <2>2 DEF PostLock
  <2>3. ASSUME NEW t \in Posters, TryPostFull(t) PROVE Exclusion'
    BY Zenon, <2>3 DEF TryPostFull
  <2>4. ASSUME NEW t \in Posters, PostFull(t) PROVE Exclusion'
    BY <2>4 DEF PostFull
  <2>5. ASSUME NEW t \in Posters, PostRelease(t) PROVE Exclusion'
    BY Zenon, <2>5 DEF PostRelease
  <2>6. ASSUME NEW t \in Posters, PostWait(t) PROVE Exclusion'
    BY Zenon, <2>6 DEF PostWait
  <2>7. ASSUME NEW t \in Posters, PostRelock(t) PROVE Exclusion'
    BY <2>7 DEF PostRelock
  <2>8. ASSUME NEW t \in Posters, PostStore(t) PROVE Exclusion'
    BY Zenon, <2>8 DEF PostStore
  <2>9. ASSUME NEW t \in Posters, PostAdvance(t) PROVE Exclusion'
    BY Zenon, <2>9 DEF PostAdvance
  <2>10. ASSUME NEW t \in Posters, PostSignal(t) PROVE Exclusion'
    BY Zenon, <2>10 DEF PostSignal
  <2>11. ASSUME NEW t \in Fetchers, StartFetch(t) PROVE Exclusion'
    BY Zenon, <2>11 DEF StartFetch
  <2>12. ASSUME NEW t \in Fetchers, FetchLock(t) PROVE Exclusion'
    BY <2>12 DEF FetchLock
  <2>13. ASSUME NEW t \in Fetchers, TryFetchEmpty(t) PROVE Exclusion'
    BY Zenon, <2>13 DEF TryFetchEmpty
  <2>14. ASSUME NEW t \in Fetchers, FetchEmpty(t) PROVE Exclusion'
    BY Zenon, <2>14 DEF FetchEmpty
  <2>15. ASSUME NEW t \in Fetchers, FetchRelease(t) PROVE Exclusion'
    BY Zenon, <2>15 DEF FetchRelease
  <2>16. ASSUME NEW t \in Fetchers, FetchWait(t) PROVE Exclusion'
    BY Zenon, <2>16 DEF FetchWait
  <2>17. ASSUME NEW t \in Fetchers, FetchTimeout(t) PROVE Exclusion'
    BY Zenon, <2>17 DEF FetchTimeout
  <2>18. ASSUME NEW t \in Fetchers, FetchRead(t) PROVE Exclusion'
    BY Zenon, <2>18 DEF FetchRead
  <2>19. ASSUME NEW t \in Fetchers, FetchAdvance(t) PROVE Exclusion'
    BY Zenon, <2>19 DEF FetchAdvance
  <2>20. ASSUME NEW t \in Fetchers, FetchSignal(t) PROVE Exclusion'
    BY Zenon, <2>20 DEF FetchSignal
  <2>21. ASSUME NEW t \in Threads, Finish(t) PROVE Exclusion'
    BY Zenon, <2>21 DEF Finish
  <2>22. ASSUME NEW t \in Threads, Return(t) PROVE Exclusion'
    BY Zenon, <2>22 DEF Return
  <2>23. CASE UNCHANGED vars
    BY Zenon, <2>23 DEF vars
  <2>24. QED
    BY ZenonT(60), <2>1, <2>2, <2>3, <2>4, <2>5, <2>6, <2>7, <2>8, <2>9, <2>10, <2>11, <2>12, <2>13, <2>14, <2>15, <2>16, <2>17, <2>18, <2>19, <2>20, <2>21, <2>22, <2>23 DEF Next, PostStep, FetchStep, Leave
<1>3. QED
  BY <1>1, <1>2, ControlInv, PTL DEF Spec

\* The property the safety run checks.
THEOREM MutualExclusionCorrect == Spec => []MutualExclusion
  BY ExclusionInv, PTL DEF Exclusion
------------------------------------------------------------------------------
(***************************************************************************)
(* The ring: what a thread inside the critical section has established.     *)
(***************************************************************************)
Ring ==
  /\ first <= last /\ last < first + Size
  /\ \A t \in Threads :
       /\ pc[t] = "p_release" => Full
       /\ pc[t] = "p_advance" => /\ ~Full
                                 /\ msgs[last % Size] = call[t].msg
                                 /\ was_empty[t] <=> Empty
       /\ pc[t] = "p_signal" => ~Empty
       /\ pc[t] = "f_release" => Empty
       /\ pc[t] = "f_advance" => ~Empty /\ got[t] = msgs[first % Size]

\* Between its test and its release of the mutex a thread's view of the ring
\* stays true, and the ring never holds more than SYS_MBOX_SIZE - 1 messages.
THEOREM RingInv == Spec => []Ring
<1> USE SizeAssumption
<1> USE DEF Ring, Full, Empty, Threads
<1>1. Init => Ring
  BY DEF Init
<1>2. Control /\ Exclusion /\ Ring /\ [Next]_vars => Ring'
  <2> SUFFICES ASSUME Control, Exclusion, Ring, [Next]_vars PROVE Ring'
    BY ZenonT(60)
  <2>0. /\ pc \in [Threads -> OutsidePCs \cup PostPCs \cup FetchPCs]
        /\ first \in Nat /\ last \in Nat
        /\ msgs \in [0..(Size - 1) -> Contents]
        /\ was_empty \in [Threads -> BOOLEAN]
        /\ got \in [Threads -> Contents]
        /\ last % Size \in 0..(Size - 1)
    BY ZenonT(60), DivMod DEF Control, TypeOK
  <2>00. MutualExclusion
    BY Zenon DEF Exclusion
  <2> USE <2>0, <2>00 DEF mbox, locals, Goto, Lock, Unlock, MutualExclusion, CriticalPCs
  <2>1. ASSUME NEW t \in Posters, StartPost(t) PROVE Ring'
    BY <2>1 DEF StartPost
  <2>2. ASSUME NEW t \in Posters, PostLock(t) PROVE Ring'
    BY Zenon, <2>2 DEF PostLock
  <2>3. ASSUME NEW t \in Posters, TryPostFull(t) PROVE Ring'
    BY SMTT(60), <2>3 DEF TryPostFull
  <2>4. ASSUME NEW t \in Posters, PostFull(t) PROVE Ring'
    BY Zenon, <2>4 DEF PostFull
  <2>5. ASSUME NEW t \in Posters, PostRelease(t) PROVE Ring'
    BY Zenon, <2>5 DEF PostRelease
  <2>6. ASSUME NEW t \in Posters, PostWait(t) PROVE Ring'
    BY Zenon, <2>6 DEF PostWait
  <2>7. ASSUME NEW t \in Posters, PostRelock(t) PROVE Ring'
    BY Zenon, <2>7 DEF PostRelock
  <2>8. ASSUME NEW t \in Posters, PostStore(t) PROVE Ring'
    BY ZenonT(60), <2>8 DEF PostStore
  <2>9. ASSUME NEW t \in Posters, PostAdvance(t) PROVE Ring'
    BY SMTT(60), <2>9 DEF PostAdvance
  <2>10. ASSUME NEW t \in Posters, PostSignal(t) PROVE Ring'
    BY Zenon, <2>10 DEF PostSignal
  <2>11. ASSUME NEW t \in Fetchers, StartFetch(t) PROVE Ring'
    BY <2>11 DEF StartFetch
  <2>12. ASSUME NEW t \in Fetchers, FetchLock(t) PROVE Ring'
    BY Zenon, <2>12 DEF FetchLock
  <2>13. ASSUME NEW t \in Fetchers, TryFetchEmpty(t) PROVE Ring'
    BY Zenon, <2>13 DEF TryFetchEmpty
  <2>14. ASSUME NEW t \in Fetchers, FetchEmpty(t) PROVE Ring'
    BY Zenon, <2>14 DEF FetchEmpty
  <2>15. ASSUME NEW t \in Fetchers, FetchRelease(t) PROVE Ring'
    BY Zenon, <2>15 DEF FetchRelease
  <2>16. ASSUME NEW t \in Fetchers, FetchWait(t) PROVE Ring'
    BY Zenon, <2>16 DEF FetchWait
  <2>17. ASSUME NEW t \in Fetchers, FetchTimeout(t) PROVE Ring'
    BY Zenon, <2>17 DEF FetchTimeout
  <2>18. ASSUME NEW t \in Fetchers, FetchRead(t) PROVE Ring'
    BY Zenon, <2>18 DEF FetchRead
  <2>19. ASSUME NEW t \in Fetchers, FetchAdvance(t) PROVE Ring'
    BY SMTT(60), <2>19 DEF FetchAdvance
  <2>20. ASSUME NEW t \in Fetchers, FetchSignal(t) PROVE Ring'
    BY SMTT(60), <2>20 DEF FetchSignal
  <2>21. ASSUME NEW t \in Threads, Finish(t) PROVE Ring'
    BY Zenon, <2>21 DEF Finish
  <2>22. ASSUME NEW t \in Threads, Return(t) PROVE Ring'
    BY SMTT(60), <2>22 DEF Return
  <2>23. CASE UNCHANGED vars
    BY Zenon, <2>23 DEF vars
  <2>24. QED
    BY ZenonT(60), <2>1, <2>2, <2>3, <2>4, <2>5, <2>6, <2>7, <2>8, <2>9, <2>10, <2>11, <2>12, <2>13, <2>14, <2>15, <2>16, <2>17, <2>18, <2>19, <2>20, <2>21, <2>22, <2>23 DEF Next, PostStep, FetchStep, Leave
<1>3. QED
  BY <1>1, <1>2, ControlInv, ExclusionInv, PTL DEF Spec
------------------------------------------------------------------------------
(***************************************************************************)
(* No lost wakeup, for a mailbox with one fetcher such as tcpip_mbox.       *)
(***************************************************************************)
SingleFetcher == \A s, t \in Fetchers : s = t

\* not_empty is signalled only when the mailbox was empty; that is enough for
\* one fetcher: it never sleeps beside a message whose announcement is gone.
THEOREM NoLostWakeupCorrect ==
  ASSUME SingleFetcher
  PROVE  Spec => []NoLostWakeup
<1> USE SizeAssumption, ThreadsAssumption DEF NoLostWakeup, Empty, Threads
<1>1. Init => NoLostWakeup
  BY Zenon DEF Init
<1>2. Control /\ Exclusion /\ Ring /\ NoLostWakeup /\ [Next]_vars => NoLostWakeup'
  <2> SUFFICES ASSUME Control, Exclusion, Ring, NoLostWakeup, [Next]_vars
               PROVE  NoLostWakeup'
    BY ZenonT(60)
  <2>0. /\ pc \in [Threads -> OutsidePCs \cup PostPCs \cup FetchPCs]
        /\ first \in Nat /\ last \in Nat /\ not_empty \in {0, 1}
        /\ was_empty \in [Threads -> BOOLEAN]
        /\ \A t \in Fetchers : pc[t] \notin PostPCs
    BY Zenon DEF Control, TypeOK
  <2>00. MutualExclusion
    BY Zenon DEF Exclusion
  <2> USE <2>0, <2>00, SingleFetcher
      DEF mbox, sems, locals, Goto, Lock, Unlock, MutualExclusion, CriticalPCs,
          Ring, PostPCs, SemWait, SemSignal, SingleFetcher
  <2>1. ASSUME NEW t \in Posters, StartPost(t) PROVE NoLostWakeup'
    BY Zenon, <2>1 DEF StartPost
  <2>2. ASSUME NEW t \in Posters, PostLock(t) PROVE NoLostWakeup'
    BY Zenon, <2>2 DEF PostLock
  <2>3. ASSUME NEW t \in Posters, TryPostFull(t) PROVE NoLostWakeup'
    BY Zenon, <2>3 DEF TryPostFull
  <2>4. ASSUME NEW t \in Posters, PostFull(t) PROVE NoLostWakeup'
    BY Zenon, <2>4 DEF PostFull
  <2>5. ASSUME NEW t \in Posters, PostRelease(t) PROVE NoLostWakeup'
    BY Zenon, <2>5 DEF PostRelease
  <2>6. ASSUME NEW t \in Posters, PostWait(t) PROVE NoLostWakeup'
    BY Zenon, <2>6 DEF PostWait
  <2>7. ASSUME NEW t \in Posters, PostRelock(t) PROVE NoLostWakeup'
    BY Zenon, <2>7 DEF PostRelock
  <2>8. ASSUME NEW t \in Posters, PostStore(t) PROVE NoLostWakeup'
    BY Zenon, <2>8 DEF PostStore
  <2>9. ASSUME NEW t \in Posters, PostAdvance(t) PROVE NoLostWakeup'
    BY Zenon, <2>9 DEF PostAdvance
  <2>10. ASSUME NEW t \in Posters, PostSignal(t) PROVE NoLostWakeup'
    BY SMTT(60), <2>10 DEF PostSignal
  <2>11. ASSUME NEW t \in Fetchers, StartFetch(t) PROVE NoLostWakeup'
    BY Zenon, <2>11 DEF StartFetch
  <2>12. ASSUME NEW t \in Fetchers, FetchLock(t) PROVE NoLostWakeup'
    BY Zenon, <2>12 DEF FetchLock
  <2>13. ASSUME NEW t \in Fetchers, TryFetchEmpty(t) PROVE NoLostWakeup'
    BY Zenon, <2>13 DEF TryFetchEmpty
  <2>14. ASSUME NEW t \in Fetchers, FetchEmpty(t) PROVE NoLostWakeup'
    BY Zenon, <2>14 DEF FetchEmpty
  <2>15. ASSUME NEW t \in Fetchers, FetchRelease(t) PROVE NoLostWakeup'
    BY Zenon, <2>15 DEF FetchRelease
  <2>16. ASSUME NEW t \in Fetchers, FetchWait(t) PROVE NoLostWakeup'
    BY Zenon, <2>16 DEF FetchWait
  <2>17. ASSUME NEW t \in Fetchers, FetchTimeout(t) PROVE NoLostWakeup'
    BY Zenon, <2>17 DEF FetchTimeout
  <2>18. ASSUME NEW t \in Fetchers, FetchRead(t) PROVE NoLostWakeup'
    BY Zenon, <2>18 DEF FetchRead
  <2>19. ASSUME NEW t \in Fetchers, FetchAdvance(t) PROVE NoLostWakeup'
    BY Zenon, <2>19 DEF FetchAdvance
  <2>20. ASSUME NEW t \in Fetchers, FetchSignal(t) PROVE NoLostWakeup'
    BY Zenon, <2>20 DEF FetchSignal
  <2>21. ASSUME NEW t \in Threads, Finish(t) PROVE NoLostWakeup'
    BY Zenon, <2>21 DEF Finish
  <2>22. ASSUME NEW t \in Threads, Return(t) PROVE NoLostWakeup'
    BY Zenon, <2>22 DEF Return
  <2>23. CASE UNCHANGED vars
    BY Zenon, <2>23 DEF vars
  <2>24. QED
    BY ZenonT(60), <2>1, <2>2, <2>3, <2>4, <2>5, <2>6, <2>7, <2>8, <2>9, <2>10, <2>11, <2>12, <2>13, <2>14, <2>15, <2>16, <2>17, <2>18, <2>19, <2>20, <2>21, <2>22, <2>23 DEF Next, PostStep, FetchStep, Leave
<1>3. QED
  BY <1>1, <1>2, ControlInv, ExclusionInv, RingInv, PTL DEF Spec
------------------------------------------------------------------------------
(***************************************************************************)
(* wait_send and the posters that wait for room.                            *)
(***************************************************************************)
Waiting == {t \in Posters : pc[t] \in WaitingPCs}

\* The set of waiting posters is finite, so that its size is a number.
LEMMA WaitingFinite == IsFiniteSet(Waiting) /\ Cardinality(Waiting) \in Nat
  BY Zenon, ThreadsAssumption, FS_Subset, FS_CardinalityType DEF Waiting

\* wait_send counts the posters between their failed test and their re-test.
THEOREM WaitSendCountsCorrect == Spec => []WaitSendCounts
<1>0. WaitSendCounts <=> wait_send = Cardinality(Waiting)
  BY Zenon DEF WaitSendCounts, Waiting
<1>00. WaitSendCounts' <=> wait_send' = Cardinality(Waiting')
  BY Zenon DEF WaitSendCounts, Waiting
<1>1. Init => WaitSendCounts
  <2> SUFFICES ASSUME Init PROVE wait_send = Cardinality(Waiting)
    BY Zenon, <1>0
  <2>1. Waiting = {}
    BY Zenon DEF Init, Waiting, WaitingPCs, Threads
  <2>2. QED
    BY Zenon, <2>1, FS_EmptySet DEF Init
<1>2. Control /\ WaitSendCounts /\ [Next]_vars => WaitSendCounts'
  <2> SUFFICES ASSUME Control, wait_send = Cardinality(Waiting), [Next]_vars
               PROVE  wait_send' = Cardinality(Waiting')
    BY Zenon, <1>0, <1>00
  <2>0. /\ pc \in [Threads -> OutsidePCs \cup PostPCs \cup FetchPCs]
        /\ wait_send \in Int
        /\ \A t \in Fetchers : pc[t] \notin PostPCs
    BY Zenon DEF Control, TypeOK
  <2> USE <2>0, ThreadsAssumption
      DEF mbox, Goto, Lock, Unlock, Waiting, WaitingPCs, Threads, PostPCs, FetchPCs
  <2>1. ASSUME NEW t \in Posters, StartPost(t) PROVE wait_send' = Cardinality(Waiting')
    BY Zenon, <2>1 DEF StartPost
  <2>2. ASSUME NEW t \in Posters, PostLock(t) PROVE wait_send' = Cardinality(Waiting')
    BY Zenon, <2>2 DEF PostLock
  <2>3. ASSUME NEW t \in Posters, TryPostFull(t) PROVE wait_send' = Cardinality(Waiting')
    BY Zenon, <2>3 DEF TryPostFull
  <2>4. ASSUME NEW t \in Posters, PostFull(t) PROVE wait_send' = Cardinality(Waiting')
    <3>1. t \notin Waiting /\ Waiting' = Waiting \cup {t}
      BY Zenon, <2>4 DEF PostFull
    <3>2. Cardinality(Waiting \cup {t}) = Cardinality(Waiting) + 1
      BY ZenonT(60), <3>1, WaitingFinite, FS_AddElement
    <3>3. QED
      BY Zenon, <2>4, <3>1, <3>2 DEF PostFull
  <2>5. ASSUME NEW t \in Posters, PostRelease(t) PROVE wait_send' = Cardinality(Waiting')
    BY Zenon, <2>5 DEF PostRelease
  <2>6. ASSUME NEW t \in Posters, PostWait(t) PROVE wait_send' = Cardinality(Waiting')
    BY Zenon, <2>6 DEF PostWait
  <2>7. ASSUME NEW t \in Posters, PostRelock(t) PROVE wait_send' = Cardinality(Waiting')
    <3>1. t \in Waiting /\ Waiting' = Waiting \ {t}
      BY Zenon, <2>7 DEF PostRelock
    <3>2. Cardinality(Waiting \ {t}) = Cardinality(Waiting) - 1
      BY ZenonT(60), <3>1, WaitingFinite, FS_RemoveElement
    <3>3. QED
      BY Zenon, <2>7, <3>1, <3>2 DEF PostRelock
  <2>8. ASSUME NEW t \in Posters, PostStore(t) PROVE wait_send' = Cardinality(Waiting')
    BY ZenonT(60), <2>8 DEF PostStore
  <2>9. ASSUME NEW t \in Posters, PostAdvance(t) PROVE wait_send' = Cardinality(Waiting')
    BY Zenon, <2>9 DEF PostAdvance
  <2>10. ASSUME NEW t \in Posters, PostSignal(t) PROVE wait_send' = Cardinality(Waiting')
    BY Zenon, <2>10 DEF PostSignal
  <2>11. ASSUME NEW t \in Fetchers, StartFetch(t) PROVE wait_send' = Cardinality(Waiting')
    BY Zenon, <2>11 DEF StartFetch
  <2>12. ASSUME NEW t \in Fetchers, FetchLock(t) PROVE wait_send' = Cardinality(Waiting')
    BY Zenon, <2>12 DEF FetchLock
  <2>13. ASSUME NEW t \in Fetchers, TryFetchEmpty(t) PROVE wait_send' = Cardinality(Waiting')
    BY Zenon, <2>13 DEF TryFetchEmpty
  <2>14. ASSUME NEW t \in Fetchers, FetchEmpty(t) PROVE wait_send' = Cardinality(Waiting')
    BY Zenon, <2>14 DEF FetchEmpty
  <2>15. ASSUME NEW t \in Fetchers, FetchRelease(t) PROVE wait_send' = Cardinality(Waiting')
    BY Zenon, <2>15 DEF FetchRelease
  <2>16. ASSUME NEW t \in Fetchers, FetchWait(t) PROVE wait_send' = Cardinality(Waiting')
    BY Zenon, <2>16 DEF FetchWait
  <2>17. ASSUME NEW t \in Fetchers, FetchTimeout(t) PROVE wait_send' = Cardinality(Waiting')
    BY Zenon, <2>17 DEF FetchTimeout
  <2>18. ASSUME NEW t \in Fetchers, FetchRead(t) PROVE wait_send' = Cardinality(Waiting')
    BY Zenon, <2>18 DEF FetchRead
  <2>19. ASSUME NEW t \in Fetchers, FetchAdvance(t) PROVE wait_send' = Cardinality(Waiting')
    BY Zenon, <2>19 DEF FetchAdvance
  <2>20. ASSUME NEW t \in Fetchers, FetchSignal(t) PROVE wait_send' = Cardinality(Waiting')
    BY Zenon, <2>20 DEF FetchSignal
  <2>21. ASSUME NEW t \in Threads, Finish(t) PROVE wait_send' = Cardinality(Waiting')
    BY Zenon, <2>21 DEF Finish
  <2>22. ASSUME NEW t \in Threads, Return(t) PROVE wait_send' = Cardinality(Waiting')
    BY Zenon, <2>22 DEF Return
  <2>23. CASE UNCHANGED vars
    BY Zenon, <2>23 DEF vars
  <2>24. QED
    BY ZenonT(60), <2>1, <2>2, <2>3, <2>4, <2>5, <2>6, <2>7, <2>8, <2>9, <2>10, <2>11, <2>12, <2>13, <2>14, <2>15, <2>16, <2>17, <2>18, <2>19, <2>20, <2>21, <2>22, <2>23 DEF Next, PostStep, FetchStep, Leave
<1>3. QED
  BY <1>1, <1>2, ControlInv, PTL DEF Spec

\* A fetch that empties the mailbox while a poster waits signals not_full, and
\* a poster that takes the signal posts: posters are never all asleep beside an
\* empty mailbox, although the signals of several fetches collapse into one.
THEOREM NoStrandedPosterCorrect == Spec => []NoStrandedPoster
<1> USE SizeAssumption, ThreadsAssumption DEF NoStrandedPoster, Empty, Full, Threads
<1>1. Init => NoStrandedPoster
  BY Zenon DEF Init
<1>2. Control /\ Ring /\ WaitSendCounts /\ NoStrandedPoster /\ [Next]_vars
        => NoStrandedPoster'
  <2> SUFFICES ASSUME Control, Ring, WaitSendCounts, NoStrandedPoster, [Next]_vars
               PROVE  NoStrandedPoster'
    BY Zenon
  <2>0. /\ pc \in [Threads -> OutsidePCs \cup PostPCs \cup FetchPCs]
        /\ first \in Nat /\ last \in Nat /\ not_full \in {0, 1}
    BY Zenon DEF Control, TypeOK
  <2>00. first <= last /\ last < first + Size
    BY Zenon DEF Ring
  <2>000. (\E p \in Posters : pc[p] = "p_wait") => wait_send # 0
    <3> SUFFICES ASSUME NEW p \in Posters, pc[p] = "p_wait", wait_send = 0
                 PROVE  FALSE
      BY Zenon
    <3>1. p \in Waiting
      BY Zenon DEF Waiting, WaitingPCs
    <3>2. Waiting = {}
      BY Zenon, WaitingFinite, FS_EmptySet DEF WaitSendCounts, Waiting
    <3>3. QED
      BY Zenon, <3>1, <3>2
  <2> USE <2>0, <2>00, <2>000
      DEF mbox, sems, Goto, Lock, Unlock, SemWait, SemSignal
  <2>1. ASSUME NEW t \in Posters, StartPost(t) PROVE NoStrandedPoster'
    BY Zenon, <2>1 DEF StartPost
  <2>2. ASSUME NEW t \in Posters, PostLock(t) PROVE NoStrandedPoster'
    BY Zenon, <2>2 DEF PostLock
  <2>3. ASSUME NEW t \in Posters, TryPostFull(t) PROVE NoStrandedPoster'
    BY SMTT(60), <2>3 DEF TryPostFull
  <2>4. ASSUME NEW t \in Posters, PostFull(t) PROVE NoStrandedPoster'
    BY SMTT(60), <2>4 DEF PostFull
  <2>5. ASSUME NEW t \in Posters, PostRelease(t) PROVE NoStrandedPoster'
    BY SMTT(60), <2>5 DEF PostRelease, Ring
  <2>6. ASSUME NEW t \in Posters, PostWait(t) PROVE NoStrandedPoster'
    BY Zenon, <2>6 DEF PostWait
  <2>7. ASSUME NEW t \in Posters, PostRelock(t) PROVE NoStrandedPoster'
    BY Zenon, <2>7 DEF PostRelock
  <2>8. ASSUME NEW t \in Posters, PostStore(t) PROVE NoStrandedPoster'
    BY Zenon, <2>8 DEF PostStore
  <2>9. ASSUME NEW t \in Posters, PostAdvance(t) PROVE NoStrandedPoster'
    BY SMTT(60), <2>9 DEF PostAdvance
  <2>10. ASSUME NEW t \in Posters, PostSignal(t) PROVE NoStrandedPoster'
    BY Zenon, <2>10 DEF PostSignal
  <2>11. ASSUME NEW t \in Fetchers, StartFetch(t) PROVE NoStrandedPoster'
    BY Zenon, <2>11 DEF StartFetch
  <2>12. ASSUME NEW t \in Fetchers, FetchLock(t) PROVE NoStrandedPoster'
    BY Zenon, <2>12 DEF FetchLock
  <2>13. ASSUME NEW t \in Fetchers, TryFetchEmpty(t) PROVE NoStrandedPoster'
    BY Zenon, <2>13 DEF TryFetchEmpty
  <2>14. ASSUME NEW t \in Fetchers, FetchEmpty(t) PROVE NoStrandedPoster'
    BY Zenon, <2>14 DEF FetchEmpty
  <2>15. ASSUME NEW t \in Fetchers, FetchRelease(t) PROVE NoStrandedPoster'
    BY Zenon, <2>15 DEF FetchRelease
  <2>16. ASSUME NEW t \in Fetchers, FetchWait(t) PROVE NoStrandedPoster'
    BY Zenon, <2>16 DEF FetchWait
  <2>17. ASSUME NEW t \in Fetchers, FetchTimeout(t) PROVE NoStrandedPoster'
    BY Zenon, <2>17 DEF FetchTimeout
  <2>18. ASSUME NEW t \in Fetchers, FetchRead(t) PROVE NoStrandedPoster'
    BY Zenon, <2>18 DEF FetchRead
  <2>19. ASSUME NEW t \in Fetchers, FetchAdvance(t) PROVE NoStrandedPoster'
    BY Zenon, <2>19 DEF FetchAdvance
  <2>20. ASSUME NEW t \in Fetchers, FetchSignal(t) PROVE NoStrandedPoster'
    BY SMTT(60), <2>20 DEF FetchSignal
  <2>21. ASSUME NEW t \in Threads, Finish(t) PROVE NoStrandedPoster'
    BY Zenon, <2>21 DEF Finish
  <2>22. ASSUME NEW t \in Threads, Return(t) PROVE NoStrandedPoster'
    BY Zenon, <2>22 DEF Return
  <2>23. CASE UNCHANGED vars
    BY Zenon, <2>23 DEF vars
  <2>24. QED
    BY ZenonT(60), <2>1, <2>2, <2>3, <2>4, <2>5, <2>6, <2>7, <2>8, <2>9, <2>10, <2>11, <2>12, <2>13, <2>14, <2>15, <2>16, <2>17, <2>18, <2>19, <2>20, <2>21, <2>22, <2>23 DEF Next, PostStep, FetchStep, Leave
<1>3. QED
  BY <1>1, <1>2, ControlInv, RingInv, WaitSendCountsCorrect, PTL DEF Spec
------------------------------------------------------------------------------
(***************************************************************************)
(* The mailbox implements a bounded FIFO.                                   *)
(***************************************************************************)

\* The slots between two counters form a sequence.
LEMMA SlotsSeq ==
  ASSUME NEW f \in Nat, NEW l \in Nat, f <= l,
         NEW ms \in [0..(Size - 1) -> Contents]
  PROVE  /\ Slots(f, l, ms) \in Seq(Contents)
         /\ Len(Slots(f, l, ms)) = l - f
         /\ \A i \in 1..(l - f) : Slots(f, l, ms)[i] = ms[(f + i - 1) % Size]
         /\ Slots(f, l, ms) = <<>> <=> f = l
<1> DEFINE s == Slots(f, l, ms)
           n == l - f
<1>1. \A i \in 1..n : (f + i - 1) % Size \in 0..(Size - 1)
  BY SMTT(60), SizeAssumption, DivMod
<1>2. s \in [1..n -> Contents] /\ \A i \in 1..n : s[i] = ms[(f + i - 1) % Size]
  BY ZenonT(60), <1>1 DEF Slots
<1>3. n \in Nat
  OBVIOUS
<1> HIDE DEF s, n
<1>4. s \in Seq(Contents) /\ Len(s) = n
  BY <1>2, <1>3
<1>5. s = <<>> <=> n = 0
  BY Zenon, <1>4, EmptySeq
<1>6. QED
  BY <1>2, <1>4, <1>5 DEF s, n

\* Advancing `last` appends the slot it pointed to.
LEMMA SlotsAppend ==
  ASSUME NEW f \in Nat, NEW l \in Nat, f <= l,
         NEW ms \in [0..(Size - 1) -> Contents]
  PROVE  Slots(f, l + 1, ms) = Append(Slots(f, l, ms), ms[l % Size])
<1> DEFINE s == Slots(f, l, ms)
           u == Slots(f, l + 1, ms)
           m == ms[l % Size]
<1>0. ASSUME NEW k \in Nat, f <= k
      PROVE  /\ Slots(f, k, ms) \in Seq(Contents) /\ Len(Slots(f, k, ms)) = k - f
             /\ \A i \in 1..(k - f) : Slots(f, k, ms)[i] = ms[(f + i - 1) % Size]
  <2>1. Slots(f, k, ms) \in Seq(Contents)
    BY Zenon, <1>0, SlotsSeq
  <2>2. Len(Slots(f, k, ms)) = k - f
    BY Zenon, <1>0, SlotsSeq
  <2>3. \A i \in 1..(k - f) : Slots(f, k, ms)[i] = ms[(f + i - 1) % Size]
    BY Zenon DEF Slots
  <2>4. QED
    BY Zenon, <2>1, <2>2, <2>3
<1>1. /\ s \in Seq(Contents) /\ Len(s) = l - f
      /\ \A i \in 1..(l - f) : s[i] = ms[(f + i - 1) % Size]
  BY Zenon, <1>0
<1>2. /\ u \in Seq(Contents) /\ Len(u) = l + 1 - f
      /\ \A i \in 1..(l + 1 - f) : u[i] = ms[(f + i - 1) % Size]
  <2>1. l + 1 \in Nat /\ f <= l + 1
    OBVIOUS
  <2>2. QED
    BY <1>0, <2>1
<1>3. m \in Contents
  BY Zenon, SizeAssumption, DivMod
<1>4. u[l + 1 - f] = m
  <2>1. f + (l + 1 - f) - 1 = l
    OBVIOUS
  <2>2. QED
    BY SMTT(60), <2>1, <1>2
<1> HIDE DEF s, u, m
<1>5. Append(s, m) \in Seq(Contents) /\ Len(Append(s, m)) = l + 1 - f
  BY SMTT(60), <1>1, <1>3
<1>6. \A i \in 1..(l - f) : u[i] = s[i]
  BY SMTT(60), <1>1, <1>2
<1>7. \A i \in 1..(l + 1 - f) : u[i] = Append(s, m)[i]
  BY SMTT(60), <1>1, <1>3, <1>4, <1>6
<1>8. u = Append(s, m)
  BY Zenon, <1>2, <1>5, <1>7, SeqEqual
<1>9. QED
  BY Zenon, <1>8 DEF s, u, m

\* Advancing `first` removes the slot it pointed to.
LEMMA SlotsTail ==
  ASSUME NEW f \in Nat, NEW l \in Nat, f < l,
         NEW ms \in [0..(Size - 1) -> Contents]
  PROVE  /\ Head(Slots(f, l, ms)) = ms[f % Size]
         /\ Slots(f + 1, l, ms) = Tail(Slots(f, l, ms))
<1> DEFINE s == Slots(f, l, ms)
           u == Slots(f + 1, l, ms)
<1>1. /\ s \in Seq(Contents) /\ Len(s) = l - f /\ s # <<>>
      /\ \A i \in 1..(l - f) : s[i] = ms[(f + i - 1) % Size]
  <2>1. f <= l /\ f # l
    OBVIOUS
  <2>2. QED
    BY <2>1, SlotsSeq, Zenon
<1>2. /\ u \in Seq(Contents) /\ Len(u) = l - (f + 1)
      /\ \A i \in 1..(l - (f + 1)) : u[i] = ms[((f + 1) + i - 1) % Size]
  <2>1. PICK k \in Nat : k = f + 1 /\ k <= l
    OBVIOUS
  <2>2. Slots(k, l, ms) \in Seq(Contents)
    BY Zenon, <2>1, SlotsSeq
  <2>3. Len(Slots(k, l, ms)) = l - k
    BY Zenon, <2>1, SlotsSeq
  <2>4. \A i \in 1..(l - k) : Slots(k, l, ms)[i] = ms[(k + i - 1) % Size]
    BY Zenon DEF Slots
  <2>5. QED
    BY Zenon, <2>1, <2>2, <2>3, <2>4
<1> HIDE DEF s, u
<1>3. Head(s) = ms[f % Size]
  <2>1. 1 \in 1..(l - f) /\ f + 1 - 1 = f
    OBVIOUS
  <2>2. s[1] = ms[f % Size]
    BY Zenon, <2>1, <1>1
  <2>3. QED
    BY <2>2, <1>1
<1>4. /\ Tail(s) \in Seq(Contents) /\ Len(Tail(s)) = l - f - 1
      /\ \A i \in 1..(l - f - 1) : Tail(s)[i] = s[i + 1]
  BY SMTT(60), <1>1, HeadTailProperties
<1>5. ASSUME NEW i \in 1..(l - f - 1)
      PROVE  u[i] = Tail(s)[i]
  <2>1. i + 1 \in 1..(l - f) /\ i \in 1..(l - (f + 1))
    BY SMTT(60)
  <2>2. s[i + 1] = ms[(f + (i + 1) - 1) % Size]
    BY Zenon, <2>1, <1>1
  <2>3. u[i] = ms[((f + 1) + i - 1) % Size]
    BY Zenon, <2>1, <1>2
  <2>4. (f + 1) + i - 1 = f + (i + 1) - 1
    BY SMTT(60)
  <2>5. QED
    BY Zenon, <2>2, <2>3, <2>4, <1>4
<1>6. u = Tail(s)
  <2>1. Len(u) = Len(Tail(s)) /\ Len(u) = l - f - 1
    BY <1>2, <1>4
  <2>2. QED
    BY Zenon, <1>2, <1>4, <1>5, <2>1, SeqEqual
<1>7. QED
  BY Zenon, <1>3, <1>6 DEF s, u

\* Writing the slot at `last` of a ring that is not full changes no message
\* that is in it.
LEMMA SlotsStore ==
  ASSUME NEW f \in Nat, NEW l \in Nat, f <= l, l < f + Size,
         NEW ms \in [0..(Size - 1) -> Contents], NEW m
  PROVE  Slots(f, l, [ms EXCEPT ![l % Size] = m]) = Slots(f, l, ms)
<1> DEFINE ms2 == [ms EXCEPT ![l % Size] = m]
<1>1. ASSUME NEW i \in 1..(l - f)
      PROVE  ms2[(f + i - 1) % Size] = ms[(f + i - 1) % Size]
  <2>1. (f + i - 1) \in Nat /\ f + i - 1 < l /\ l < (f + i - 1) + Size
    BY SMTT(60), SizeAssumption
  <2>2. (f + i - 1) % Size # l % Size
    BY ZenonT(60), <2>1, SizeAssumption, SlotsDiffer
  <2>3. (f + i - 1) % Size \in 0..(Size - 1)
    BY Zenon, <2>1, SizeAssumption, DivMod
  <2>4. QED
    BY Zenon, <2>2, <2>3
<1> HIDE DEF ms2
<1>2. Slots(f, l, ms2) = Slots(f, l, ms)
  BY ZenonT(60), <1>1 DEF Slots
<1>3. QED
  BY Zenon, <1>2 DEF ms2

(***************************************************************************)
(* Refinement.  The steps that matter are PostAdvance and FetchAdvance; the *)
(* others leave the abstract queue alone, PostStore because of SlotsStore.  *)
(***************************************************************************)

\* The abstract queue and its length, from the ring.
LEMMA QueueFacts ==
  ASSUME Control, Ring
  PROVE  /\ Len(Queue) = last - first
         /\ Queue = <<>> <=> Empty
         /\ Len(Queue) < Size - 1 <=> ~Full
         /\ Len(Queue) = Size - 1 <=> Full
<1>1. /\ first \in Nat /\ last \in Nat /\ first <= last /\ last < first + Size
      /\ msgs \in [0..(Size - 1) -> Contents]
  BY Zenon DEF Control, TypeOK, Ring
<1>2. Len(Queue) = last - first /\ (Queue = <<>> <=> first = last)
  BY <1>1, SlotsSeq, Zenon DEF Queue
<1>3. QED
  BY <1>1, <1>2, SizeAssumption DEF Empty, Full

\* The mailbox of the Unix port implements the bounded FIFO of lwip/sys.h: the
\* effect of a post or a fetch is one step, the one that advances a counter.
THEOREM ImplementsFifoCorrect == Spec => ImplementsFifo
<1>1. Init => Fifo!Init
  <2> SUFFICES ASSUME Init PROVE Fifo!Init
    BY Zenon
  <2>1. Slots(0, 0, msgs) = <<>>
    BY SMTT(60) DEF Slots
  <2>2. QED
    BY Zenon, <2>1 DEF Init, Fifo!Init, Queue, Threads, Fifo!Threads, NoCall, Fifo!NoCall,
                Result, Fifo!Result
<1>2. Control /\ Ring /\ [Next]_vars => [Fifo!Next]_(Fifo!vars)
  <2> SUFFICES ASSUME Control, Ring, [Next]_vars
               PROVE  Fifo!Next \/ UNCHANGED Fifo!vars
    BY Zenon DEF Fifo!vars
  <2> DEFINE Goal == Fifo!Next \/ UNCHANGED Fifo!vars
  <2>a. Fifo!vars = <<Queue, call, ret>>
    BY Zenon DEF Fifo!vars
  <2>b. ASSUME UNCHANGED <<first, last, msgs>> PROVE UNCHANGED Queue
    BY Zenon, <2>b DEF Queue
  <2>c. ASSUME UNCHANGED <<mbox, call, ret>> PROVE Goal
    BY Zenon, <2>a, <2>b, <2>c DEF mbox, Fifo!vars
  <2>d. ASSUME NEW t \in Threads,
               \/ Fifo!Invoke(t) \/ Fifo!Put(t) \/ Fifo!Refuse(t) \/ Fifo!Take(t)
               \/ Fifo!FindEmpty(t) \/ Fifo!TimeOut(t) \/ Fifo!Return(t)
        PROVE  Goal
    BY Zenon, <2>d DEF Fifo!Next, Threads, Fifo!Threads
  <2>e. /\ first \in Nat /\ last \in Nat /\ first <= last /\ last < first + Size
        /\ msgs \in [0..(Size - 1) -> Contents]
        /\ pc \in [Threads -> OutsidePCs \cup PostPCs \cup FetchPCs]
        /\ ret \in [Threads -> Results]
    BY Zenon DEF Control, TypeOK, Ring
  <2>f. \A t \in Threads :
          /\ pc[t] = "idle" <=> call[t] = NoCall
          /\ pc[t] \in PostPCs => call[t] \in PostCalls
          /\ pc[t] \in FetchPCs => call[t] \in FetchCalls
          /\ pc[t] \in UndecidedPCs => ret[t] = Pending
          /\ pc[t] \in DecidedPCs => ret[t] # Pending
    BY Zenon DEF Control
  <2>g. Posters \subseteq Threads /\ Fetchers \subseteq Threads
    BY Zenon DEF Threads
  <2>h. ASSUME NEW c \in PostCalls
        PROVE  c.op \in {"post", "trypost"} /\ c.op \in PostOps
    BY ZenonT(60), OpsAssumption DEF PostCalls
  <2>i. ASSUME NEW c \in FetchCalls
        PROVE  c.op \in {"fetch", "timedfetch", "tryfetch"}
    BY ZenonT(60), OpsAssumption DEF FetchCalls
  <2>j. /\ NoCall = Fifo!NoCall /\ Pending = Fifo!Pending
        /\ PostCalls = Fifo!PostCalls /\ FetchCalls = Fifo!FetchCalls
        /\ \A k : Result(k) = Fifo!Result(k)
        /\ \A m : Received(m) = Fifo!Received(m)
    BY Zenon DEF NoCall, Pending, PostCalls, FetchCalls, Result, Received, Fifo!NoCall,
           Fifo!Pending, Fifo!PostCalls, Fifo!FetchCalls, Fifo!Result, Fifo!Received
  <2> HIDE DEF Goal
  <2>1. ASSUME NEW t \in Posters, StartPost(t) PROVE Goal
    <3>1. Fifo!Invoke(t)
      BY ZenonT(60), <2>1, <2>b, <2>f, <2>g, <2>j
      DEF StartPost, Goto, Decide, mbox, Fifo!Invoke, Fifo!Decide
    <3>2. QED
      BY Zenon, <3>1, <2>d, <2>g
  <2>2. ASSUME NEW t \in Posters, PostLock(t) PROVE Goal
    BY Zenon, <2>2, <2>c DEF PostLock
  <2>3. ASSUME NEW t \in Posters, TryPostFull(t) PROVE Goal
    <3>1. Fifo!Undecided(t, {"trypost"})
      BY Zenon, <2>3, <2>f, <2>g, <2>j
      DEF TryPostFull, Goto, UndecidedPCs, DecidedPCs, PostPCs, FetchPCs, Fifo!Undecided
    <3>2. Fifo!Refuse(t)
      BY ZenonT(60), <2>3, <3>1, <2>b, <2>j, QueueFacts
      DEF TryPostFull, Decide, mbox, Fifo!Refuse, Fifo!Decide
    <3>3. QED
      BY Zenon, <3>2, <2>d, <2>g
  <2>4. ASSUME NEW t \in Posters, PostFull(t) PROVE Goal
    BY Zenon, <2>4, <2>a, <2>b DEF PostFull, Goal, Fifo!vars
  <2>5. ASSUME NEW t \in Posters, PostRelease(t) PROVE Goal
    BY Zenon, <2>5, <2>c DEF PostRelease
  <2>6. ASSUME NEW t \in Posters, PostWait(t) PROVE Goal
    BY Zenon, <2>6, <2>c DEF PostWait
  <2>7. ASSUME NEW t \in Posters, PostRelock(t) PROVE Goal
    BY Zenon, <2>7, <2>a, <2>b DEF PostRelock, Goal, Fifo!vars
  <2>8. ASSUME NEW t \in Posters, PostStore(t) PROVE Goal
    <3>1. Slots(first, last, msgs') = Slots(first, last, msgs)
      BY ZenonT(60), <2>8, <2>e, SlotsStore DEF PostStore
    <3>2. UNCHANGED Queue
      BY Zenon, <2>8, <3>1 DEF PostStore, Queue
    <3>3. QED
      BY Zenon, <2>8, <3>2, <2>a DEF PostStore, Goal, Fifo!vars
  <2>9. ASSUME NEW t \in Posters, PostAdvance(t) PROVE Goal
    <3>1. Fifo!Undecided(t, {"post", "trypost"})
      BY Zenon, <2>9, <2>f, <2>g, <2>h, <2>j
      DEF PostAdvance, Goto, UndecidedPCs, DecidedPCs, PostPCs, FetchPCs,
          Fifo!Undecided
    <3>2. ~Full /\ msgs[last % Size] = call[t].msg
      BY ZenonT(60), <2>9, <2>g DEF PostAdvance, Goto, Ring
    <3>3. Slots(first, last + 1, msgs) = Append(Queue, call[t].msg)
      BY <3>2, <2>e, SlotsAppend, Zenon DEF Queue
    <3>4. Queue' = Append(Queue, call[t].msg)
      BY Zenon, <2>9, <3>3 DEF PostAdvance, Queue
    <3>5. Fifo!Put(t)
      BY ZenonT(60), <2>9, <3>1, <3>2, <3>4, <2>j, QueueFacts
      DEF PostAdvance, Decide, Fifo!Put, Fifo!Decide
    <3>6. QED
      BY Zenon, <3>5, <2>d, <2>g
  <2>10. ASSUME NEW t \in Posters, PostSignal(t) PROVE Goal
    BY Zenon, <2>10, <2>c DEF PostSignal
  <2>11. ASSUME NEW t \in Fetchers, StartFetch(t) PROVE Goal
    <3>1. Fifo!Invoke(t)
      BY ZenonT(60), <2>11, <2>b, <2>f, <2>g, <2>j
      DEF StartFetch, Goto, Decide, mbox, Fifo!Invoke, Fifo!Decide
    <3>2. QED
      BY Zenon, <3>1, <2>d, <2>g
  <2>12. ASSUME NEW t \in Fetchers, FetchLock(t) PROVE Goal
    BY Zenon, <2>12, <2>c DEF FetchLock
  <2>13. ASSUME NEW t \in Fetchers, TryFetchEmpty(t) PROVE Goal
    <3>1. Fifo!Undecided(t, {"tryfetch"})
      BY Zenon, <2>13, <2>f, <2>g, <2>j
      DEF TryFetchEmpty, Goto, UndecidedPCs, DecidedPCs, PostPCs, FetchPCs, Fifo!Undecided
    <3>2. Fifo!FindEmpty(t)
      BY ZenonT(60), <2>13, <3>1, <2>b, <2>j, QueueFacts
      DEF TryFetchEmpty, Decide, mbox, Fifo!FindEmpty, Fifo!Decide
    <3>3. QED
      BY Zenon, <3>2, <2>d, <2>g
  <2>14. ASSUME NEW t \in Fetchers, FetchEmpty(t) PROVE Goal
    BY Zenon, <2>14, <2>c DEF FetchEmpty
  <2>15. ASSUME NEW t \in Fetchers, FetchRelease(t) PROVE Goal
    BY Zenon, <2>15, <2>c DEF FetchRelease
  <2>16. ASSUME NEW t \in Fetchers, FetchWait(t) PROVE Goal
    BY Zenon, <2>16, <2>c DEF FetchWait
  <2>17. ASSUME NEW t \in Fetchers, FetchTimeout(t) PROVE Goal
    <3>1. Fifo!Undecided(t, {"timedfetch"})
      BY Zenon, <2>17, <2>f, <2>g, <2>j
      DEF FetchTimeout, Goto, UndecidedPCs, DecidedPCs, PostPCs, FetchPCs, Fifo!Undecided
    <3>2. Fifo!TimeOut(t)
      BY ZenonT(60), <2>17, <3>1, <2>b, <2>j, QueueFacts
      DEF FetchTimeout, Decide, mbox, Fifo!TimeOut, Fifo!Decide
    <3>3. QED
      BY Zenon, <3>2, <2>d, <2>g
  <2>18. ASSUME NEW t \in Fetchers, FetchRead(t) PROVE Goal
    BY Zenon, <2>18, <2>c DEF FetchRead
  <2>19. ASSUME NEW t \in Fetchers, FetchAdvance(t) PROVE Goal
    <3>1. Fifo!Undecided(t, {"fetch", "timedfetch", "tryfetch"})
      BY ZenonT(60), <2>19, <2>f, <2>g, <2>i, <2>j
      DEF FetchAdvance, Goto, UndecidedPCs, DecidedPCs, PostPCs, FetchPCs,
          Fifo!Undecided
    <3>2. ~Empty /\ got[t] = msgs[first % Size]
      BY ZenonT(60), <2>19, <2>g DEF FetchAdvance, Goto, Ring
    <3>3. first < last
      BY <3>2, <2>e DEF Empty
    <3>4. Head(Queue) = got[t] /\ Slots(first + 1, last, msgs) = Tail(Queue)
      BY <3>2, <3>3, <2>e, SlotsTail, Zenon DEF Queue
    <3>5. Queue' = Tail(Queue)
      BY Zenon, <2>19, <3>4 DEF FetchAdvance, Queue
    <3>6. Fifo!Take(t)
      BY ZenonT(60), <2>19, <3>1, <3>2, <3>4, <3>5, <2>j, QueueFacts
      DEF FetchAdvance, Decide, Fifo!Take, Fifo!Decide
    <3>7. QED
      BY Zenon, <3>6, <2>d, <2>g
  <2>20. ASSUME NEW t \in Fetchers, FetchSignal(t) PROVE Goal
    BY Zenon, <2>20, <2>c DEF FetchSignal
  <2>21. ASSUME NEW t \in Threads, Finish(t) PROVE Goal
    BY Zenon, <2>21, <2>c DEF Finish
  <2>22. ASSUME NEW t \in Threads, Return(t) PROVE Goal
    <3>1. Fifo!Return(t)
      BY Zenon, <2>22, <2>b, <2>f, <2>j
      DEF Return, Goto, mbox, DecidedPCs, Fifo!Return
    <3>2. QED
      BY Zenon, <3>1, <2>d
  <2>23. CASE UNCHANGED vars
    BY Zenon, <2>23, <2>c DEF vars, Goal
  <2>24. QED
    BY Zenon, <2>1, <2>2, <2>3, <2>4, <2>5, <2>6, <2>7, <2>8, <2>9, <2>10, <2>11, <2>12, <2>13, <2>14, <2>15, <2>16, <2>17, <2>18, <2>19, <2>20, <2>21, <2>22, <2>23 DEF Next, PostStep, FetchStep, Leave, Goal
<1>3. QED
  BY <1>1, <1>2, ControlInv, RingInv, PTL DEF Spec, ImplementsFifo, Fifo!Spec
==============================================================================
