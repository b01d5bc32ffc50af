---------------------------- MODULE SysProtProofs ----------------------------
(***************************************************************************)
(* Protection excludes and nests, for any number of threads and any depth.  *)
(***************************************************************************)
EXTENDS SysProt, TLAPS

\* What sys_arch_protect and sys_arch_unprotect maintain about the thread t.
\* A thread holds the mutex exactly when it is inside a region or on its way
\* in or out, and only then can lwprot_thread name it: the unlocked test can
\* be stale about other threads, never about the one that executes it.
Holding(t) == pc[t] \in {"claim", "count", "disown", "unlock"} \/ depth[t] > 0

ThreadInv(t) ==
  /\ Holding(t) <=> lwprot_mutex = t
  /\ lwprot_thread = t => lwprot_mutex = t /\ pc[t] \in {"run", "count", "disown"}
  /\ pc[t] \in {"lock", "claim", "count"} => depth[t] = 0
  /\ pc[t] \in {"disown", "unlock"} => depth[t] = 1
  /\ pc[t] \in {"count", "disown"} => lwprot_thread = t
  /\ pc[t] = "disown" => lwprot_count = 0
  /\ pc[t] = "run" /\ depth[t] > 0
       => lwprot_thread = t /\ lwprot_count = depth[t]

IInv == TypeOK /\ \A t \in Callers : ThreadInv(t)

\* The inductive invariant of sys_arch_protect and sys_arch_unprotect.
THEOREM Inductive == Spec => []IInv
<1> USE DeadAssumption, DepthAssumption DEF TypeOK, ThreadInv, Holding
<1>1. Init => IInv
  BY DEF Init, IInv
<1>2. IInv /\ [Next]_vars => IInv'
  <2> SUFFICES ASSUME IInv, [Next]_vars PROVE IInv'
    OBVIOUS
  <2> USE DEF IInv, Goto
  <2>1. ASSUME NEW t \in Callers, ProtectTest(t) PROVE IInv'
    BY <2>1 DEF ProtectTest
  <2>2. ASSUME NEW t \in Callers, ProtectAgain(t) PROVE IInv'
    BY <2>2 DEF ProtectAgain
  <2>3. ASSUME NEW t \in Callers, ProtectLock(t) PROVE IInv'
    BY <2>3 DEF ProtectLock
  <2>4. ASSUME NEW t \in Callers, ProtectClaim(t) PROVE IInv'
    BY <2>4 DEF ProtectClaim
  <2>5. ASSUME NEW t \in Callers, ProtectCount(t) PROVE IInv'
    BY <2>5 DEF ProtectCount
  <2>6. ASSUME NEW t \in Callers, Unprotect(t) PROVE IInv'
    BY <2>6 DEF Unprotect, UnprotectCount, UnprotectIgnored
  <2>7. ASSUME NEW t \in Callers, UnprotectDisown(t) PROVE IInv'
    BY <2>7 DEF UnprotectDisown
  <2>8. ASSUME NEW t \in Callers, UnprotectUnlock(t) PROVE IInv'
    BY <2>8 DEF UnprotectUnlock
  <2>9. CASE UNCHANGED vars
    BY <2>9 DEF vars
  <2> QED
    BY <2>1, <2>2, <2>3, <2>4, <2>5, <2>6, <2>7, <2>8, <2>9
       DEF Next, ProtectStep, LeaveStep
<1> QED
  BY <1>1, <1>2, PTL DEF Spec

\* Two threads are never inside protected regions together, whatever the
\* number of threads and however deeply the regions nest.
THEOREM MutualExclusionCorrect == Spec => []MutualExclusion
<1>1. IInv => MutualExclusion
  BY DeadAssumption DEF IInv, ThreadInv, Holding, TypeOK, MutualExclusion
<1> QED
  BY <1>1, Inductive, PTL

\* The owner and the count are those of the thread inside, so that exactly
\* the outermost sys_arch_unprotect releases the mutex.
THEOREM CountIsDepthCorrect == Spec => []CountIsDepth
<1>1. IInv => CountIsDepth
  BY DEF IInv, ThreadInv, Holding, CountIsDepth
<1> QED
  BY <1>1, Inductive, PTL
==============================================================================
