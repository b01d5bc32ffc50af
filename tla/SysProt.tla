------------------------------- MODULE SysProt -------------------------------
(***************************************************************************)
(* SYS_ARCH_PROTECT of the Unix port: a pthread mutex made recursive by an  *)
(* owner and a count.  The owner is read without the mutex; pthread_t loads *)
(* and stores are single steps here, as on the platforms the port runs on.  *)
(***************************************************************************)
EXTENDS Integers

CONSTANTS Callers, Dead,  \* Dead: the value 0xDEAD of lwprot_thread
          MaxDepth        \* bound on the nesting of protected regions

ASSUME DeadAssumption == Dead \notin Callers
ASSUME DepthAssumption == MaxDepth \in Nat \ {0}

VARIABLES lwprot_mutex,   \* holder of the pthread mutex, or Dead
          lwprot_thread,  \* the recorded owner
          lwprot_count,   \* nesting depth of the owner
          pc,             \* pc[t]: where thread t is
          depth           \* depth[t]: SYS_ARCH_PROTECTs of t not yet undone

vars == <<lwprot_mutex, lwprot_thread, lwprot_count, pc, depth>>

Goto(t, from, to) == pc[t] = from /\ pc' = [pc EXCEPT ![t] = to]

Init ==
  /\ lwprot_mutex = Dead
  /\ lwprot_thread = Dead
  /\ lwprot_count = 0
  /\ pc = [t \in Callers |-> "run"]
  /\ depth = [t \in Callers |-> 0]

(***************************************************************************)
(* sys_arch_protect                                                         *)
(***************************************************************************)
\* The unlocked test: another thread owns the region, or nobody does.
ProtectTest(t) ==
  /\ Goto(t, "run", "lock")
  /\ depth[t] < MaxDepth
  /\ lwprot_thread # t
  /\ UNCHANGED <<lwprot_mutex, lwprot_thread, lwprot_count, depth>>

\* Mutant: a recorded owner is taken for the calling thread.
ProtectAgainAnyOwner(t) ==
  /\ pc[t] = "run"
  /\ depth[t] < MaxDepth
  /\ lwprot_thread # Dead
  /\ lwprot_count' = lwprot_count + 1
  /\ depth' = [depth EXCEPT ![t] = @ + 1]
  /\ UNCHANGED <<lwprot_mutex, lwprot_thread, pc>>

\* "It is already locked by THIS thread"
ProtectAgain(t) ==
  /\ pc[t] = "run"
  /\ depth[t] < MaxDepth
  /\ lwprot_thread = t
  /\ lwprot_count' = lwprot_count + 1
  /\ depth' = [depth EXCEPT ![t] = @ + 1]
  /\ UNCHANGED <<lwprot_mutex, lwprot_thread, pc>>

ProtectLock(t) ==
  /\ Goto(t, "lock", "claim")
  /\ lwprot_mutex = Dead
  /\ lwprot_mutex' = t
  /\ UNCHANGED <<lwprot_thread, lwprot_count, depth>>

ProtectClaim(t) ==
  /\ Goto(t, "claim", "count")
  /\ lwprot_thread' = t
  /\ UNCHANGED <<lwprot_mutex, lwprot_count, depth>>

ProtectCount(t) ==
  /\ Goto(t, "count", "run")
  /\ lwprot_count' = 1
  /\ depth' = [depth EXCEPT ![t] = @ + 1]
  /\ UNCHANGED <<lwprot_mutex, lwprot_thread>>

(***************************************************************************)
(* sys_arch_unprotect, called by a thread inside a protected region         *)
(***************************************************************************)
\* A thread that is not the recorded owner would have its call ignored.
UnprotectIgnored(t) ==
  /\ depth' = [depth EXCEPT ![t] = @ - 1]
  /\ UNCHANGED <<lwprot_count, pc>>

\* Mutant: the count is tested before it is counted down.
UnprotectCountLate(t) ==
  /\ lwprot_count' = lwprot_count - 1
  /\ IF lwprot_count = 0
       THEN pc' = [pc EXCEPT ![t] = "disown"] /\ UNCHANGED depth
       ELSE depth' = [depth EXCEPT ![t] = @ - 1] /\ UNCHANGED pc

UnprotectCount(t) ==
  /\ lwprot_count' = lwprot_count - 1
  /\ IF lwprot_count' = 0
       THEN pc' = [pc EXCEPT ![t] = "disown"] /\ UNCHANGED depth
       ELSE depth' = [depth EXCEPT ![t] = @ - 1] /\ UNCHANGED pc

Unprotect(t) ==
  /\ pc[t] = "run" /\ depth[t] > 0
  /\ IF lwprot_thread = t THEN UnprotectCount(t) ELSE UnprotectIgnored(t)
  /\ UNCHANGED <<lwprot_mutex, lwprot_thread>>

UnprotectDisown(t) ==
  /\ Goto(t, "disown", "unlock")
  /\ lwprot_thread' = Dead
  /\ UNCHANGED <<lwprot_mutex, lwprot_count, depth>>

UnprotectUnlock(t) ==
  /\ Goto(t, "unlock", "run")
  /\ lwprot_mutex' = Dead
  /\ depth' = [depth EXCEPT ![t] = @ - 1]
  /\ UNCHANGED <<lwprot_thread, lwprot_count>>

ProtectStep(t) == ProtectLock(t) \/ ProtectClaim(t) \/ ProtectCount(t)
LeaveStep(t) == UnprotectDisown(t) \/ UnprotectUnlock(t)

Next ==
  \E t \in Callers :
    ProtectTest(t) \/ ProtectAgain(t) \/ ProtectStep(t) \/ Unprotect(t) \/ LeaveStep(t)

Spec == Init /\ [][Next]_vars

\* A protected region is "very short": at every depth it is left sometime.
\* Contention for a pthread mutex does not starve a thread for ever.
Fairness ==
  \A t \in Callers :
    /\ SF_vars(ProtectStep(t))
    /\ WF_vars(LeaveStep(t))
    /\ \A d \in 1..MaxDepth : SF_vars(depth[t] = d /\ Unprotect(t))

FairSpec == Spec /\ Fairness
------------------------------------------------------------------------------
\* Type invariant.
TypeOK ==
  /\ lwprot_mutex \in Callers \cup {Dead}
  /\ lwprot_thread \in Callers \cup {Dead}
  /\ lwprot_count \in 0..MaxDepth
  /\ pc \in [Callers -> {"run", "lock", "claim", "count", "disown", "unlock"}]
  /\ depth \in [Callers -> 0..MaxDepth]

\* Two threads are never both between SYS_ARCH_PROTECT and the matching
\* SYS_ARCH_UNPROTECT, although sys_arch_protect decides on an unlocked read
\* of lwprot_thread whether to take the mutex at all.
MutualExclusion ==
  \A s, t \in Callers : depth[s] > 0 /\ depth[t] > 0 => s = t

\* Inside a region the owner and the count are those of the thread inside:
\* no sys_arch_unprotect is ignored, and the mutex is released by the
\* outermost one and by no other.
CountIsDepth ==
  \A t \in Callers :
    pc[t] = "run" /\ depth[t] > 0
      => lwprot_thread = t /\ lwprot_mutex = t /\ lwprot_count = depth[t]

\* A thread that asks for protection gets it.
ProtectReturns == \A t \in Callers : pc[t] = "lock" ~> depth[t] > 0
==============================================================================
