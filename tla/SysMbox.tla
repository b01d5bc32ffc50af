------------------------------- MODULE SysMbox -------------------------------
(***************************************************************************)
(* The mailbox of the Unix port (contrib/ports/unix/port/sys_arch.c): a     *)
(* ring of SYS_MBOX_SIZE pointers between two counters that only grow, a    *)
(* binary semaphore used as a mutex, and two binary semaphores that posters *)
(* and fetchers block on.  A thread moves from one semaphore operation to   *)
(* the next through pc; every step touches one semaphore or one field.      *)
(***************************************************************************)
EXTENDS Integers, Sequences, FiniteSets

CONSTANTS Posters,   \* threads that post
          Fetchers,  \* threads that fetch
          Msgs,      \* the pointers posted
          Size,      \* SYS_MBOX_SIZE
          PostOps,   \* calls of the posters, a subset of {"post", "trypost"}
          FetchOps,  \* of the fetchers, of {"fetch", "timedfetch", "tryfetch"}
          MaxLast    \* no post is started once `last` has reached this bound

ASSUME SizeAssumption == Size \in Nat \ {0, 1}
ASSUME OpsAssumption == /\ PostOps \subseteq {"post", "trypost"}
                        /\ FetchOps \subseteq {"fetch", "timedfetch", "tryfetch"}
ASSUME MaxLastAssumption == MaxLast \in Nat
ASSUME ThreadsAssumption == IsFiniteSet(Posters) /\ Posters \cap Fetchers = {}

VARIABLES first, last,          \* int first, last
          msgs,                 \* void *msgs[SYS_MBOX_SIZE]
          not_empty, not_full,  \* count of each semaphore
          mutex,                \* count of the semaphore used as a lock
          wait_send,            \* number of posters waiting for room
          pc,                   \* pc[t]: where thread t is
          call, ret,            \* the call thread t executes, and its result
          was_empty,            \* the poster's local variable `first`
          got                   \* the fetcher's *msg

mbox == <<first, last, msgs, wait_send>>
sems == <<not_empty, not_full, mutex>>
locals == <<was_empty, got>>
vars == <<mbox, sems, pc, call, ret, locals>>

Threads == Posters \cup Fetchers
NoCall == [op |-> "none"]
Pending == [kind |-> "pending"]
Result(kind) == [kind |-> kind]
Received(m) == [kind |-> "received", msg |-> m]
PostCalls == [op : PostOps, msg : Msgs]
FetchCalls == [op : FetchOps]

\* Initial content of a slot and of *msg: not a message that was posted.
Garbage == [kind |-> "garbage"]
------------------------------------------------------------------------------
(***************************************************************************)
(* Semaphores, at the level of their calls (SysSem refines these steps).    *)
(***************************************************************************)
SemWait(c) == c > 0
SemSignal(c) == IF c + 1 > 1 THEN 1 ELSE c + 1

Goto(t, from, to) == pc[t] = from /\ pc' = [pc EXCEPT ![t] = to]
Decide(t, r) == ret' = [ret EXCEPT ![t] = r]

Lock(t, from, to) ==
  /\ Goto(t, from, to)
  /\ SemWait(mutex)
  /\ mutex' = mutex - 1
  /\ UNCHANGED <<not_empty, not_full>>

Unlock(t, from, to) ==
  /\ Goto(t, from, to)
  /\ mutex' = SemSignal(mutex)
  /\ UNCHANGED <<not_empty, not_full>>

\* Mutant: the last slot is used as well.
FullLate == last >= first + Size

Full == last + 1 >= first + Size
Empty == first = last
------------------------------------------------------------------------------
(***************************************************************************)
(* sys_mbox_new                                                             *)
(***************************************************************************)
Init ==
  /\ first = 0 /\ last = 0
  /\ msgs = [i \in 0..(Size - 1) |-> Garbage]
  /\ not_empty = 0 /\ not_full = 0 /\ mutex = 1
  /\ wait_send = 0
  /\ pc = [t \in Threads |-> "idle"]
  /\ call = [t \in Threads |-> NoCall]
  /\ ret = [t \in Threads |-> Result("ERR_OK")]
  /\ was_empty = [t \in Threads |-> FALSE]
  /\ got = [t \in Threads |-> Garbage]

\* A thread enters sys_mbox_post, sys_mbox_trypost (or its _fromisr alias).
StartPost(t) ==
  /\ Goto(t, "idle", "p_lock")
  /\ last < MaxLast
  /\ \E c \in PostCalls : call' = [call EXCEPT ![t] = c]
  /\ Decide(t, Pending)
  /\ UNCHANGED <<mbox, sems, locals>>

\* A thread enters sys_arch_mbox_fetch or sys_arch_mbox_tryfetch.
StartFetch(t) ==
  /\ Goto(t, "idle", "f_lock")
  /\ \E c \in FetchCalls : call' = [call EXCEPT ![t] = c]
  /\ Decide(t, Pending)
  /\ UNCHANGED <<mbox, sems, locals>>

(***************************************************************************)
(* sys_mbox_post and sys_mbox_trypost                                       *)
(***************************************************************************)
PostLock(t) ==
  /\ Lock(t, "p_lock", "p_test")
  /\ UNCHANGED <<mbox, call, ret, locals>>

TryPostFull(t) ==
  /\ Goto(t, "p_test", "unlock")
  /\ Full /\ call[t].op = "trypost"
  /\ Decide(t, Result("ERR_MEM"))
  /\ UNCHANGED <<mbox, sems, call, locals>>

PostFull(t) ==
  /\ Goto(t, "p_test", "p_release")
  /\ Full /\ call[t].op = "post"
  /\ wait_send' = wait_send + 1
  /\ UNCHANGED <<first, last, msgs, sems, call, ret, locals>>

PostRelease(t) ==
  /\ Unlock(t, "p_release", "p_wait")
  /\ UNCHANGED <<mbox, call, ret, locals>>

PostWait(t) ==
  /\ Goto(t, "p_wait", "p_relock")
  /\ SemWait(not_full)
  /\ not_full' = not_full - 1
  /\ UNCHANGED <<mbox, not_empty, mutex, call, ret, locals>>

PostRelock(t) ==
  /\ Lock(t, "p_relock", "p_test")
  /\ wait_send' = wait_send - 1
  /\ UNCHANGED <<first, last, msgs, call, ret, locals>>

PostStore(t) ==
  /\ Goto(t, "p_test", "p_advance")
  /\ ~Full
  /\ msgs' = [msgs EXCEPT ![last % Size] = call[t].msg]
  /\ was_empty' = [was_empty EXCEPT ![t] = (last = first)]
  /\ UNCHANGED <<first, last, wait_send, sems, call, ret, got>>

PostAdvance(t) ==
  /\ Goto(t, "p_advance", "p_signal")
  /\ last' = last + 1
  /\ Decide(t, Result("ERR_OK"))
  /\ UNCHANGED <<first, msgs, wait_send, sems, call, locals>>

\* Mutant: sys_mbox_trypost forgets to signal.
PostSignalNotTry(t) ==
  /\ Goto(t, "p_signal", "unlock")
  /\ not_empty' = IF was_empty[t] /\ call[t].op = "post"
                    THEN SemSignal(not_empty) ELSE not_empty
  /\ UNCHANGED <<mbox, not_full, mutex, call, ret, locals>>

PostSignal(t) ==
  /\ Goto(t, "p_signal", "unlock")
  /\ not_empty' = IF was_empty[t] THEN SemSignal(not_empty) ELSE not_empty
  /\ UNCHANGED <<mbox, not_full, mutex, call, ret, locals>>

(***************************************************************************)
(* sys_arch_mbox_fetch and sys_arch_mbox_tryfetch                           *)
(***************************************************************************)
FetchLock(t) ==
  /\ Lock(t, "f_lock", "f_test")
  /\ UNCHANGED <<mbox, call, ret, locals>>

TryFetchEmpty(t) ==
  /\ Goto(t, "f_test", "unlock")
  /\ Empty /\ call[t].op = "tryfetch"
  /\ Decide(t, Result("SYS_MBOX_EMPTY"))
  /\ UNCHANGED <<mbox, sems, call, locals>>

FetchEmpty(t) ==
  /\ Goto(t, "f_test", "f_release")
  /\ Empty /\ call[t].op # "tryfetch"
  /\ UNCHANGED <<mbox, sems, call, ret, locals>>

FetchRelease(t) ==
  /\ Unlock(t, "f_release", "f_wait")
  /\ UNCHANGED <<mbox, call, ret, locals>>

FetchWait(t) ==
  /\ Goto(t, "f_wait", "f_lock")
  /\ SemWait(not_empty)
  /\ not_empty' = not_empty - 1
  /\ UNCHANGED <<mbox, not_full, mutex, call, ret, locals>>

\* sys_arch_sem_wait(&mbox->not_empty, timeout) gives up: the mutex is not
\* taken again.  The semaphore may be signalled in the same instant.
FetchTimeout(t) ==
  /\ Goto(t, "f_wait", "return")
  /\ call[t].op = "timedfetch"
  /\ Decide(t, Result("SYS_ARCH_TIMEOUT"))
  /\ UNCHANGED <<mbox, sems, call, locals>>

FetchRead(t) ==
  /\ Goto(t, "f_test", "f_advance")
  /\ ~Empty
  /\ got' = [got EXCEPT ![t] = msgs[first % Size]]
  /\ UNCHANGED <<mbox, sems, call, ret, was_empty>>

FetchAdvance(t) ==
  /\ Goto(t, "f_advance", "f_signal")
  /\ first' = first + 1
  /\ Decide(t, Received(got[t]))
  /\ UNCHANGED <<last, msgs, wait_send, sems, call, locals>>

\* Mutant: an off-by-one in the test of wait_send.
FetchSignalTwoWaiting(t) ==
  /\ Goto(t, "f_signal", "unlock")
  /\ not_full' = IF wait_send > 1 THEN SemSignal(not_full) ELSE not_full
  /\ UNCHANGED <<mbox, not_empty, mutex, call, ret, locals>>

FetchSignal(t) ==
  /\ Goto(t, "f_signal", "unlock")
  /\ not_full' = IF wait_send # 0 THEN SemSignal(not_full) ELSE not_full
  /\ UNCHANGED <<mbox, not_empty, mutex, call, ret, locals>>

Finish(t) ==
  /\ Unlock(t, "unlock", "return")
  /\ UNCHANGED <<mbox, call, ret, locals>>

Return(t) ==
  /\ Goto(t, "return", "idle")
  /\ call' = [call EXCEPT ![t] = NoCall]
  /\ UNCHANGED <<mbox, sems, ret, locals>>
------------------------------------------------------------------------------
PostStep(t) ==
  \/ PostLock(t) \/ TryPostFull(t) \/ PostFull(t) \/ PostRelease(t)
  \/ PostWait(t) \/ PostRelock(t) \/ PostStore(t) \/ PostAdvance(t)
  \/ PostSignal(t)

FetchStep(t) ==
  \/ FetchLock(t) \/ TryFetchEmpty(t) \/ FetchEmpty(t) \/ FetchRelease(t)
  \/ FetchWait(t) \/ FetchTimeout(t) \/ FetchRead(t) \/ FetchAdvance(t)
  \/ FetchSignal(t)

Leave(t) == Finish(t) \/ Return(t)

Next ==
  \/ \E t \in Posters : StartPost(t) \/ PostStep(t)
  \/ \E t \in Fetchers : StartFetch(t) \/ FetchStep(t)
  \/ \E t \in Threads : Leave(t)

Spec == Init /\ [][Next]_vars

\* The scheduler runs every thread that can run, contention for a semaphore does
\* not starve a thread for ever, and the fetchers loop over their mailbox, as
\* tcpip_thread does.  A post need not be started.
Fairness ==
  /\ \A t \in Posters : SF_vars(PostStep(t) \/ Leave(t))
  /\ \A t \in Fetchers : SF_vars(FetchStep(t) \/ Leave(t)) /\ WF_vars(StartFetch(t))

FairSpec == Spec /\ Fairness
------------------------------------------------------------------------------
(***************************************************************************)
(* Properties                                                               *)
(***************************************************************************)
PostPCs == {"p_lock", "p_test", "p_release", "p_wait", "p_relock",
            "p_advance", "p_signal"}
OutsidePCs == {"idle", "unlock", "return"}
FetchPCs == {"f_lock", "f_test", "f_release", "f_wait", "f_advance", "f_signal"}
CriticalPCs == {"p_test", "p_release", "p_advance", "p_signal",
                "f_test", "f_release", "f_advance", "f_signal", "unlock"}
WaitingPCs == {"p_release", "p_wait", "p_relock"}

Contents == Msgs \cup {Garbage}
Results == {Pending}
             \cup {Result(k) : k \in {"ERR_OK", "ERR_MEM", "SYS_MBOX_EMPTY",
                                      "SYS_ARCH_TIMEOUT"}}
             \cup {Received(m) : m \in Contents}

\* Type invariant: the counters are naturals and the semaphores binary.
TypeOK ==
  /\ first \in Nat /\ last \in Nat
  /\ msgs \in [0..(Size - 1) -> Contents]
  /\ not_empty \in {0, 1} /\ not_full \in {0, 1} /\ mutex \in {0, 1}
  /\ wait_send \in Int
  /\ pc \in [Threads -> OutsidePCs \cup PostPCs \cup FetchPCs]
  /\ call \in [Threads -> {NoCall} \cup PostCalls \cup FetchCalls]
  /\ ret \in [Threads -> Results]
  /\ was_empty \in [Threads -> BOOLEAN]
  /\ got \in [Threads -> Contents]

\* The semaphore `mutex` of a mailbox lets one thread at a time between
\* sys_arch_sem_wait(&mbox->mutex) and sys_sem_signal(&mbox->mutex), although
\* a signal saturates at 1 and would hide a double release.
MutualExclusion ==
  \A s, t \in Threads :
    pc[s] \in CriticalPCs /\ pc[t] \in CriticalPCs => s = t

\* wait_send is exactly the number of posters that found the mailbox full and
\* have not re-tested it: sys_arch_mbox_fetch relies on it to signal not_full.
WaitSendCounts ==
  wait_send = Cardinality({t \in Posters : pc[t] \in WaitingPCs})

\* A fetcher never sleeps on not_empty beside a message nobody will announce:
\* when it is blocked and the mailbox holds a message, not_empty is signalled
\* or the poster of the first message is about to signal it.
NoLostWakeup ==
  \A t \in Fetchers :
    pc[t] = "f_wait" /\ ~Empty =>
      \/ not_empty = 1
      \/ \E p \in Posters : pc[p] = "p_signal" /\ was_empty[p]

\* Posters never sleep on not_full beside an empty mailbox: a signal is there
\* or on its way, or a poster that was woken is about to post, or the mailbox
\* still holds messages whose fetch will signal.
NoStrandedPoster ==
  (\E t \in Posters : pc[t] = "p_wait") =>
    \/ ~Empty
    \/ not_full = 1
    \/ \E f \in Fetchers : pc[f] = "f_signal"
    \/ \E p \in Posters : pc[p] \in {"p_relock", "p_test", "p_advance"}

\* The mailbox as its callers see it.
Slots(f, l, ms) == [i \in 1..(l - f) |-> ms[(f + i - 1) % Size]]
Queue == Slots(first, last, msgs)
Fifo == INSTANCE BoundedFifo WITH queue <- Queue, Capacity <- Size - 1

\* The ring, its counters and its three semaphores implement a bounded FIFO of
\* SYS_MBOX_SIZE - 1 messages: nothing is lost, duplicated or reordered, a
\* trypost fails only when full and a tryfetch only when empty.
ImplementsFifo == Fifo!Spec

\* "may not fail -> blocks if full": a blocked post completes, because the
\* fetcher keeps draining the mailbox and wait_send makes it signal.
PostCompletes ==
  \A t \in Posters : (call[t].op = "post") ~> (call[t] = NoCall)

==============================================================================
