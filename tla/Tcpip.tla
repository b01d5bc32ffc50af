-------------------------------- MODULE Tcpip --------------------------------
(***************************************************************************)
(* tcpip_thread and its clients (lwip/src/api/tcpip.c) in the build of the  *)
(* Unix port: core locking on, packets passed through the mailbox.  The     *)
(* mailbox is the bounded FIFO that SysMbox implements; messages are blocks *)
(* of two fixed pools; packets are counted references.                      *)
(***************************************************************************)
EXTENDS Integers, Sequences, FiniteSets

CONSTANTS Apps,        \* threads that call into the stack
          Drivers,     \* receive threads of the network interfaces
          Pkts,        \* the pbufs the drivers can allocate
          InpktMsgs,   \* MEMP_TCPIP_MSG_INPKT
          ApiMsgs,     \* MEMP_TCPIP_MSG_API
          Capacity     \* messages tcpip_mbox can hold

VARIABLES core,      \* holder of lock_tcpip_core, or None
          holder_id, \* lwip_core_lock_holder_thread_id
          mbox,      \* tcpip_mbox, a sequence of blocks
          free,      \* blocks in the free lists of the two pools
          msg,       \* msg[b]: what is written in block b
          pc,        \* pc[t]: where thread t is
          cur,       \* cur[t]: the local variable msg of thread t, or None
          static,    \* static[a]: the static callback message of a, or None
          rx,        \* rx[d]: the packet driver d holds, or None
          ref,       \* ref[p]: p->ref
          kept,      \* packets the stack has kept (ARP queue, reassembly)
          cyclic,    \* whether sys_timeouts_init has started cyclic timers
          timers,    \* the timeout list: "none", "pending" or "due"
          owed       \* owed[a]: callbacks of a accepted and not yet called

T == "tcpip_thread"
None == "none"

\* Threads, pools and packets are finite and apart; None is none of them.
ASSUME ThreadsAssumption ==
  /\ IsFiniteSet(Apps) /\ IsFiniteSet(Drivers) /\ Apps \cap Drivers = {}
  /\ T \notin Apps \cup Drivers /\ None \notin Apps \cup Drivers
ASSUME PoolsAssumption ==
  InpktMsgs \cap ApiMsgs = {} /\ None \notin InpktMsgs \cup ApiMsgs \cup Pkts
ASSUME CapacityAssumption == Capacity \in Nat \ {0}

Threads == Apps \cup Drivers \cup {T}
Blocks == InpktMsgs \cup ApiMsgs

lock == <<core, holder_id>>
pool == <<free, msg>>
packets == <<rx, ref, kept>>
vars == <<lock, mbox, pool, pc, cur, static, packets, cyclic, timers, owed>>

Goto(t, from, to) == pc[t] = from /\ pc' = [pc EXCEPT ![t] = to]
Hold(t, b) == cur' = [cur EXCEPT ![t] = b]
Written(type, arg) == [type |-> type, arg |-> arg]

\* The state tcpip_init leaves, as tcpip_thread starts.
Init ==
  /\ core = None /\ holder_id = None
  /\ mbox = <<>>
  /\ free = Blocks
  /\ msg = [b \in Blocks |-> Written("unused", None)]
  /\ pc = [t \in Threads |-> IF t = T THEN "lock" ELSE "idle"]
  /\ cur = [t \in Threads |-> None]
  /\ static = [a \in Apps |-> None]
  /\ rx = [d \in Drivers |-> None]
  /\ ref = [p \in Pkts |-> 0]
  /\ kept = {}
  /\ cyclic \in BOOLEAN
  /\ timers = IF cyclic THEN "pending" ELSE "none"
  /\ owed = [a \in Apps |-> 0]
------------------------------------------------------------------------------
(***************************************************************************)
(* sys_lock_tcpip_core and sys_unlock_tcpip_core                            *)
(***************************************************************************)
\* Mutant: a core without a recorded holder is taken for unlocked.
LockCoreUnrecorded(t, from, to) ==
  /\ Goto(t, from, to)
  /\ holder_id = None
  /\ core' = t
  /\ UNCHANGED <<cyclic, holder_id, mbox, pool, cur, static, packets, timers, owed>>

LockCore(t, from, to) ==
  /\ Goto(t, from, to)
  /\ core = None
  /\ core' = t
  /\ UNCHANGED <<cyclic, holder_id, mbox, pool, cur, static, packets, timers, owed>>

ClaimCore(t, from, to) ==
  /\ Goto(t, from, to)
  /\ holder_id' = t
  /\ UNCHANGED <<cyclic, core, mbox, pool, cur, static, packets, timers, owed>>

DisclaimCore(t, from, to) ==
  /\ Goto(t, from, to)
  /\ holder_id' = None
  /\ UNCHANGED <<cyclic, core, mbox, pool, cur, static, packets, timers, owed>>

UnlockCore(t, from, to) ==
  /\ Goto(t, from, to)
  /\ core' = None
  /\ UNCHANGED <<cyclic, holder_id, mbox, pool, cur, static, packets, timers, owed>>

(***************************************************************************)
(* tcpip_timeouts_mbox_fetch                                                *)
(***************************************************************************)
\* tcpip_thread has the lock and the message, if any, that it fetched last.
Start ==
  \/ LockCore(T, "lock", "claim")
  \/ ClaimCore(T, "claim", "again")
  \/ LockCore(T, "relock", "reclaim")
  \/ ClaimCore(T, "reclaim", "handle")
  \/ LockCore(T, "relock_late", "reclaim_late")
  \/ ClaimCore(T, "reclaim_late", "check")

\* Mutant: a timer to wait for is taken for none.
SleepForEverPending == timers # "due" /\ DisclaimCore(T, "again", "unlock_forever")

\* sys_timeouts_sleeptime decides: no timer, a timer due, a timer to wait for.
SleepForEver == timers = "none" /\ DisclaimCore(T, "again", "unlock_forever")
SleepSome == timers = "pending" /\ DisclaimCore(T, "again", "unlock_some")

Release ==
  \/ UnlockCore(T, "unlock_forever", "fetch_forever")
  \/ UnlockCore(T, "unlock_some", "fetch_some")

\* sys_check_timeouts: handlers of expired timers run; the stack drops some
\* of the packets it kept, and one-shot timers may leave the list empty.
CheckTimeouts ==
  /\ \/ pc[T] = "check"
     \/ pc[T] = "again" /\ timers = "due"
  /\ pc' = [pc EXCEPT ![T] = "again"]
  /\ IF timers = "due"
       THEN /\ timers' \in {"pending"} \cup (IF cyclic THEN {} ELSE {"none"})
            /\ kept' \in SUBSET kept
            /\ ref' = [p \in Pkts |-> IF p \in kept \ kept' THEN ref[p] - 1 ELSE ref[p]]
       ELSE UNCHANGED <<timers, kept, ref>>
  /\ UNCHANGED <<cyclic, lock, mbox, pool, cur, static, rx, owed>>

\* Mutant: what a timed fetch returns is taken for a timeout.
FetchUntimed ==
  /\ Goto(T, "fetch_forever", "relock")
  /\ mbox # <<>>
  /\ Hold(T, Head(mbox))
  /\ mbox' = Tail(mbox)
  /\ UNCHANGED <<cyclic, lock, pool, static, packets, timers, owed>>

Fetch ==
  /\ Goto(T, "fetch_forever", "relock") \/ Goto(T, "fetch_some", "relock")
  /\ mbox # <<>>
  /\ Hold(T, Head(mbox))
  /\ mbox' = Tail(mbox)
  /\ UNCHANGED <<cyclic, lock, pool, static, packets, timers, owed>>

\* SYS_ARCH_TIMEOUT; a message may have been posted by then.
FetchTimeout ==
  /\ Goto(T, "fetch_some", "relock_late")
  /\ UNCHANGED <<cyclic, lock, mbox, pool, cur, static, packets, timers, owed>>

TimerExpires ==
  /\ timers = "pending"
  /\ timers' = "due"
  /\ UNCHANGED <<cyclic, lock, mbox, pool, pc, cur, static, packets, owed>>

(***************************************************************************)
(* tcpip_thread_handle_msg                                                  *)
(***************************************************************************)
\* The input function frees the packet or, failing, has tcpip_thread free it;
\* or it keeps the packet for later.
HandleInput ==
  LET p == msg[cur[T]].arg IN
  /\ Goto(T, "handle", "free_msg")
  /\ msg[cur[T]].type = "INPKT"
  /\ \/ ref' = [ref EXCEPT ![p] = @ - 1] /\ UNCHANGED kept
     \/ kept' = kept \cup {p} /\ UNCHANGED ref
  /\ UNCHANGED <<cyclic, lock, mbox, pool, cur, static, rx, timers, owed>>

\* Mutant: the message is freed without calling the function.
HandleCallbackDropped ==
  /\ Goto(T, "handle", "free_msg")
  /\ msg[cur[T]].type = "CALLBACK"
  /\ UNCHANGED <<cyclic, lock, mbox, pool, cur, static, packets, timers, owed>>

HandleCallback ==
  /\ Goto(T, "handle", "free_msg")
  /\ msg[cur[T]].type = "CALLBACK"
  /\ owed' = [owed EXCEPT ![msg[cur[T]].arg] = @ - 1]
  /\ UNCHANGED <<cyclic, lock, mbox, pool, cur, static, packets, timers>>

HandleCallbackStatic ==
  /\ Goto(T, "handle", "again")
  /\ msg[cur[T]].type = "CALLBACK_STATIC"
  /\ owed' = [owed EXCEPT ![msg[cur[T]].arg] = @ - 1]
  /\ Hold(T, None)
  /\ UNCHANGED <<cyclic, lock, mbox, pool, static, packets, timers>>

FreeMsg ==
  /\ Goto(T, "free_msg", "again")
  /\ free' = free \cup {cur[T]}
  /\ Hold(T, None)
  /\ UNCHANGED <<cyclic, lock, mbox, msg, static, packets, timers, owed>>

TcpipStep ==
  \/ Start \/ SleepForEver \/ SleepSome \/ Release \/ CheckTimeouts \/ Fetch
  \/ FetchTimeout \/ HandleInput \/ HandleCallback \/ HandleCallbackStatic
  \/ FreeMsg
------------------------------------------------------------------------------
(***************************************************************************)
(* tapif_thread, tapif_input and tcpip_inpkt                                *)
(***************************************************************************)
Alloc(t, blocks, content) ==
  \E b \in blocks \cap free :
    /\ free' = free \ {b}
    /\ msg' = [msg EXCEPT ![b] = content]
    /\ Hold(t, b)

Free(t) == free' = free \cup {cur[t]} /\ Hold(t, None) /\ UNCHANGED msg

MboxFull == Len(mbox) >= Capacity
Post(t) == ~MboxFull /\ mbox' = Append(mbox, cur[t]) /\ Hold(t, None)

Receive(d) ==
  /\ Goto(d, "idle", "inpkt")
  /\ \E p \in Pkts : /\ ref[p] = 0
                     /\ ref' = [ref EXCEPT ![p] = 1]
                     /\ rx' = [rx EXCEPT ![d] = p]
  /\ UNCHANGED <<cyclic, lock, mbox, pool, cur, static, kept, timers, owed>>

InpktAlloc(d) ==
  /\ Goto(d, "inpkt", "trypost")
  /\ Alloc(d, InpktMsgs, Written("INPKT", rx[d]))
  /\ UNCHANGED <<cyclic, lock, mbox, static, packets, timers, owed>>

InpktNoMsg(d) ==
  /\ Goto(d, "inpkt", "refused")
  /\ InpktMsgs \cap free = {}
  /\ UNCHANGED <<cyclic, lock, mbox, pool, cur, static, packets, timers, owed>>

InpktPost(d) ==
  /\ Goto(d, "trypost", "idle")
  /\ Post(d)
  /\ rx' = [rx EXCEPT ![d] = None]
  /\ UNCHANGED <<cyclic, lock, pool, static, ref, kept, timers, owed>>

InpktFull(d) ==
  /\ Goto(d, "trypost", "refused")
  /\ MboxFull
  /\ Free(d)
  /\ UNCHANGED <<cyclic, lock, mbox, static, packets, timers, owed>>

\* tapif_input frees the packet that netif->input refused.
Drop(d) ==
  /\ Goto(d, "refused", "idle")
  /\ ref' = [ref EXCEPT ![rx[d]] = @ - 1]
  /\ rx' = [rx EXCEPT ![d] = None]
  /\ UNCHANGED <<cyclic, lock, mbox, pool, cur, static, kept, timers, owed>>

DriverStep(d) ==
  InpktAlloc(d) \/ InpktNoMsg(d) \/ InpktPost(d) \/ InpktFull(d) \/ Drop(d)
------------------------------------------------------------------------------
(***************************************************************************)
(* Application threads: core locking (tcpip_api_call and direct use), timers *)
(* set under the lock, and callbacks.                                       *)
(***************************************************************************)
EnterCore(a) == LockCore(a, "idle", "core_claim")

LeaveCore(a) ==
  \/ ClaimCore(a, "core_claim", "core")
  \/ DisclaimCore(a, "core", "core_unlock")
  \/ UnlockCore(a, "core_unlock", "idle")

\* sys_timeout and sys_untimeout under the core lock.
SetTimers(a) ==
  /\ pc[a] = "core"
  /\ \/ timers = "none" /\ timers' = "pending"
     \/ ~cyclic /\ timers # "none" /\ timers' = "none"
  /\ UNCHANGED <<cyclic, lock, mbox, pool, pc, cur, static, packets, owed>>

\* tcpip_callback and tcpip_try_callback; only the latter is used with the
\* core locked.
CallbackAlloc(a) ==
  /\ \/ Goto(a, "idle", "post")
     \/ Goto(a, "idle", "trypost")
     \/ Goto(a, "core", "trypost")
  /\ Alloc(a, ApiMsgs, Written("CALLBACK", a))
  /\ UNCHANGED <<cyclic, lock, mbox, static, packets, timers, owed>>

Back(a) == IF core = a THEN "core" ELSE "idle"

CallbackPost(a) ==
  /\ Goto(a, "post", "idle") \/ Goto(a, "trypost", Back(a))
  /\ Post(a)
  /\ owed' = [owed EXCEPT ![a] = @ + 1]
  /\ UNCHANGED <<cyclic, lock, pool, static, packets, timers>>

\* Mutant: the message is not freed when the mailbox is full.
TryCallbackFullLeaks(a) ==
  /\ Goto(a, "trypost", Back(a))
  /\ MboxFull
  /\ Hold(a, None)
  /\ UNCHANGED <<cyclic, lock, mbox, pool, static, packets, timers, owed>>

TryCallbackFull(a) ==
  /\ Goto(a, "trypost", Back(a))
  /\ MboxFull
  /\ Free(a)
  /\ UNCHANGED <<cyclic, lock, mbox, static, packets, timers, owed>>

\* tcpip_callbackmsg_new, _trycallback and _delete.  The owner deletes its
\* message when none of its posts is outstanding.
StaticNew(a) ==
  /\ pc[a] = "idle" /\ static[a] = None
  /\ \E b \in ApiMsgs \cap free :
       /\ free' = free \ {b}
       /\ msg' = [msg EXCEPT ![b] = Written("CALLBACK_STATIC", a)]
       /\ static' = [static EXCEPT ![a] = b]
  /\ UNCHANGED <<cyclic, lock, mbox, pc, cur, packets, timers, owed>>

StaticPost(a) ==
  /\ pc[a] = "idle" /\ static[a] # None
  /\ ~MboxFull
  /\ mbox' = Append(mbox, static[a])
  /\ owed' = [owed EXCEPT ![a] = @ + 1]
  /\ UNCHANGED <<cyclic, lock, pool, pc, cur, static, packets, timers>>

\* tcpip_callbackmsg_delete frees the message as it is: that it is not queued and not
\* being handled is the caller's part of the contract, not a test of the code.
StaticDelete(a) ==
  /\ pc[a] = "idle" /\ static[a] # None
  /\ static[a] # cur[T] /\ \A i \in DOMAIN mbox : mbox[i] # static[a]
  /\ free' = free \cup {static[a]}
  /\ static' = [static EXCEPT ![a] = None]
  /\ UNCHANGED <<cyclic, lock, mbox, msg, pc, cur, packets, timers, owed>>

AppStep(a) == LeaveCore(a) \/ CallbackPost(a) \/ TryCallbackFull(a)
AppCall(a) ==
  \/ EnterCore(a) \/ SetTimers(a) \/ CallbackAlloc(a)
  \/ StaticNew(a) \/ StaticPost(a) \/ StaticDelete(a)

Next ==
  \/ TcpipStep \/ TimerExpires
  \/ \E d \in Drivers : Receive(d) \/ DriverStep(d)
  \/ \E a \in Apps : AppStep(a) \/ AppCall(a)

Spec == Init /\ [][Next]_vars

\* Threads that can run do; contention for the core lock or for room in the
\* mailbox does not starve a thread for ever.  Applications and drivers need
\* not call, but leave the core once they are in.  Timer intervals are long
\* (100 ms and more): tcpip_thread does not find a timer due on every turn, nor
\* time out on every look at a mailbox that is not empty.
Fairness ==
  /\ SF_vars(Start) /\ WF_vars(TcpipStep) /\ SF_vars(SleepSome) /\ SF_vars(Fetch)
  /\ \A d \in Drivers : WF_vars(DriverStep(d))
  /\ \A a \in Apps : SF_vars(AppStep(a))
                   /\ SF_vars(DisclaimCore(a, "core", "core_unlock"))

FairSpec == Spec /\ Fairness
------------------------------------------------------------------------------
(***************************************************************************)
(* Properties                                                               *)
(***************************************************************************)
\* Type invariant.
TypeOK ==
  /\ core \in Threads \cup {None} /\ holder_id \in Threads \cup {None}
  /\ mbox \in Seq(Blocks) /\ Len(mbox) <= Capacity
  /\ free \subseteq Blocks
  /\ cur \in [Threads -> Blocks \cup {None}]
  /\ static \in [Apps -> ApiMsgs \cup {None}]
  /\ rx \in [Drivers -> Pkts \cup {None}]
  /\ ref \in [Pkts -> 0..1] /\ kept \subseteq Pkts
  /\ cyclic \in BOOLEAN /\ timers \in {"none", "pending", "due"}
  /\ owed \in [Apps -> Nat]

\* Places where lwIP core code runs, and asserts that the core is locked.
InCore(t) ==
  \/ t = T /\ pc[t] \in {"again", "check", "handle", "free_msg"}
  \/ t \in Apps /\ (pc[t] = "core" \/ (pc[t] = "trypost" /\ core = t))

\* LWIP_ASSERT_CORE_LOCKED never fires: whoever runs core code holds the lock
\* and is the recorded holder, although others set and reset the record.
HolderIsInside ==
  \A t \in Threads : InCore(t) => core = t /\ holder_id = t

Occurrences(b) == {i \in DOMAIN mbox : mbox[i] = b}
Holders(b) == {t \in Threads : cur[t] = b}
Owned(b) == \E a \in Apps : static[a] = b

\* Every message is in one place: free, with the thread that fills or handles
\* it, or once in the mailbox; only static messages are posted repeatedly, and
\* none is freed while queued.  No pool leaks whichever call fails.
BlocksAccounted ==
  /\ TypeOK
  /\ \A b \in Blocks :
       \/ b \in free /\ Occurrences(b) = {} /\ Holders(b) = {} /\ ~Owned(b)
       \/ b \notin free /\ Owned(b)
       \/ b \notin free /\ ~Owned(b)
            /\ Cardinality(Occurrences(b)) + Cardinality(Holders(b)) = 1

\* The message tcpip_thread has fetched and not yet acted upon.
Unhandled == IF pc[T] \in {"relock", "reclaim", "handle"} THEN {cur[T]} ELSE {}
Queued(S) == {i \in DOMAIN mbox : msg[mbox[i]] \in S}
Count(S) == Cardinality(Queued(S)) + Cardinality({b \in Unhandled : msg[b] \in S})

\* The reference count of a packet is the number of its owners: a driver, a
\* message, the stack.  It is freed once, also when the pool is empty, the
\* mailbox is full or the input function fails.
PacketRefs ==
  \A p \in Pkts :
    ref[p] = Cardinality({d \in Drivers : rx[d] = p})
               + Count({Written("INPKT", p)})
               + (IF p \in kept THEN 1 ELSE 0)

\* A callback that was accepted is called once: it is in the mailbox, under
\* its own name, until tcpip_thread calls it.
CallbacksConserved ==
  \A a \in Apps :
    owed[a] = Count({Written("CALLBACK", a), Written("CALLBACK_STATIC", a)})

\* What is in the mailbox, and what it was handed for, agree.
OwnersCounted == PacketRefs /\ CallbacksConserved

\* A callback that was accepted, or that is blocked on a full mailbox, reaches
\* tcpip_thread, although other threads keep the core lock and the mailbox busy.
CallbackHandled ==
  \A a \in Apps :
    (pc[a] = "post" \/ owed[a] > 0) ~> (cur[T] # None /\ msg[cur[T]].arg = a)

\* With cyclic timers, expired timers run, although tcpip_thread sleeps on its
\* mailbox and does not learn of timers other threads set in the meantime.
TimersRun == (cyclic /\ timers = "due") ~> timers # "due"
==============================================================================
