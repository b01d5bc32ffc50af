----------------------------- MODULE TcpipProofs -----------------------------
(***************************************************************************)
(* tcpip_thread and its clients for any threads, message pools and mailbox  *)
(* size: who has the core lock, and where every message is.                 *)
(***************************************************************************)
EXTENDS Tcpip, TLAPS

(***************************************************************************)
(* Where threads can be                                                     *)
(***************************************************************************)
\* tcpip_thread with a message that it has fetched.
FetchedPCs == {"relock", "reclaim", "handle", "free_msg"}
TcpipPCs == {"lock", "claim", "again", "check", "unlock_forever", "unlock_some",
             "fetch_forever", "fetch_some", "relock_late", "reclaim_late"} \cup FetchedPCs
AppPCs == {"idle", "core_claim", "core", "core_unlock", "post", "trypost"}
DriverPCs == {"idle", "inpkt", "trypost", "refused"}

Places ==
  /\ pc \in [Threads -> TcpipPCs \cup AppPCs \cup DriverPCs]
  /\ pc[T] \in TcpipPCs
  /\ \A a \in Apps : pc[a] \in AppPCs
  /\ \A d \in Drivers : pc[d] \in DriverPCs

(***************************************************************************)
(* The core lock: outside of it nobody holds it, inside one does, and the      *)
(* record names the holder between its claim and its disclaim.                *)
(***************************************************************************)
Outside(t) ==
  \/ t = T /\ pc[t] \in {"lock", "fetch_forever", "fetch_some", "relock", "relock_late"}
  \/ t \in Apps /\ pc[t] \in {"idle", "post"}
  \/ t \in Drivers

\* Inside, and not yet or no longer recorded.
Unrecorded(t) ==
  \/ t = T /\ pc[t] \in {"claim", "reclaim", "reclaim_late", "unlock_forever", "unlock_some"}
  \/ t \in Apps /\ pc[t] \in {"core_claim", "core_unlock"}

Holding(t) ==
  /\ Outside(t) => core # t
  /\ Unrecorded(t) => core = t /\ holder_id = None
  /\ InCore(t) => core = t /\ holder_id = t

LockInv ==
  /\ Places
  /\ core \in Threads \cup {None} /\ holder_id \in {core, None}
  /\ \A t \in Threads : Holding(t)

\* The threads and what stands for none of them.
LEMMA ThreadFacts ==
  /\ T \in Threads /\ None \notin Threads
  /\ \A a \in Apps : a \in Threads /\ a # T /\ a # None /\ a \notin Drivers
  /\ \A d \in Drivers : d \in Threads /\ d # T /\ d # None /\ d \notin Apps
  /\ \A t \in Threads : t = T \/ t \in Apps \/ t \in Drivers
BY Zenon, ThreadsAssumption DEF Threads, T, None

\* A thread that moves where it may be, leaves the others where they are.
LEMMA GotoPlaces ==
  ASSUME Places, NEW t \in Threads, NEW from, NEW to, Goto(t, from, to),
         t = T => to \in TcpipPCs,
         t \in Apps => to \in AppPCs,
         t \in Drivers => to \in DriverPCs
  PROVE  /\ Places'
         /\ pc'[t] = to
         /\ \A u \in Threads : u # t => pc'[u] = pc[u]
BY Zenon, ThreadFacts DEF Places, Goto

\* A step of t that touches neither the lock nor the record, and that leaves t on the
\* side of the lock where it was.
LEMMA SameSide ==
  ASSUME LockInv, Places', UNCHANGED lock, NEW t \in Threads,
         \A u \in Threads : u # t => pc'[u] = pc[u],
         Holding(t)'
  PROVE  LockInv'
<1>1. ASSUME NEW u \in Threads, u # t PROVE Holding(u)'
  BY Zenon, <1>1 DEF LockInv, Holding, Outside, Unrecorded, InCore, lock
<1> QED
  BY Zenon, <1>1 DEF LockInv, lock

\* Nobody but t touches the lock or the record, and t holds the lock.
LEMMA HolderMoves ==
  ASSUME LockInv, Places', NEW t \in Threads, core = t,
         \A u \in Threads : u # t => pc'[u] = pc[u],
         core' \in {t, None}, holder_id' \in {core', None},
         Holding(t)'
  PROVE  LockInv'
<1>1. ASSUME NEW u \in Threads, u # t PROVE Holding(u)'
  <2>1. core # u /\ core' # u
    BY Zenon, <1>1, ThreadFacts
  <2>2. ~Unrecorded(u) /\ ~InCore(u)
    BY Zenon, <1>1, <2>1 DEF LockInv, Holding
  <2>3. ~Unrecorded(u)' /\ ~InCore(u)'
    BY Zenon, <1>1, <2>1, <2>2 DEF Unrecorded, InCore
  <2> QED
    BY Zenon, <2>1, <2>3 DEF Holding
<1> QED
  BY Zenon, <1>1 DEF LockInv

\* Who waits for the lock takes it when it is free.
LEMMA LockKeeps ==
  ASSUME LockInv, NEW t \in Threads, NEW from, NEW to, LockCore(t, from, to),
         t = T => to \in {"claim", "reclaim", "reclaim_late"},
         t \in Apps => to = "core_claim",
         t \notin Drivers
  PROVE  LockInv'
<1>1. Places' /\ pc'[t] = to /\ \A u \in Threads : u # t => pc'[u] = pc[u]
  BY Zenon, GotoPlaces DEF LockInv, LockCore, TcpipPCs, FetchedPCs, AppPCs
<1>2. holder_id' = None /\ core' = t /\ core = None
  BY Zenon DEF LockCore, LockInv
<1>3. Holding(t)'
  BY Zenon, <1>1, <1>2, ThreadFacts DEF Holding, Outside, Unrecorded, InCore
<1>4. ASSUME NEW u \in Threads, u # t PROVE Holding(u)'
  <2>1. ~Unrecorded(u) /\ ~InCore(u)
    BY Zenon, <1>2, <1>4, ThreadFacts DEF LockInv, Holding
  <2>2. ~Unrecorded(u)' /\ ~InCore(u)'
    BY Zenon, <1>1, <1>2, <1>4, <2>1 DEF Unrecorded, InCore
  <2> QED
    BY Zenon, <1>2, <1>4, <2>2 DEF Holding
<1> QED
  BY Zenon, <1>1, <1>2, <1>3, <1>4 DEF LockInv

\* The holder puts itself on record.
LEMMA ClaimKeeps ==
  ASSUME LockInv, NEW t \in Threads, NEW from, NEW to, ClaimCore(t, from, to),
         t = T => from \in {"claim", "reclaim", "reclaim_late"} /\ to \in {"again", "handle", "check"},
         t \in Apps => from = "core_claim" /\ to = "core",
         t \notin Drivers
  PROVE  LockInv'
<1>1. Places' /\ pc'[t] = to /\ \A u \in Threads : u # t => pc'[u] = pc[u]
  BY Zenon, GotoPlaces DEF LockInv, ClaimCore, TcpipPCs, FetchedPCs, AppPCs
<1>2. core = t
  BY Zenon, ThreadFacts DEF LockInv, Holding, Unrecorded, ClaimCore, Goto
<1>3. core' = t /\ holder_id' = t
  BY Zenon, <1>2 DEF ClaimCore
<1>4. Holding(t)'
  BY Zenon, <1>1, <1>3, ThreadFacts DEF Holding, Outside, Unrecorded
<1> QED
  BY Zenon, <1>1, <1>2, <1>3, <1>4, HolderMoves

\* The holder takes itself off the record.
LEMMA DisclaimKeeps ==
  ASSUME LockInv, NEW t \in Threads, NEW from, NEW to, DisclaimCore(t, from, to),
         t = T => from = "again" /\ to \in {"unlock_forever", "unlock_some"},
         t \in Apps => from = "core" /\ to = "core_unlock",
         t \notin Drivers
  PROVE  LockInv'
<1>1. Places' /\ pc'[t] = to /\ \A u \in Threads : u # t => pc'[u] = pc[u]
  BY Zenon, GotoPlaces DEF LockInv, DisclaimCore, TcpipPCs, AppPCs
<1>2. core = t
  BY Zenon, ThreadFacts DEF LockInv, Holding, InCore, DisclaimCore, Goto
<1>3. core' = t /\ holder_id' = None
  BY Zenon, <1>2 DEF DisclaimCore
<1>4. Holding(t)'
  BY Zenon, <1>1, <1>3, ThreadFacts DEF Holding, Outside, InCore
<1> QED
  BY Zenon, <1>1, <1>2, <1>3, <1>4, HolderMoves

\* The holder, off the record, gives up the lock.
LEMMA UnlockKeeps ==
  ASSUME LockInv, NEW t \in Threads, NEW from, NEW to, UnlockCore(t, from, to),
         t = T => from \in {"unlock_forever", "unlock_some"} /\ to \in {"fetch_forever", "fetch_some"},
         t \in Apps => from = "core_unlock" /\ to = "idle",
         t \notin Drivers
  PROVE  LockInv'
<1>1. Places' /\ pc'[t] = to /\ \A u \in Threads : u # t => pc'[u] = pc[u]
  BY Zenon, GotoPlaces DEF LockInv, UnlockCore, TcpipPCs, AppPCs
<1>2. core = t /\ holder_id = None
  BY Zenon, ThreadFacts DEF LockInv, Holding, Unrecorded, UnlockCore, Goto
<1>3. core' = None /\ holder_id' = None
  BY Zenon, <1>2 DEF UnlockCore
<1>4. Holding(t)'
  BY Zenon, <1>1, <1>3, ThreadFacts DEF Holding, Unrecorded, InCore
<1> QED
  BY Zenon, <1>1, <1>2, <1>3, <1>4, HolderMoves

\* The lock and the places of tcpip_thread.
LEMMA TcpipStepLock == ASSUME LockInv, TcpipStep PROVE LockInv'
<1> USE ThreadFacts
<1>1. CASE Start
  BY Zenon, <1>1, LockKeeps, ClaimKeeps DEF Start
<1>2. CASE SleepForEver \/ SleepSome
  BY Zenon, <1>2, DisclaimKeeps DEF SleepForEver, SleepSome
<1>3. CASE Release
  BY Zenon, <1>3, UnlockKeeps DEF Release
<1>4. CASE CheckTimeouts
  <2>1. Places' /\ pc'[T] = "again" /\ \A u \in Threads : u # T => pc'[u] = pc[u]
    BY Zenon, <1>4 DEF CheckTimeouts, LockInv, Places, TcpipPCs
  <2>2. Holding(T)'
    BY Zenon, <1>4, <2>1 DEF CheckTimeouts, LockInv, Holding, Outside, Unrecorded, InCore, lock
  <2> QED
    BY Zenon, <1>4, <2>1, <2>2, SameSide DEF CheckTimeouts
<1>5. CASE Fetch
  <2>1. Places' /\ pc'[T] = "relock" /\ \A u \in Threads : u # T => pc'[u] = pc[u]
    BY Zenon, <1>5, GotoPlaces DEF Fetch, LockInv, TcpipPCs, FetchedPCs
  <2>2. Holding(T)'
    BY Zenon, <1>5, <2>1 DEF Fetch, Goto, LockInv, Holding, Outside, Unrecorded, InCore, lock
  <2> QED
    BY Zenon, <1>5, <2>1, <2>2, SameSide DEF Fetch
<1>6. CASE FetchTimeout
  <2>1. Places' /\ pc'[T] = "relock_late" /\ \A u \in Threads : u # T => pc'[u] = pc[u]
    BY Zenon, <1>6, GotoPlaces DEF FetchTimeout, LockInv, TcpipPCs
  <2>2. Holding(T)'
    BY Zenon, <1>6, <2>1 DEF FetchTimeout, Goto, LockInv, Holding, Outside, Unrecorded, InCore, lock
  <2> QED
    BY Zenon, <1>6, <2>1, <2>2, SameSide DEF FetchTimeout
<1>7. CASE HandleInput \/ HandleCallback \/ HandleCallbackStatic \/ FreeMsg
  <2>1. /\ pc[T] \in {"handle", "free_msg"} /\ pc'[T] \in {"again", "free_msg"}
        /\ Places' /\ \A u \in Threads : u # T => pc'[u] = pc[u]
    BY Zenon, <1>7, GotoPlaces
       DEF HandleInput, HandleCallback, HandleCallbackStatic, FreeMsg, Goto, LockInv, TcpipPCs, FetchedPCs
  <2>2. UNCHANGED lock
    BY Zenon, <1>7 DEF HandleInput, HandleCallback, HandleCallbackStatic, FreeMsg
  <2>3. Holding(T)'
    BY Zenon, <2>1, <2>2 DEF LockInv, Holding, Outside, Unrecorded, InCore, lock
  <2> QED
    BY Zenon, <2>1, <2>2, <2>3, SameSide
<1> QED
  BY Zenon, <1>1, <1>2, <1>3, <1>4, <1>5, <1>6, <1>7 DEF TcpipStep

\* A driver never has the core lock.
LEMMA DriverStepLock ==
  ASSUME LockInv, NEW d \in Drivers, Receive(d) \/ DriverStep(d) PROVE LockInv'
<1> USE ThreadFacts
<1>1. \E from, to \in DriverPCs : Goto(d, from, to)
  BY Zenon DEF Receive, DriverStep, InpktAlloc, InpktNoMsg, InpktPost, InpktFull, Drop, DriverPCs
<1>2. UNCHANGED lock
  BY Zenon DEF Receive, DriverStep, InpktAlloc, InpktNoMsg, InpktPost, InpktFull, Drop
<1>3. Places' /\ \A u \in Threads : u # d => pc'[u] = pc[u]
  BY Zenon, <1>1, GotoPlaces DEF LockInv
<1>4. Holding(d)'
  BY Zenon, <1>2 DEF LockInv, Holding, Outside, Unrecorded, InCore, lock
<1> QED
  BY Zenon, <1>2, <1>3, <1>4, SameSide

\* The lock and the places of an application thread.
LEMMA AppStepLock ==
  ASSUME LockInv, NEW a \in Apps, AppStep(a) \/ AppCall(a) PROVE LockInv'
<1> USE ThreadFacts
<1>1. CASE EnterCore(a)
  BY Zenon, <1>1, LockKeeps DEF EnterCore
<1>2. CASE LeaveCore(a)
  BY Zenon, <1>2, ClaimKeeps, DisclaimKeeps, UnlockKeeps DEF LeaveCore
<1>3. CASE SetTimers(a) \/ StaticNew(a) \/ StaticPost(a) \/ StaticDelete(a)
  <2>1. UNCHANGED <<lock, pc>>
    BY Zenon, <1>3 DEF SetTimers, StaticNew, StaticPost, StaticDelete
  <2> QED
    BY Zenon, <2>1 DEF LockInv, Places, Holding, Outside, Unrecorded, InCore, lock
<1>4. CASE CallbackAlloc(a)
  <2>1. UNCHANGED lock
    BY Zenon, <1>4 DEF CallbackAlloc
  <2>2. Places' /\ pc'[a] \in {"post", "trypost"} /\ \A u \in Threads : u # a => pc'[u] = pc[u]
    BY Zenon, <1>4, GotoPlaces DEF CallbackAlloc, LockInv, AppPCs
  <2>3. \/ Goto(a, "idle", "post") \/ Goto(a, "idle", "trypost") \/ Goto(a, "core", "trypost")
    BY Zenon, <1>4 DEF CallbackAlloc
  <2>4. pc[a] = "idle" \/ (pc[a] = "core" /\ pc'[a] = "trypost")
    BY Zenon, <2>3 DEF Goto, LockInv, Places
  <2>5. Holding(a)'
    BY Zenon, <2>1, <2>2, <2>4 DEF LockInv, Holding, Outside, Unrecorded, InCore, lock
  <2> QED
    BY Zenon, <2>1, <2>2, <2>5, SameSide
<1>5. CASE CallbackPost(a) \/ TryCallbackFull(a)
  <2>1. UNCHANGED lock
    BY Zenon, <1>5 DEF CallbackPost, TryCallbackFull
  <2>2. Goto(a, "post", "idle") \/ Goto(a, "trypost", Back(a))
    BY Zenon, <1>5 DEF CallbackPost, TryCallbackFull
  <2>3. Places' /\ \A u \in Threads : u # a => pc'[u] = pc[u]
    BY Zenon, <2>2, GotoPlaces DEF Back, LockInv, AppPCs
  <2>4. \/ pc[a] = "post" /\ pc'[a] = "idle"
        \/ pc[a] = "trypost" /\ pc'[a] = IF core = a THEN "core" ELSE "idle"
    BY Zenon, <2>2 DEF Goto, Back, LockInv, Places
  <2>5. Holding(a)'
    BY Zenon, <2>1, <2>4 DEF LockInv, Holding, Outside, Unrecorded, InCore, lock
  <2> QED
    BY Zenon, <2>1, <2>3, <2>5, SameSide
<1> QED
  BY Zenon, <1>1, <1>2, <1>3, <1>4, <1>5 DEF AppStep, AppCall

\* The invariant of the core lock.
THEOREM LockInvariant == Spec => []LockInv
<1>1. Init => LockInv
  BY ThreadFacts DEF Init, LockInv, Places, TcpipPCs, AppPCs, DriverPCs, Holding, Outside,
     Unrecorded, InCore
<1>2. LockInv /\ [Next]_vars => LockInv'
  <2>1. ASSUME LockInv, TimerExpires \/ UNCHANGED vars PROVE LockInv'
    <3>1. UNCHANGED <<lock, pc>>
      BY Zenon, <2>1 DEF TimerExpires, vars
    <3> QED
      BY Zenon, <2>1, <3>1 DEF LockInv, Places, Holding, Outside, Unrecorded, InCore, lock
  <2> QED
    BY Zenon, <2>1, TcpipStepLock, DriverStepLock, AppStepLock DEF Next
<1> QED
  BY <1>1, <1>2, PTL DEF Spec

\* LWIP_ASSERT_CORE_LOCKED never fires: whoever runs core code holds the lock and is the
\* recorded holder, whatever threads compete for the core.
THEOREM HolderIsInsideCorrect == Spec => []HolderIsInside
<1>1. LockInv => HolderIsInside
  BY Zenon DEF LockInv, Holding, HolderIsInside
<1>2. Spec => []LockInv
  BY Zenon, LockInvariant
<1> QED
  BY <1>1, <1>2, PTL
-------------------------------------------------------------------------------

(***************************************************************************)
(* Where every message is                                                   *)
(***************************************************************************)
PoolTypes ==
  /\ mbox \in Seq(Blocks) /\ Len(mbox) <= Capacity
  /\ free \subseteq Blocks
  /\ msg \in [Blocks -> [type : {"unused", "INPKT", "CALLBACK", "CALLBACK_STATIC"},
                         arg : Apps \cup Pkts \cup {None}]]
  /\ cur \in [Threads -> Blocks \cup {None}]
  /\ static \in [Apps -> ApiMsgs \cup {None}]
  /\ rx \in [Drivers -> Pkts \cup {None}]

\* What the local variables of a thread say about it.
Server ==
  /\ cur[T] # None <=> pc[T] \in FetchedPCs
  /\ pc[T] = "free_msg" => msg[cur[T]].type # "CALLBACK_STATIC"
Client(a) ==
  /\ cur[a] # None <=> pc[a] \in {"post", "trypost"}
  /\ cur[a] # None => msg[cur[a]] = Written("CALLBACK", a)
  /\ static[a] # None => msg[static[a]] = Written("CALLBACK_STATIC", a)
Receiver(d) ==
  /\ cur[d] # None <=> pc[d] = "trypost"
  /\ rx[d] # None <=> pc[d] # "idle"
  /\ cur[d] # None => msg[cur[d]] = Written("INPKT", rx[d])
Locals == Server /\ (\A a \in Apps : Client(a)) /\ (\A d \in Drivers : Receiver(d))

\* A message that is posted or fetched carries something; a static one is its owner's.
Meant(b) ==
  \/ \E p \in Pkts : msg[b] = Written("INPKT", p)
  \/ \E a \in Apps : msg[b] = Written("CALLBACK", a)
  \/ \E a \in Apps : msg[b] = Written("CALLBACK_STATIC", a) /\ static[a] = b
AllMeant ==
  /\ \A i \in 1..Len(mbox) : Meant(mbox[i])
  /\ cur[T] # None => Meant(cur[T])

\* No two places have the same message, unless it is static; none is both free and in
\* use, and none is lost.
Apart ==
  /\ \A i, j \in 1..Len(mbox) : mbox[i] = mbox[j] /\ i # j => Owned(mbox[i])
  /\ \A i \in 1..Len(mbox), t \in Threads : mbox[i] = cur[t] => Owned(mbox[i])
  /\ \A t, u \in Threads : cur[t] = cur[u] /\ cur[t] # None => t = u
Used ==
  /\ \A i \in 1..Len(mbox) : mbox[i] \notin free
  /\ \A t \in Threads : cur[t] \notin free
  /\ \A a \in Apps : static[a] \notin free
Found ==
  \A b \in Blocks \ free : \/ Owned(b)
                           \/ \E i \in 1..Len(mbox) : mbox[i] = b
                           \/ \E t \in Threads : cur[t] = b

PoolInv == PoolTypes /\ Locals /\ AllMeant /\ Apart /\ Used /\ Found

\* None is no message and no packet.
LEMMA BlockFacts == None \notin Blocks /\ None \notin Pkts /\ ApiMsgs \subseteq Blocks /\ InpktMsgs \subseteq Blocks
BY Zenon, PoolsAssumption DEF Blocks

\* A message has what was written in it.
LEMMA WrittenFacts ==
  ASSUME NEW type, NEW arg
  PROVE  Written(type, arg).type = type /\ Written(type, arg).arg = arg
BY Zenon DEF Written

\* A message that is owned is a static one.
LEMMA OwnedStatic ==
  ASSUME PoolInv, NEW b, Owned(b), b # None PROVE msg[b].type = "CALLBACK_STATIC"
<1>1. PICK a \in Apps : static[a] = b
  BY Zenon DEF Owned
<1>2. msg[b] = Written("CALLBACK_STATIC", a)
  BY Zenon, <1>1 DEF PoolInv, Locals, Client
<1> QED
  BY <1>2 DEF Written

\* What a thread other than tcpip_thread is filling is no static message.
LEMMA FillingNotOwned ==
  ASSUME PoolInv, NEW t \in Threads, t # T, cur[t] # None PROVE ~Owned(cur[t])
<1>1. msg[cur[t]].type # "CALLBACK_STATIC"
  <2>1. CASE t \in Apps
    <3>1. msg[cur[t]] = Written("CALLBACK", t)
      BY Zenon, <2>1 DEF PoolInv, Locals, Client
    <3> QED
      BY <3>1 DEF Written
  <2>2. CASE t \in Drivers
    <3>1. msg[cur[t]] = Written("INPKT", rx[t])
      BY Zenon, <2>2 DEF PoolInv, Locals, Receiver
    <3> QED
      BY <3>1 DEF Written
  <2> QED
    BY Zenon, <2>1, <2>2, ThreadFacts
<1> QED
  BY Zenon, <1>1, OwnedStatic

\* A step that leaves pools, mailbox and messages alone.
LEMMA PoolUntouched ==
  ASSUME PoolInv, UNCHANGED <<mbox, pool, cur, static>>, rx' \in [Drivers -> Pkts \cup {None}],
         Locals'
  PROVE  PoolInv'
BY DEF PoolInv, PoolTypes, AllMeant, Meant, Apart, Used, Found, Owned, pool

\* In particular if one thread moves to a place of the same kind.
LEMMA PoolMove ==
  ASSUME PoolInv, UNCHANGED <<mbox, pool, cur, static, rx>>, NEW t \in Threads,
         pc' = [pc EXCEPT ![t] = pc'[t]], Places,
         t = T => (pc[T] \in FetchedPCs <=> pc'[T] \in FetchedPCs)
                  /\ (pc'[T] = "free_msg" => msg[cur[T]].type # "CALLBACK_STATIC"),
         t \in Apps => (pc[t] \in {"post", "trypost"} <=> pc'[t] \in {"post", "trypost"}),
         t \in Drivers => (pc[t] = "trypost" <=> pc'[t] = "trypost")
                          /\ (pc[t] = "idle" <=> pc'[t] = "idle")
  PROVE  PoolInv'
<1>1. \A u \in Threads : u # t => pc'[u] = pc[u]
  BY Zenon DEF Places
<1>2. Server'
  BY Zenon, <1>1, ThreadFacts DEF PoolInv, Locals, Server, pool
<1>3. ASSUME NEW a \in Apps PROVE Client(a)'
  BY Zenon, <1>1, <1>3, ThreadFacts DEF PoolInv, Locals, Client, pool
<1>4. ASSUME NEW d \in Drivers PROVE Receiver(d)'
  BY Zenon, <1>1, <1>4, ThreadFacts DEF PoolInv, Locals, Receiver, pool
<1>5. rx' \in [Drivers -> Pkts \cup {None}]
  BY Zenon DEF PoolInv, PoolTypes
<1> QED
  BY Zenon, <1>2, <1>3, <1>4, <1>5, PoolUntouched DEF Locals

\* What the other threads know of themselves survives a step of t that spares their
\* messages.
LEMMA OtherLocals ==
  ASSUME PoolInv, NEW t \in Threads,
         \A u \in Threads : u # t => pc'[u] = pc[u] /\ cur'[u] = cur[u],
         \A a \in Apps : a # t => static'[a] = static[a],
         \A d \in Drivers : d # t => rx'[d] = rx[d],
         \A u \in Threads : u # t /\ cur[u] # None => msg'[cur[u]] = msg[cur[u]],
         \A a \in Apps : a # t /\ static[a] # None => msg'[static[a]] = msg[static[a]],
         t = T => Server', t \in Apps => Client(t)', t \in Drivers => Receiver(t)'
  PROVE  Locals'
<1>1. Server'
  BY ThreadFacts DEF PoolInv, Locals, Server, FetchedPCs
<1>2. ASSUME NEW a \in Apps PROVE Client(a)'
  BY <1>2, ThreadFacts DEF PoolInv, Locals, Client
<1>3. ASSUME NEW d \in Drivers PROVE Receiver(d)'
  BY <1>3, ThreadFacts DEF PoolInv, Locals, Receiver
<1> QED
  BY Zenon, <1>1, <1>2, <1>3 DEF Locals

\* memp_malloc by a client or a driver, which writes the message.
LEMMA AllocKeeps ==
  ASSUME PoolInv, NEW t \in Threads, t # T, NEW blocks \in SUBSET Blocks, cur[t] = None,
         NEW content \in [type : {"INPKT", "CALLBACK"}, arg : Apps \cup Pkts],
         Alloc(t, blocks, content), UNCHANGED <<mbox, static, rx>>,
         \A u \in Threads : u # t => pc'[u] = pc[u],
         t \in Apps => content = Written("CALLBACK", t) /\ pc'[t] \in {"post", "trypost"},
         t \in Drivers => /\ content = Written("INPKT", rx[t])
                          /\ pc[t] # "idle" /\ pc'[t] = "trypost"
  PROVE  PoolInv'
<1> USE BlockFacts
<1>1. PICK b \in blocks \cap free :
        free' = free \ {b} /\ msg' = [msg EXCEPT ![b] = content] /\ cur' = [cur EXCEPT ![t] = b]
  BY Zenon DEF Alloc, Hold
<1>2. /\ b \in Blocks /\ b \in free /\ b # None
      /\ msg'[b] = content /\ \A x \in Blocks : x # b => msg'[x] = msg[x]
      /\ cur'[t] = b /\ \A u \in Threads : u # t => cur'[u] = cur[u]
  BY Zenon, <1>1 DEF PoolInv, PoolTypes
<1>3. /\ \A i \in 1..Len(mbox) : mbox[i] # b /\ mbox[i] \in Blocks
      /\ \A u \in Threads : cur[u] # b
      /\ \A a \in Apps : static[a] # b
  BY <1>2 DEF PoolInv, PoolTypes, Used
<1>4. PoolTypes'
  BY Zenon, <1>1, <1>2 DEF PoolInv, PoolTypes
<1>5. Locals'
  <2>1. \A u \in Threads : cur[u] # None => msg'[cur[u]] = msg[cur[u]]
    BY <1>2, <1>3 DEF PoolInv, PoolTypes
  <2>2. \A a \in Apps : static[a] # None => msg'[static[a]] = msg[static[a]]
    BY <1>2, <1>3 DEF PoolInv, PoolTypes
  <2>3. ASSUME t \in Apps PROVE Client(t)'
    BY Zenon, <1>2, <2>2, <2>3 DEF PoolInv, Locals, Client
  <2>4. ASSUME t \in Drivers PROVE Receiver(t)'
    BY Zenon, <1>2, <2>4 DEF PoolInv, Locals, Receiver
  <2> QED
    BY <1>2, <2>1, <2>2, <2>3, <2>4, OtherLocals
<1>6. AllMeant'
  <2>1. ASSUME NEW x \in Blocks, x # b, Meant(x) PROVE Meant(x)'
    BY Zenon, <1>2, <2>1 DEF Meant
  <2> QED
    BY <1>2, <1>3, <2>1, ThreadFacts DEF PoolInv, PoolTypes, AllMeant
<1>7. \A x : Owned(x)' <=> Owned(x)
  BY Zenon DEF Owned
<1>8. Apart'
  BY <1>2, <1>3, <1>7 DEF PoolInv, Apart
<1>9. Used'
  BY <1>1, <1>2, <1>3 DEF PoolInv, Used
<1>10. Found'
  <2>1. ASSUME NEW x \in Blocks \ free', x # b
        PROVE  Owned(x)' \/ (\E i \in 1..Len(mbox') : mbox'[i] = x) \/ \E u \in Threads : cur'[u] = x
    <3>1. CASE \E u \in Threads : cur[u] = x
      BY <1>2, <2>1, <3>1
    <3> QED
      BY Zenon, <1>1, <1>7, <2>1, <3>1 DEF PoolInv, Found
  <2> QED
    BY Zenon, <1>2, <2>1 DEF Found
<1> QED
  BY Zenon, <1>4, <1>5, <1>6, <1>8, <1>9, <1>10 DEF PoolInv

\* memp_free by a client or a driver, which could not post its message.
LEMMA FreeKeeps ==
  ASSUME PoolInv, NEW t \in Threads, t # T, cur[t] # None, Free(t),
         UNCHANGED <<mbox, static, rx>>,
         \A u \in Threads : u # t => pc'[u] = pc[u],
         t \in Apps => pc'[t] \notin {"post", "trypost"},
         t \in Drivers => pc[t] # "idle" /\ pc'[t] \notin {"idle", "trypost"}
  PROVE  PoolInv'
<1> USE BlockFacts
<1>1. /\ free' = free \cup {cur[t]} /\ msg' = msg /\ cur[t] \in Blocks
      /\ cur'[t] = None /\ \A u \in Threads : u # t => cur'[u] = cur[u]
  BY Zenon DEF Free, Hold, PoolInv, PoolTypes
<1>2. ~Owned(cur[t])
  BY Zenon, FillingNotOwned
<1>3. /\ \A i \in 1..Len(mbox) : mbox[i] # cur[t] /\ mbox[i] \in Blocks
      /\ \A u \in Threads : u # t => cur[u] # cur[t]
      /\ \A a \in Apps : static[a] # cur[t]
  BY <1>2 DEF PoolInv, PoolTypes, Apart, Owned
<1>4. PoolTypes'
  BY Zenon, <1>1 DEF PoolInv, PoolTypes, Free, Hold
<1>5. Locals'
  <2>1. ASSUME t \in Apps PROVE Client(t)'
    BY Zenon, <1>1, <2>1 DEF PoolInv, Locals, Client
  <2>2. ASSUME t \in Drivers PROVE Receiver(t)'
    BY Zenon, <1>1, <2>2 DEF PoolInv, Locals, Receiver
  <2> QED
    BY Zenon, <1>1, <2>1, <2>2, OtherLocals
<1>6. AllMeant'
  BY <1>1, ThreadFacts DEF PoolInv, AllMeant, Meant
<1>7. \A x : Owned(x)' <=> Owned(x)
  BY Zenon DEF Owned
<1>8. Apart'
  BY <1>1, <1>3, <1>7 DEF PoolInv, Apart
<1>9. Used'
  BY <1>1, <1>3 DEF PoolInv, PoolTypes, Used
<1>10. Found'
  <2>1. ASSUME NEW x \in Blocks \ free'
        PROVE  Owned(x)' \/ (\E i \in 1..Len(mbox') : mbox'[i] = x) \/ \E u \in Threads : cur'[u] = x
    <3>1. CASE \E u \in Threads : cur[u] = x
      BY Zenon, <1>1, <2>1, <3>1
    <3> QED
      BY Zenon, <1>1, <1>7, <2>1, <3>1 DEF PoolInv, Found
  <2> QED
    BY Zenon, <2>1 DEF Found
<1> QED
  BY Zenon, <1>4, <1>5, <1>6, <1>8, <1>9, <1>10 DEF PoolInv

\* A message at the end of the mailbox.
LEMMA AppendFacts ==
  ASSUME NEW S, NEW s \in Seq(S), NEW e \in S
  PROVE  /\ Append(s, e) \in Seq(S) /\ Len(Append(s, e)) = Len(s) + 1 /\ Len(s) \in Nat
         /\ Append(s, e)[Len(s) + 1] = e
         /\ \A i \in 1..Len(s) : Append(s, e)[i] = s[i] /\ i # Len(s) + 1
         /\ \A i \in 1..(Len(s) + 1) : i \in 1..Len(s) \/ i = Len(s) + 1
OBVIOUS

\* A message from the head of the mailbox.
LEMMA TailFacts ==
  ASSUME NEW S, NEW s \in Seq(S), s # <<>>
  PROVE  /\ Tail(s) \in Seq(S) /\ Len(Tail(s)) = Len(s) - 1 /\ Len(s) \in Nat \ {0}
         /\ Head(s) = s[1] /\ Head(s) \in S
         /\ \A i \in 1..Len(Tail(s)) : Tail(s)[i] = s[i + 1] /\ i + 1 \in 1..Len(s) /\ i + 1 # 1
         /\ \A i \in 1..Len(s) : i = 1 \/ i - 1 \in 1..Len(Tail(s))
OBVIOUS

\* sys_mbox_post and sys_mbox_trypost of the message of a client or a driver.
LEMMA PostKeeps ==
  ASSUME PoolInv, NEW t \in Threads, t # T, cur[t] # None, Post(t),
         UNCHANGED <<pool, static>>, rx' \in [Drivers -> Pkts \cup {None}],
         \A d \in Drivers : d # t => rx'[d] = rx[d],
         \A u \in Threads : u # t => pc'[u] = pc[u],
         t \in Apps => pc'[t] \notin {"post", "trypost"},
         t \in Drivers => rx[t] # None /\ rx'[t] = None /\ pc'[t] = "idle"
  PROVE  PoolInv'
<1> USE BlockFacts
<1>1. /\ mbox' = Append(mbox, cur[t]) /\ Len(mbox) < Capacity /\ cur[t] \in Blocks
      /\ cur'[t] = None /\ \A u \in Threads : u # t => cur'[u] = cur[u]
      /\ cur' \in [Threads -> Blocks \cup {None}]
  BY CapacityAssumption DEF Post, MboxFull, Hold, PoolInv, PoolTypes
<1>2. /\ mbox' \in Seq(Blocks) /\ Len(mbox') = Len(mbox) + 1 /\ Len(mbox) \in Nat
      /\ mbox'[Len(mbox) + 1] = cur[t]
      /\ \A i \in 1..Len(mbox) : mbox'[i] = mbox[i] /\ i # Len(mbox) + 1 /\ mbox[i] \in Blocks
      /\ \A i \in 1..(Len(mbox) + 1) : i \in 1..Len(mbox) \/ i = Len(mbox) + 1
  BY <1>1, AppendFacts DEF PoolInv, PoolTypes
<1>3. ~Owned(cur[t])
  BY Zenon, FillingNotOwned
<1>4. PoolTypes'
  BY <1>1, <1>2, CapacityAssumption DEF PoolInv, PoolTypes, pool
<1>5. Locals'
  <2>1. ASSUME t \in Apps PROVE Client(t)'
    BY Zenon, <1>1, <2>1 DEF PoolInv, Locals, Client, pool
  <2>2. ASSUME t \in Drivers PROVE Receiver(t)'
    BY Zenon, <1>1, <2>2 DEF PoolInv, Locals, Receiver
  <2> QED
    BY <1>1, <2>1, <2>2, OtherLocals DEF pool
<1>6. \A x : (Owned(x)' <=> Owned(x)) /\ (Meant(x)' <=> Meant(x))
  BY Zenon DEF Owned, Meant, pool
<1>7. AllMeant'
  <2>1. Meant(cur[t])
    <3>1. CASE t \in Apps
      BY Zenon, <3>1 DEF PoolInv, Locals, Client, Meant
    <3>2. CASE t \in Drivers
      BY Zenon, <3>2 DEF PoolInv, PoolTypes, Locals, Receiver, Meant
    <3> QED
      BY Zenon, <3>1, <3>2, ThreadFacts
  <2> QED
    BY Zenon, <1>1, <1>2, <1>6, <2>1, ThreadFacts DEF PoolInv, AllMeant
<1>8. Apart'
  <2>1. \A i \in 1..Len(mbox) : mbox[i] # cur[t]
    BY Zenon, <1>3 DEF PoolInv, Apart
  <2>2. \A u \in Threads : u # t => cur[u] # cur[t]
    BY Zenon DEF PoolInv, Apart
  <2>3. ASSUME NEW i \in 1..Len(mbox'), NEW j \in 1..Len(mbox'), mbox'[i] = mbox'[j], i # j
        PROVE  Owned(mbox[i])'
    BY <1>2, <2>1, <2>3 DEF PoolInv, Apart, Owned
  <2>4. ASSUME NEW i \in 1..Len(mbox'), NEW u \in Threads, mbox'[i] = cur'[u]
        PROVE  Owned(mbox[i])'
    <3>1. u # t /\ cur'[u] = cur[u]
      BY <1>1, <1>2, <2>4
    <3>2. i \in 1..Len(mbox) /\ mbox[i] = cur[u] /\ mbox'[i] = mbox[i]
      BY Zenon, <1>2, <2>2, <2>4, <3>1
    <3> QED
      BY <3>2 DEF PoolInv, Apart, Owned
  <2>5. \A u, v \in Threads : cur'[u] = cur'[v] /\ cur'[u] # None => u = v
    BY SMTT(20), <1>1 DEF PoolInv, Apart
  <2> QED
    BY Zenon, <2>3, <2>4, <2>5 DEF Apart
<1>9. Used'
  BY Zenon, <1>1, <1>2 DEF PoolInv, PoolTypes, Used, pool
<1>10. Found'
  <2>1. ASSUME NEW x \in Blocks \ free'
        PROVE  Owned(x)' \/ (\E i \in 1..Len(mbox') : mbox'[i] = x) \/ \E u \in Threads : cur'[u] = x
    <3>1. CASE x = cur[t]
      BY <1>2, <3>1
    <3>2. CASE x # cur[t] /\ \E u \in Threads : cur[u] = x
      BY <1>1, <3>2
    <3>3. CASE \E i \in 1..Len(mbox) : mbox[i] = x
      BY <1>2, <3>3
    <3> QED
      BY Zenon, <1>6, <2>1, <3>1, <3>2, <3>3 DEF PoolInv, Found, pool
  <2> QED
    BY Zenon, <2>1 DEF Found
<1> QED
  BY Zenon, <1>4, <1>5, <1>7, <1>8, <1>9, <1>10 DEF PoolInv

\* sys_arch_mbox_fetch by tcpip_thread.
LEMMA FetchKeeps == ASSUME PoolInv, Places, Fetch PROVE PoolInv'
<1> USE BlockFacts, ThreadFacts
<1> DEFINE h == Head(mbox)
<1>1. /\ mbox # <<>> /\ mbox' = Tail(mbox) /\ UNCHANGED <<pool, static, rx>>
      /\ cur' = [cur EXCEPT ![T] = h]
      /\ pc[T] \in {"fetch_forever", "fetch_some"} /\ pc' = [pc EXCEPT ![T] = "relock"]
  BY Zenon DEF Fetch, Goto, Hold, packets
<1>2. /\ mbox' \in Seq(Blocks) /\ Len(mbox') = Len(mbox) - 1 /\ Len(mbox) \in Nat \ {0}
      /\ h = mbox[1] /\ h \in Blocks
      /\ \A i \in 1..Len(mbox') : mbox'[i] = mbox[i + 1] /\ i + 1 \in 1..Len(mbox) /\ i + 1 # 1
      /\ \A i \in 1..Len(mbox) : i = 1 \/ i - 1 \in 1..Len(mbox')
  BY <1>1, TailFacts DEF PoolInv, PoolTypes
<1>3. /\ cur[T] = None /\ cur'[T] = h
      /\ \A u \in Threads : u # T => cur'[u] = cur[u] /\ pc'[u] = pc[u]
      /\ pc'[T] = "relock"
  BY Zenon, <1>1 DEF PoolInv, PoolTypes, Locals, Server, FetchedPCs, Places
<1>4. PoolTypes'
  BY <1>1, <1>2, CapacityAssumption DEF PoolInv, PoolTypes, pool
<1>5. Locals'
  <2>1. Server'
    BY <1>2, <1>3 DEF Server, FetchedPCs
  <2> QED
    BY Zenon, <1>1, <1>3, <2>1, OtherLocals DEF pool
<1>6. \A x : Meant(x)' <=> Meant(x)
  BY Zenon, <1>1 DEF Meant, pool
<1>7. AllMeant'
  BY <1>2, <1>3, <1>6 DEF PoolInv, AllMeant
<1>8. Apart'
  <2>1. ASSUME NEW i \in 1..Len(mbox'), NEW j \in 1..Len(mbox'), mbox'[i] = mbox'[j], i # j
        PROVE  Owned(mbox[i])'
    BY <1>1, <1>2, <2>1 DEF PoolInv, Apart, Owned
  <2>2. ASSUME NEW i \in 1..Len(mbox'), NEW u \in Threads, mbox'[i] = cur'[u]
        PROVE  Owned(mbox[i])'
    <3>1. CASE u = T
      BY <1>1, <1>2, <1>3, <2>2, <3>1 DEF PoolInv, Apart, Owned
    <3>2. CASE u # T
      BY <1>1, <1>2, <1>3, <2>2, <3>2 DEF PoolInv, Apart, Owned
    <3> QED
      BY Zenon, <3>1, <3>2
  <2>3. ASSUME NEW u \in Threads, u # T PROVE cur[u] # h
    BY <1>2, <2>3, FillingNotOwned DEF PoolInv, Apart
  <2>4. \A u, v \in Threads : cur'[u] = cur'[v] /\ cur'[u] # None => u = v
    BY SMTT(20), <1>3, <2>3 DEF PoolInv, Apart
  <2> QED
    BY Zenon, <2>1, <2>2, <2>4 DEF Apart
<1>9. Used'
  BY <1>1, <1>2, <1>3 DEF PoolInv, Used, pool
<1>10. Found'
  <2>1. ASSUME NEW x \in Blocks \ free'
        PROVE  Owned(x)' \/ (\E i \in 1..Len(mbox') : mbox'[i] = x) \/ \E u \in Threads : cur'[u] = x
    <3>1. CASE Owned(x)
      BY Zenon, <1>1, <3>1 DEF Owned
    <3>2. CASE \E u \in Threads : cur[u] = x
      BY Zenon, <1>3, <2>1, <3>2
    <3>3. CASE \E i \in 1..Len(mbox) : mbox[i] = x
      <4>1. PICK i \in 1..Len(mbox) : mbox[i] = x
        BY Zenon, <3>3
      <4>2. CASE i = 1
        BY Zenon, <1>2, <1>3, <4>1, <4>2
      <4>3. CASE i # 1
        <5>1. i - 1 \in 1..Len(mbox') /\ mbox'[i - 1] = x
          BY <1>2, <4>1, <4>3
        <5> QED
          BY Zenon, <5>1
      <4> QED
        BY Zenon, <4>2, <4>3
    <3> QED
      BY Zenon, <1>1, <2>1, <3>1, <3>2, <3>3 DEF PoolInv, Found, pool
  <2> QED
    BY Zenon, <2>1 DEF Found
<1> QED
  BY Zenon, <1>4, <1>5, <1>7, <1>8, <1>9, <1>10 DEF PoolInv

\* tcpip_thread is done with a message: it is static, or goes back to its pool.
LEMMA DoneKeeps ==
  ASSUME PoolInv, Places, cur[T] # None, Hold(T, None), UNCHANGED <<mbox, msg, static, rx>>,
         pc' = [pc EXCEPT ![T] = "again"],
         \/ Owned(cur[T]) /\ free' = free
         \/ msg[cur[T]].type # "CALLBACK_STATIC" /\ free' = free \cup {cur[T]}
  PROVE  PoolInv'
<1> USE BlockFacts, ThreadFacts
<1>1. /\ cur'[T] = None /\ cur[T] \in Blocks /\ pc'[T] = "again"
      /\ \A u \in Threads : u # T => cur'[u] = cur[u] /\ pc'[u] = pc[u]
      /\ cur' \in [Threads -> Blocks \cup {None}]
  BY Zenon DEF Hold, PoolInv, PoolTypes, Places
<1>2. PoolTypes'
  BY Zenon, <1>1 DEF PoolInv, PoolTypes
<1>3. Locals'
  <2>1. Server'
    BY Zenon, <1>1 DEF Server, FetchedPCs
  <2> QED
    BY Zenon, <1>1, <2>1, OtherLocals
<1>4. AllMeant'
  BY <1>1 DEF PoolInv, AllMeant, Meant
<1>5. /\ \A i \in 1..Len(mbox) : mbox[i] \in Blocks
      /\ \A x : Owned(x)' <=> Owned(x)
  BY DEF PoolInv, PoolTypes, Owned
<1>6. Apart'
  BY SMTT(20), <1>1, <1>5 DEF PoolInv, Apart
<1>7. CASE Owned(cur[T]) /\ free' = free
  <2>1. Used'
    BY Zenon, <1>1, <1>7 DEF PoolInv, PoolTypes, Used
  <2>2. Found'
    BY <1>1, <1>5, <1>7 DEF PoolInv, Found
  <2> QED
    BY Zenon, <1>2, <1>3, <1>4, <1>6, <2>1, <2>2 DEF PoolInv
<1>8. CASE msg[cur[T]].type # "CALLBACK_STATIC" /\ free' = free \cup {cur[T]}
  <2>1. ~Owned(cur[T])
    BY Zenon, <1>8, OwnedStatic
  <2>2. /\ \A i \in 1..Len(mbox) : mbox[i] # cur[T]
        /\ \A u \in Threads : u # T => cur[u] # cur[T]
        /\ \A a \in Apps : static[a] # cur[T]
    BY Zenon, <2>1 DEF PoolInv, Apart, Owned
  <2>3. Used'
    BY SMTT(20), <1>1, <1>8, <2>2 DEF PoolInv, PoolTypes, Used
  <2>4. Found'
    BY <1>1, <1>5, <1>8 DEF PoolInv, Found
  <2> QED
    BY Zenon, <1>2, <1>3, <1>4, <1>6, <2>3, <2>4 DEF PoolInv
<1> QED
  BY Zenon, <1>7, <1>8

\* tcpip_callbackmsg_new
LEMMA StaticNewKeeps == ASSUME PoolInv, NEW a \in Apps, StaticNew(a) PROVE PoolInv'
<1> USE BlockFacts, ThreadFacts
<1>1. PICK b \in ApiMsgs \cap free :
        /\ free' = free \ {b} /\ msg' = [msg EXCEPT ![b] = Written("CALLBACK_STATIC", a)]
        /\ static' = [static EXCEPT ![a] = b]
  BY Zenon DEF StaticNew
<1>2. UNCHANGED <<mbox, pc, cur, rx>> /\ static[a] = None
  BY Zenon DEF StaticNew, packets
<1>3. /\ b \in Blocks /\ b \in free /\ b # None
      /\ msg'[b] = Written("CALLBACK_STATIC", a) /\ \A x \in Blocks : x # b => msg'[x] = msg[x]
      /\ static'[a] = b /\ \A c \in Apps : c # a => static'[c] = static[c]
  BY Zenon, <1>1 DEF PoolInv, PoolTypes
<1>4. /\ \A i \in 1..Len(mbox) : mbox[i] # b /\ mbox[i] \in Blocks
      /\ \A u \in Threads : cur[u] # b
      /\ \A c \in Apps : static[c] # b
  BY <1>3 DEF PoolInv, PoolTypes, Used
<1>5. PoolTypes'
  BY Zenon, <1>1, <1>2, <1>3 DEF PoolInv, PoolTypes, Written
<1>6. Locals'
  <2>1. \A u \in Threads : cur[u] # None => msg'[cur[u]] = msg[cur[u]]
    BY Zenon, <1>3, <1>4 DEF PoolInv, PoolTypes
  <2>2. \A c \in Apps : static[c] # None => msg'[static[c]] = msg[static[c]]
    BY <1>3, <1>4 DEF PoolInv, PoolTypes
  <2>3. Client(a)'
    BY Zenon, <1>2, <1>3, <2>1 DEF PoolInv, Locals, Client
  <2> QED
    BY <1>2, <1>3, <2>1, <2>2, <2>3, OtherLocals
<1>7. AllMeant'
  <2>1. ASSUME NEW x \in Blocks, x # b, Meant(x) PROVE Meant(x)'
    BY <1>2, <1>3, <2>1 DEF Meant
  <2> QED
    BY Zenon, <1>2, <1>4, <2>1 DEF PoolInv, PoolTypes, AllMeant
<1>8. \A x : Owned(x) /\ x # None => Owned(x)'
  BY Zenon, <1>2, <1>3 DEF Owned
<1>9. Apart'
  BY SMTT(20), <1>2, <1>4, <1>8 DEF PoolInv, Apart
<1>10. Used'
  BY <1>1, <1>2, <1>3, <1>4 DEF PoolInv, Used
<1>11. Found'
  <2>1. Owned(b)'
    BY Zenon, <1>3 DEF Owned
  <2> QED
    BY SMTT(20), <1>1, <1>2, <1>8, <2>1 DEF PoolInv, Found
<1> QED
  BY Zenon, <1>5, <1>6, <1>7, <1>9, <1>10, <1>11 DEF PoolInv

\* tcpip_callbackmsg_trycallback
LEMMA StaticPostKeeps == ASSUME PoolInv, NEW a \in Apps, StaticPost(a) PROVE PoolInv'
<1> USE BlockFacts, ThreadFacts
<1>1. /\ static[a] # None /\ mbox' = Append(mbox, static[a]) /\ Len(mbox) < Capacity
      /\ static[a] \in Blocks /\ UNCHANGED <<pool, pc, cur, static, rx>>
  BY CapacityAssumption DEF StaticPost, MboxFull, PoolInv, PoolTypes, packets
<1>2. /\ mbox' \in Seq(Blocks) /\ Len(mbox') = Len(mbox) + 1 /\ Len(mbox) \in Nat
      /\ mbox'[Len(mbox) + 1] = static[a]
      /\ \A i \in 1..Len(mbox) : mbox'[i] = mbox[i] /\ i # Len(mbox) + 1
      /\ \A i \in 1..(Len(mbox) + 1) : i \in 1..Len(mbox) \/ i = Len(mbox) + 1
  BY SMTT(20), <1>1, AppendFacts DEF PoolInv, PoolTypes
<1>3. PoolTypes'
  BY SMTT(20), <1>1, <1>2, CapacityAssumption DEF PoolInv, PoolTypes, pool
<1>4. Locals'
  BY Zenon, <1>1 DEF PoolInv, Locals, Server, Client, Receiver, pool
<1>5. Owned(static[a]) /\ Meant(static[a])
  BY Zenon, <1>1 DEF Owned, Meant, PoolInv, Locals, Client
<1>6. \A x : (Owned(x)' <=> Owned(x)) /\ (Meant(x)' <=> Meant(x))
  BY Zenon, <1>1 DEF Owned, Meant, pool
<1>7. AllMeant'
  BY Zenon, <1>1, <1>2, <1>5, <1>6 DEF PoolInv, AllMeant
<1>8. Apart'
  <2>1. ASSUME NEW i \in 1..Len(mbox'), NEW j \in 1..Len(mbox'), mbox'[i] = mbox'[j], i # j
        PROVE  Owned(mbox[i])'
    BY <1>1, <1>2, <1>5, <2>1 DEF PoolInv, Apart, Owned
  <2>2. ASSUME NEW i \in 1..Len(mbox'), NEW u \in Threads, mbox'[i] = cur'[u]
        PROVE  Owned(mbox[i])'
    BY <1>1, <1>2, <1>5, <2>2 DEF PoolInv, Apart, Owned
  <2> QED
    BY Zenon, <1>1, <2>1, <2>2 DEF PoolInv, Apart
<1>9. Used'
  BY Zenon, <1>1, <1>2 DEF PoolInv, Used, pool
<1>10. Found'
  <2>1. \A x : (\E i \in 1..Len(mbox) : mbox[i] = x) => \E i \in 1..Len(mbox') : mbox'[i] = x
    BY <1>2
  <2> QED
    BY Zenon, <1>1, <1>6, <2>1 DEF PoolInv, Found, pool
<1> QED
  BY Zenon, <1>3, <1>4, <1>7, <1>8, <1>9, <1>10 DEF PoolInv

\* tcpip_callbackmsg_delete
LEMMA StaticDeleteKeeps == ASSUME PoolInv, NEW a \in Apps, StaticDelete(a) PROVE PoolInv'
<1> USE BlockFacts, ThreadFacts
<1> DEFINE b == static[a]
<1>1. /\ b # None /\ b \in Blocks /\ b # cur[T] /\ \A i \in 1..Len(mbox) : mbox[i] # b
      /\ free' = free \cup {b} /\ UNCHANGED <<mbox, msg, pc, cur, rx>>
      /\ static'[a] = None /\ \A c \in Apps : c # a => static'[c] = static[c]
      /\ static' \in [Apps -> ApiMsgs \cup {None}]
  BY DEF StaticDelete, PoolInv, PoolTypes, packets
<1>2. \A u \in Threads : cur[u] # b
  <2>1. Owned(b)
    BY Zenon DEF Owned
  <2> QED
    BY Zenon, <1>1, <2>1, FillingNotOwned
<1>3. \A c \in Apps : c # a => static[c] # b
  <2>1. SUFFICES ASSUME NEW c \in Apps, static[c] = b PROVE c = a
    BY Zenon
  <2>2. Written("CALLBACK_STATIC", c) = Written("CALLBACK_STATIC", a)
    BY Zenon, <1>1, <2>1 DEF PoolInv, Locals, Client
  <2> QED
    BY Zenon, <2>2 DEF Written
<1>4. PoolTypes'
  BY Zenon, <1>1 DEF PoolInv, PoolTypes
<1>5. Locals'
  <2>1. Client(a)'
    BY Zenon, <1>1 DEF PoolInv, Locals, Client
  <2> QED
    BY Zenon, <1>1, <2>1, OtherLocals
<1>6. \A x : x # b /\ x # None => (Owned(x)' <=> Owned(x))
  BY Zenon, <1>1 DEF Owned
<1>7. AllMeant'
  <2>1. ASSUME NEW x \in Blocks, x # b, Meant(x) PROVE Meant(x)'
    <3>1. CASE \E c \in Apps : msg[x] = Written("CALLBACK_STATIC", c) /\ static[c] = x
      BY Zenon, <1>1, <2>1, <3>1 DEF Meant
    <3> QED
      BY Zenon, <1>1, <2>1, <3>1 DEF Meant
  <2>2. \A i \in 1..Len(mbox) : mbox[i] \in Blocks /\ mbox[i] # b /\ Meant(mbox[i])
    BY <1>1 DEF PoolInv, PoolTypes, AllMeant
  <2>3. cur[T] # None => cur[T] \in Blocks /\ cur[T] # b /\ Meant(cur[T])
    BY Zenon, <1>2 DEF PoolInv, PoolTypes, AllMeant
  <2> QED
    BY Zenon, <1>1, <2>1, <2>2, <2>3 DEF AllMeant
<1>8. \A i \in 1..Len(mbox) : mbox[i] \in Blocks
  BY DEF PoolInv, PoolTypes
<1>9. Apart'
  BY SMTT(20), <1>1, <1>2, <1>6, <1>8 DEF PoolInv, Apart
<1>10. Used'
  BY Zenon, <1>1, <1>2, <1>3 DEF PoolInv, PoolTypes, Used
<1>11. Found'
  BY Zenon, <1>1, <1>6 DEF PoolInv, Found
<1> QED
  BY Zenon, <1>4, <1>5, <1>7, <1>9, <1>10, <1>11 DEF PoolInv

\* The messages and tcpip_thread.
LEMMA TcpipStepPool == ASSUME PoolInv, LockInv, TcpipStep PROVE PoolInv'
<1> USE ThreadFacts
<1>0. Places
  BY Zenon DEF LockInv
<1>1. CASE Start
  <2>1. UNCHANGED <<mbox, pool, cur, static, rx>>
    BY Zenon, <1>1 DEF Start, LockCore, ClaimCore, packets
  <2>2. \/ Goto(T, "lock", "claim") \/ Goto(T, "claim", "again")
        \/ Goto(T, "relock", "reclaim") \/ Goto(T, "reclaim", "handle")
        \/ Goto(T, "relock_late", "reclaim_late") \/ Goto(T, "reclaim_late", "check")
    BY Zenon, <1>1 DEF Start, LockCore, ClaimCore
  <2> QED
    BY Zenon, <1>0, <2>1, <2>2, PoolMove DEF Goto, Places, FetchedPCs
<1>2. CASE SleepForEver \/ SleepSome \/ Release \/ FetchTimeout
  <2>1. UNCHANGED <<mbox, pool, cur, static, rx>>
    BY Zenon, <1>2 DEF SleepForEver, SleepSome, Release, FetchTimeout, DisclaimCore, UnlockCore, packets
  <2>2. \/ Goto(T, "again", "unlock_forever") \/ Goto(T, "again", "unlock_some")
        \/ Goto(T, "unlock_forever", "fetch_forever") \/ Goto(T, "unlock_some", "fetch_some")
        \/ Goto(T, "fetch_some", "relock_late")
    BY Zenon, <1>2 DEF SleepForEver, SleepSome, Release, FetchTimeout, DisclaimCore, UnlockCore
  <2> QED
    BY Zenon, <1>0, <2>1, <2>2, PoolMove DEF Goto, Places, FetchedPCs
<1>3. CASE CheckTimeouts
  <2>1. UNCHANGED <<mbox, pool, cur, static, rx>>
    BY Zenon, <1>3 DEF CheckTimeouts
  <2>2. pc[T] \in {"check", "again"} /\ pc' = [pc EXCEPT ![T] = "again"]
    BY Zenon, <1>3 DEF CheckTimeouts
  <2> QED
    BY Zenon, <1>0, <2>1, <2>2, PoolMove DEF Places, FetchedPCs
<1>4. CASE Fetch
  BY Zenon, <1>0, <1>4, FetchKeeps
<1>5. CASE HandleInput \/ HandleCallback
  <2>1. UNCHANGED <<mbox, pool, cur, static, rx>>
    BY Zenon, <1>5 DEF HandleInput, HandleCallback, packets
  <2>2. Goto(T, "handle", "free_msg") /\ msg[cur[T]].type \in {"INPKT", "CALLBACK"}
    BY Zenon, <1>5 DEF HandleInput, HandleCallback
  <2> QED
    BY Zenon, <1>0, <2>1, <2>2, PoolMove DEF Goto, Places, FetchedPCs
<1>6. CASE HandleCallbackStatic
  <2>1. pc[T] = "handle" /\ pc' = [pc EXCEPT ![T] = "again"] /\ msg[cur[T]].type = "CALLBACK_STATIC"
    BY Zenon, <1>6 DEF HandleCallbackStatic, Goto
  <2>2. cur[T] # None
    BY Zenon, <2>1 DEF PoolInv, Locals, Server, FetchedPCs
  <2>3. Owned(cur[T])
    <3>1. Meant(cur[T])
      BY Zenon, <2>2 DEF PoolInv, AllMeant
    <3> QED
      BY <2>1, <3>1, WrittenFacts DEF Meant, Owned
  <2>4. Hold(T, None) /\ UNCHANGED <<mbox, msg, static, rx>> /\ free' = free
    BY Zenon, <1>6 DEF HandleCallbackStatic, pool, packets
  <2> QED
    BY Zenon, <1>0, <2>1, <2>2, <2>3, <2>4, DoneKeeps
<1>7. CASE FreeMsg
  <2>1. pc[T] = "free_msg" /\ pc' = [pc EXCEPT ![T] = "again"]
    BY Zenon, <1>7 DEF FreeMsg, Goto
  <2>2. cur[T] # None /\ msg[cur[T]].type # "CALLBACK_STATIC"
    BY Zenon, <2>1 DEF PoolInv, Locals, Server, FetchedPCs
  <2>3. Hold(T, None) /\ UNCHANGED <<mbox, msg, static, rx>> /\ free' = free \cup {cur[T]}
    BY Zenon, <1>7 DEF FreeMsg, packets
  <2> QED
    BY Zenon, <1>0, <2>1, <2>2, <2>3, DoneKeeps
<1> QED
  BY Zenon, <1>1, <1>2, <1>3, <1>4, <1>5, <1>6, <1>7 DEF TcpipStep

\* The messages and a driver.
LEMMA DriverStepPool ==
  ASSUME PoolInv, LockInv, NEW d \in Drivers, Receive(d) \/ DriverStep(d) PROVE PoolInv'
<1> USE ThreadFacts, BlockFacts
<1>0. Places /\ Receiver(d)
  BY Zenon DEF LockInv, PoolInv, Locals
<1>1. CASE Receive(d)
  <2>1. PICK p \in Pkts : rx' = [rx EXCEPT ![d] = p]
    BY Zenon, <1>1 DEF Receive
  <2>2. /\ UNCHANGED <<mbox, pool, cur, static>> /\ pc[d] = "idle" /\ pc'[d] = "inpkt"
        /\ \A u \in Threads : u # d => pc'[u] = pc[u]
    BY Zenon, <1>0, <1>1 DEF Receive, Goto, Places
  <2>3. /\ rx' \in [Drivers -> Pkts \cup {None}] /\ rx'[d] = p /\ p # None
        /\ \A e \in Drivers : e # d => rx'[e] = rx[e]
    BY Zenon, <2>1 DEF PoolInv, PoolTypes
  <2>4. Receiver(d)'
    BY Zenon, <1>0, <2>2, <2>3 DEF Receiver
  <2>5. Locals'
    BY Zenon, <2>2, <2>3, <2>4, OtherLocals DEF pool
  <2> QED
    BY Zenon, <2>2, <2>3, <2>5, PoolUntouched
<1>2. CASE InpktAlloc(d)
  <2>1. /\ UNCHANGED <<mbox, static, rx>> /\ Alloc(d, InpktMsgs, Written("INPKT", rx[d]))
        /\ pc[d] = "inpkt" /\ pc'[d] = "trypost"
        /\ \A u \in Threads : u # d => pc'[u] = pc[u]
    BY Zenon, <1>0, <1>2 DEF InpktAlloc, Goto, Places, packets
  <2>2. rx[d] \in Pkts /\ cur[d] = None
    BY Zenon, <1>0, <2>1 DEF Receiver, PoolInv, PoolTypes
  <2>3. Written("INPKT", rx[d]) \in [type : {"INPKT", "CALLBACK"}, arg : Apps \cup Pkts]
    BY Zenon, <2>2 DEF Written
  <2> QED
    BY Zenon, <2>1, <2>2, <2>3, AllocKeeps
<1>3. CASE InpktNoMsg(d)
  <2>1. UNCHANGED <<mbox, pool, cur, static, rx>> /\ Goto(d, "inpkt", "refused")
    BY Zenon, <1>3 DEF InpktNoMsg, packets
  <2> QED
    BY Zenon, <1>0, <2>1, PoolMove DEF Goto, Places
<1>4. CASE InpktPost(d)
  <2>1. /\ UNCHANGED <<pool, static>> /\ Post(d)
        /\ pc[d] = "trypost" /\ pc'[d] = "idle"
        /\ \A u \in Threads : u # d => pc'[u] = pc[u]
    BY Zenon, <1>0, <1>4 DEF InpktPost, Goto, Places
  <2>2. /\ rx' \in [Drivers -> Pkts \cup {None}] /\ rx'[d] = None
        /\ \A e \in Drivers : e # d => rx'[e] = rx[e]
    BY Zenon, <1>4 DEF InpktPost, PoolInv, PoolTypes
  <2>3. rx[d] # None /\ cur[d] # None
    BY Zenon, <1>0, <2>1 DEF Receiver
  <2> QED
    BY Zenon, <2>1, <2>2, <2>3, PostKeeps
<1>5. CASE InpktFull(d)
  <2>1. /\ UNCHANGED <<mbox, static, rx>> /\ Free(d)
        /\ pc[d] = "trypost" /\ pc'[d] = "refused"
        /\ \A u \in Threads : u # d => pc'[u] = pc[u]
    BY Zenon, <1>0, <1>5 DEF InpktFull, Goto, Places, packets
  <2>2. cur[d] # None
    BY Zenon, <1>0, <2>1 DEF Receiver
  <2> QED
    BY Zenon, <2>1, <2>2, FreeKeeps
<1>6. CASE Drop(d)
  <2>1. /\ UNCHANGED <<mbox, pool, cur, static>> /\ pc[d] = "refused" /\ pc'[d] = "idle"
        /\ \A u \in Threads : u # d => pc'[u] = pc[u]
    BY Zenon, <1>0, <1>6 DEF Drop, Goto, Places
  <2>2. /\ rx' \in [Drivers -> Pkts \cup {None}] /\ rx'[d] = None
        /\ \A e \in Drivers : e # d => rx'[e] = rx[e]
    BY Zenon, <1>6 DEF Drop, PoolInv, PoolTypes
  <2>3. Receiver(d)'
    BY Zenon, <1>0, <2>1, <2>2 DEF Receiver
  <2>4. Locals'
    BY Zenon, <2>1, <2>2, <2>3, OtherLocals DEF pool
  <2> QED
    BY Zenon, <2>1, <2>2, <2>4, PoolUntouched
<1> QED
  BY Zenon, <1>1, <1>2, <1>3, <1>4, <1>5, <1>6 DEF DriverStep

\* The messages and an application thread.
LEMMA AppStepPool ==
  ASSUME PoolInv, LockInv, NEW a \in Apps, AppStep(a) \/ AppCall(a) PROVE PoolInv'
<1> USE ThreadFacts, BlockFacts
<1>0. Places /\ Client(a)
  BY Zenon DEF LockInv, PoolInv, Locals
<1>1. CASE EnterCore(a) \/ LeaveCore(a)
  <2>1. UNCHANGED <<mbox, pool, cur, static, rx>>
    BY Zenon, <1>1 DEF EnterCore, LeaveCore, LockCore, ClaimCore, DisclaimCore, UnlockCore, packets
  <2>2. \/ Goto(a, "idle", "core_claim") \/ Goto(a, "core_claim", "core")
        \/ Goto(a, "core", "core_unlock") \/ Goto(a, "core_unlock", "idle")
    BY Zenon, <1>1 DEF EnterCore, LeaveCore, LockCore, ClaimCore, DisclaimCore, UnlockCore
  <2> QED
    BY Zenon, <1>0, <2>1, <2>2, PoolMove DEF Goto, Places
<1>2. CASE SetTimers(a)
  <2>1. UNCHANGED <<mbox, pool, pc, cur, static, rx>>
    BY Zenon, <1>2 DEF SetTimers, packets
  <2>2. Locals' /\ rx' \in [Drivers -> Pkts \cup {None}]
    BY Zenon, <2>1 DEF PoolInv, PoolTypes, Locals, Server, Client, Receiver, pool
  <2> QED
    BY Zenon, <2>1, <2>2, PoolUntouched
<1>3. CASE CallbackAlloc(a)
  <2>1. UNCHANGED <<mbox, static, rx>> /\ Alloc(a, ApiMsgs, Written("CALLBACK", a))
    BY Zenon, <1>3 DEF CallbackAlloc, packets
  <2>2. Goto(a, "idle", "post") \/ Goto(a, "idle", "trypost") \/ Goto(a, "core", "trypost")
    BY Zenon, <1>3 DEF CallbackAlloc
  <2>3. /\ pc[a] \in {"idle", "core"} /\ pc'[a] \in {"post", "trypost"}
        /\ \A u \in Threads : u # a => pc'[u] = pc[u]
    BY Zenon, <1>0, <2>2 DEF Goto, Places
  <2>4. cur[a] = None
    BY Zenon, <1>0, <2>3 DEF Client
  <2>5. Written("CALLBACK", a) \in [type : {"INPKT", "CALLBACK"}, arg : Apps \cup Pkts]
    BY Zenon DEF Written
  <2> QED
    BY Zenon, <2>1, <2>3, <2>4, <2>5, AllocKeeps
<1>4. CASE CallbackPost(a) \/ TryCallbackFull(a)
  <2>1. Goto(a, "post", "idle") \/ Goto(a, "trypost", Back(a))
    BY Zenon, <1>4 DEF CallbackPost, TryCallbackFull
  <2>2. /\ pc[a] \in {"post", "trypost"} /\ pc'[a] \notin {"post", "trypost"}
        /\ \A u \in Threads : u # a => pc'[u] = pc[u]
    BY Zenon, <1>0, <2>1 DEF Goto, Places, Back
  <2>3. cur[a] # None
    BY Zenon, <1>0, <2>2 DEF Client
  <2>4. CASE CallbackPost(a)
    <3>1. UNCHANGED <<pool, static, rx>> /\ Post(a)
      BY Zenon, <2>4 DEF CallbackPost, packets
    <3>2. rx' \in [Drivers -> Pkts \cup {None}]
      BY Zenon, <3>1 DEF PoolInv, PoolTypes
    <3> QED
      BY Zenon, <2>2, <2>3, <3>1, <3>2, PostKeeps
  <2>5. CASE TryCallbackFull(a)
    <3>1. UNCHANGED <<mbox, static, rx>> /\ Free(a)
      BY Zenon, <2>5 DEF TryCallbackFull, packets
    <3> QED
      BY Zenon, <2>2, <2>3, <3>1, FreeKeeps
  <2> QED
    BY Zenon, <1>4, <2>4, <2>5
<1> QED
  BY Zenon, <1>1, <1>2, <1>3, <1>4, StaticNewKeeps, StaticPostKeeps, StaticDeleteKeeps DEF AppStep, AppCall

\* The invariant of the message pools and the mailbox.
THEOREM PoolInvariant == Spec => []PoolInv
<1>1. Init => PoolInv
  <2> SUFFICES ASSUME Init PROVE PoolInv
    BY Zenon
  <2> USE ThreadFacts, BlockFacts
  <2>1. PoolTypes
    BY CapacityAssumption DEF Init, PoolTypes, Written
  <2>2. Locals
    BY Zenon DEF Init, Locals, Server, Client, Receiver, FetchedPCs
  <2>3. AllMeant /\ Apart /\ Used /\ Found
    BY DEF Init, AllMeant, Apart, Used, Found
  <2> QED
    BY Zenon, <2>1, <2>2, <2>3 DEF PoolInv
<1>2. PoolInv /\ LockInv /\ [Next]_vars => PoolInv'
  <2>1. ASSUME PoolInv, TimerExpires \/ UNCHANGED vars PROVE PoolInv'
    <3>1. UNCHANGED <<mbox, pool, pc, cur, static, rx>>
      BY Zenon, <2>1 DEF TimerExpires, vars, packets
    <3>2. Locals' /\ rx' \in [Drivers -> Pkts \cup {None}]
      BY Zenon, <2>1, <3>1 DEF PoolInv, PoolTypes, Locals, Server, Client, Receiver, pool
    <3> QED
      BY Zenon, <2>1, <3>1, <3>2, PoolUntouched
  <2> QED
    BY Zenon, <2>1, TcpipStepPool, DriverStepPool, AppStepPool DEF Next
<1>3. Spec => []LockInv
  BY Zenon, LockInvariant
<1> QED
  BY <1>1, <1>2, <1>3, PTL DEF Spec
===============================================================================
