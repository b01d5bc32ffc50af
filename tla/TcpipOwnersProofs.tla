-------------------------- MODULE TcpipOwnersProofs ---------------------------
(***************************************************************************)
(* What the messages of tcpip_thread stand for, for any threads, packets,   *)
(* message pools and mailbox size.                                          *)
(***************************************************************************)
EXTENDS TcpipProofs, FiniteSetTheorems

(***************************************************************************)
(* What the messages stand for                                              *)
(***************************************************************************)
\* The places of a sequence that hold something of X.
Hits(s, X) == {i \in 1..Len(s) : s[i] \in X}
Carry(S) == {b \in Blocks : msg[b] \in S}
IsUnhandled(S) == pc[T] \in {"relock", "reclaim", "handle"} /\ msg[cur[T]] \in S
One(condition) == IF condition THEN 1 ELSE 0

\* The places are finitely many.
LEMMA HitsFinite ==
  ASSUME NEW B, NEW s \in Seq(B), NEW X
  PROVE  IsFiniteSet(Hits(s, X)) /\ Cardinality(Hits(s, X)) \in Nat
<1>1. IsFiniteSet(1..Len(s))
  BY FS_Interval
<1>2. Hits(s, X) \subseteq 1..Len(s)
  BY Zenon DEF Hits
<1> QED
  BY Zenon, <1>1, <1>2, FS_Subset, FS_CardinalityType

\* One more at the end.
LEMMA HitsAppend ==
  ASSUME NEW B, NEW s \in Seq(B), NEW e \in B, NEW X
  PROVE  Cardinality(Hits(Append(s, e), X)) = Cardinality(Hits(s, X)) + One(e \in X)
<1>1. CASE e \in X
  <2>1. Hits(Append(s, e), X) = Hits(s, X) \cup {Len(s) + 1} /\ Len(s) + 1 \notin Hits(s, X)
    BY <1>1, AppendFacts DEF Hits
  <2> QED
    BY Zenon, <1>1, <2>1, HitsFinite, FS_AddElement DEF One
<1>2. CASE e \notin X
  <2>1. Hits(Append(s, e), X) = Hits(s, X)
    BY <1>2, AppendFacts DEF Hits
  <2> QED
    BY <1>2, <2>1, HitsFinite DEF One
<1> QED
  BY Zenon, <1>1, <1>2

\* One less at the head, and the others one place further on.
LEMMA HitsTail ==
  ASSUME NEW B, NEW s \in Seq(B), s # <<>>, NEW X
  PROVE  Cardinality(Hits(s, X)) = Cardinality(Hits(Tail(s), X)) + One(Head(s) \in X)
<1> DEFINE F == Hits(Tail(s), X)
           G == Hits(s, X) \ {1}
           f == [i \in F |-> i + 1]
<1>1. Tail(s) \in Seq(B)
  BY Zenon, TailFacts
<1>2. IsFiniteSet(F) /\ Cardinality(F) \in Nat /\ IsFiniteSet(Hits(s, X))
  BY Zenon, <1>1, HitsFinite
<1>3. f \in Bijection(F, G)
  <2>1. \A i \in F : i \in Int /\ f[i] = i + 1 /\ i + 1 \in G
    BY TailFacts DEF Hits
  <2>2. f \in [F -> G]
    BY Zenon, <2>1
  <2>3. f \in Injection(F, G)
    BY <2>1, <2>2 DEF Injection, IsInjective
  <2>4. ASSUME NEW j \in G PROVE \E i \in F : f[i] = j
    <3>1. j - 1 \in F /\ j \in Int
      BY <2>4, TailFacts DEF Hits
    <3>2. f[j - 1] = j
      BY <2>1, <3>1
    <3> QED
      BY Zenon, <3>1, <3>2
  <2> QED
    BY Zenon, <2>2, <2>3, <2>4 DEF Bijection, Surjection
<1>4. Cardinality(G) = Cardinality(F)
  BY Zenon, <1>2, <1>3, FS_Bijection DEF ExistsBijection
<1>5. 1 \in Hits(s, X) <=> Head(s) \in X
  BY TailFacts DEF Hits
<1>6. Cardinality(G) = IF 1 \in Hits(s, X) THEN Cardinality(Hits(s, X)) - 1 ELSE Cardinality(Hits(s, X))
  BY Zenon, <1>2, FS_RemoveElement
<1>7. Cardinality(Hits(s, X)) \in Nat
  BY Zenon, HitsFinite
<1> QED
  BY <1>2, <1>4, <1>5, <1>6, <1>7 DEF One

\* Count, in terms of places of the mailbox and of the message being handled.
CountLaw ==
  \A S : /\ Count(S) = Cardinality(Hits(mbox, Carry(S))) + One(IsUnhandled(S))
         /\ Count(S) \in Nat

\* The law holds wherever the pool's invariant does.
LEMMA CountIs == PoolInv => CountLaw
<1> SUFFICES ASSUME PoolInv, NEW S
             PROVE  /\ Count(S) = Cardinality(Hits(mbox, Carry(S))) + One(IsUnhandled(S))
                    /\ Count(S) \in Nat
  BY Zenon DEF CountLaw
<1>1. Queued(S) = Hits(mbox, Carry(S))
  <2>1. mbox \in Seq(Blocks) /\ DOMAIN mbox = 1..Len(mbox) /\ \A i \in 1..Len(mbox) : mbox[i] \in Blocks
    BY DEF PoolInv, PoolTypes
  <2> QED
    BY Zenon, <2>1 DEF Queued, Hits, Carry
<1>2. Cardinality(Hits(mbox, Carry(S))) \in Nat
  BY Zenon, HitsFinite DEF PoolInv, PoolTypes
<1>3. {b \in Unhandled : msg[b] \in S} = IF IsUnhandled(S) THEN {cur[T]} ELSE {}
  BY Zenon DEF Unhandled, IsUnhandled
<1>4. Cardinality({b \in Unhandled : msg[b] \in S}) = One(IsUnhandled(S))
  BY Zenon, <1>3, FS_Singleton, FS_EmptySet DEF One
<1> QED
  BY <1>1, <1>2, <1>4 DEF Count, One

\* The law before and after a step.
LEMMA CountLaws == ASSUME PoolInv, PoolInv' PROVE CountLaw /\ CountLaw'
<1>1. (PoolInv => CountLaw)'
  BY CountIs, PTL
<1> QED
  BY Zenon, <1>1, CountIs

\* A step that leaves the mailbox and what is fetched alone, and writes at most a free
\* message, leaves the counts alone.
LEMMA CountSame ==
  ASSUME PoolInv, PoolInv', NEW S,
         UNCHANGED mbox,
         \A x \in Blocks \ free : msg'[x] = msg[x],
         pc[T] \in {"relock", "reclaim", "handle"} <=> pc'[T] \in {"relock", "reclaim", "handle"},
         pc[T] \in {"relock", "reclaim", "handle"} => cur'[T] = cur[T]
  PROVE  Count(S)' = Count(S)
<1>1. \A i \in 1..Len(mbox) : mbox[i] \in Blocks \ free
  BY DEF PoolInv, PoolTypes, Used
<1>2. Hits(mbox, Carry(S))' = Hits(mbox, Carry(S))
  BY Zenon, <1>1 DEF Hits, Carry
<1>3. T \in Threads
  BY Zenon, ThreadFacts
<1>4. pc[T] \in {"relock", "reclaim", "handle"} => cur[T] \in Blocks \ free
  BY Zenon, <1>3 DEF PoolInv, PoolTypes, Used, Locals, Server, FetchedPCs
<1>5. IsUnhandled(S)' <=> IsUnhandled(S)
  BY <1>4 DEF IsUnhandled
<1>6. One(IsUnhandled(S))' = One(IsUnhandled(S))
  BY Zenon, <1>5 DEF One
<1> QED
  BY Zenon, <1>2, <1>6, CountLaws DEF CountLaw

\* A post adds one message to the counts.
LEMMA CountPost ==
  ASSUME PoolInv, PoolInv', NEW b \in Blocks, NEW S,
         mbox' = Append(mbox, b), UNCHANGED msg, pc'[T] = pc[T], cur'[T] = cur[T]
  PROVE  Count(S)' = Count(S) + One(msg[b] \in S)
<1>1. Carry(S)' = Carry(S) /\ (b \in Carry(S) <=> msg[b] \in S)
  BY Zenon DEF Carry
<1>2. mbox \in Seq(Blocks)
  BY Zenon DEF PoolInv, PoolTypes
<1>3. Cardinality(Hits(Append(mbox, b), Carry(S))) = Cardinality(Hits(mbox, Carry(S))) + One(b \in Carry(S))
  BY Zenon, <1>2, HitsAppend
<1>4. Cardinality(Hits(mbox, Carry(S))) \in Nat /\ One(b \in Carry(S)) = One(msg[b] \in S)
  BY Zenon, <1>1, <1>2, HitsFinite DEF One
<1>5. Cardinality(Hits(mbox, Carry(S)))' = Cardinality(Hits(mbox, Carry(S))) + One(msg[b] \in S)
  BY Zenon, <1>1, <1>3, <1>4 DEF Hits
<1>6. One(IsUnhandled(S))' = One(IsUnhandled(S)) /\ One(IsUnhandled(S)) \in Nat /\ One(msg[b] \in S) \in Nat
  BY Zenon DEF IsUnhandled, One
<1> QED
  BY <1>4, <1>5, <1>6, CountLaws DEF CountLaw

\* A fetch moves a message from one part of the counts to the other.
LEMMA CountFetch ==
  ASSUME PoolInv, PoolInv', Places, Fetch, NEW S
  PROVE  Count(S)' = Count(S)
<1> USE ThreadFacts
<1>1. /\ mbox # <<>> /\ mbox' = Tail(mbox) /\ UNCHANGED msg
      /\ cur'[T] = Head(mbox) /\ pc'[T] = "relock" /\ pc[T] \in {"fetch_forever", "fetch_some"}
  BY DEF Fetch, Goto, Hold, Places, PoolInv, PoolTypes, pool
<1>2. mbox \in Seq(Blocks) /\ Head(mbox) \in Blocks
  BY <1>1 DEF PoolInv, PoolTypes
<1>3. Carry(S)' = Carry(S) /\ (Head(mbox) \in Carry(S) <=> msg[Head(mbox)] \in S)
  BY Zenon, <1>1, <1>2 DEF Carry
<1>4. Cardinality(Hits(mbox, Carry(S))) = Cardinality(Hits(Tail(mbox), Carry(S))) + One(Head(mbox) \in Carry(S))
  BY Zenon, <1>1, <1>2, HitsTail
<1>5. Cardinality(Hits(mbox, Carry(S)))' = Cardinality(Hits(Tail(mbox), Carry(S)))
  BY Zenon, <1>1, <1>3 DEF Hits
<1>6. One(IsUnhandled(S)) = 0 /\ One(IsUnhandled(S))' = One(Head(mbox) \in Carry(S))
  BY Zenon, <1>1, <1>3 DEF IsUnhandled, One
<1>7. Cardinality(Hits(mbox, Carry(S))) \in Nat
  BY Zenon, <1>2, HitsFinite
<1> QED
  BY <1>4, <1>5, <1>6, <1>7, CountLaws DEF CountLaw

\* Handling a message takes one from the counts.
LEMMA CountHandled ==
  ASSUME PoolInv, PoolInv', NEW S, UNCHANGED <<mbox, msg>>,
         pc[T] = "handle", pc'[T] \in {"free_msg", "again"}
  PROVE  Count(S) = Count(S)' + One(msg[cur[T]] \in S)
<1>1. Hits(mbox, Carry(S))' = Hits(mbox, Carry(S))
  BY Zenon DEF Hits, Carry
<1>2. One(IsUnhandled(S))' = 0 /\ One(IsUnhandled(S)) = One(msg[cur[T]] \in S)
  BY Zenon DEF IsUnhandled, One
<1>3. Cardinality(Hits(mbox, Carry(S))) \in Nat
  BY Zenon, HitsFinite DEF PoolInv, PoolTypes
<1> QED
  BY <1>1, <1>2, <1>3, CountLaws DEF CountLaw, One

Quiet == \A S : Count(S)' = Count(S)

\* Of tcpip_thread's steps only those that act upon a message change the counts.
LEMMA TcpipQuiet ==
  ASSUME PoolInv, PoolInv', LockInv,
         \/ Start \/ SleepForEver \/ SleepSome \/ Release \/ CheckTimeouts \/ FetchTimeout
         \/ Fetch \/ FreeMsg
  PROVE  Quiet
<1> USE ThreadFacts
<1>0. Places
  BY Zenon DEF LockInv
<1>1. CASE Start
  <2>1. UNCHANGED <<mbox, msg, cur>>
    BY Zenon, <1>1 DEF Start, LockCore, ClaimCore, pool
  <2>2. \/ Goto(T, "lock", "claim") \/ Goto(T, "claim", "again")
        \/ Goto(T, "relock", "reclaim") \/ Goto(T, "reclaim", "handle")
        \/ Goto(T, "relock_late", "reclaim_late") \/ Goto(T, "reclaim_late", "check")
    BY Zenon, <1>1 DEF Start, LockCore, ClaimCore
  <2>3. pc[T] \in {"relock", "reclaim", "handle"} <=> pc'[T] \in {"relock", "reclaim", "handle"}
    BY Zenon, <1>0, <2>2 DEF Goto, Places
  <2> QED
    BY Zenon, <2>1, <2>3, CountSame DEF Quiet
<1>2. CASE SleepForEver \/ SleepSome \/ Release \/ FetchTimeout \/ CheckTimeouts
  <2>1. UNCHANGED <<mbox, msg, cur>>
    BY Zenon, <1>2 DEF SleepForEver, SleepSome, Release, FetchTimeout, DisclaimCore, UnlockCore, CheckTimeouts, pool
  <2>2. \/ Goto(T, "again", "unlock_forever") \/ Goto(T, "again", "unlock_some")
        \/ Goto(T, "unlock_forever", "fetch_forever") \/ Goto(T, "unlock_some", "fetch_some")
        \/ Goto(T, "fetch_some", "relock_late")
        \/ Goto(T, "check", "again") \/ Goto(T, "again", "again")
    BY Zenon, <1>2 DEF SleepForEver, SleepSome, Release, FetchTimeout, DisclaimCore, UnlockCore, CheckTimeouts, Goto
  <2>3. pc[T] \in {"relock", "reclaim", "handle"} <=> pc'[T] \in {"relock", "reclaim", "handle"}
    BY Zenon, <1>0, <2>2 DEF Goto, Places
  <2> QED
    BY Zenon, <2>1, <2>3, CountSame DEF Quiet
<1>3. CASE Fetch
  BY Zenon, <1>0, <1>3, CountFetch DEF Quiet
<1>4. CASE FreeMsg
  <2>1. UNCHANGED <<mbox, msg>> /\ pc[T] = "free_msg" /\ pc'[T] = "again"
    BY Zenon, <1>0, <1>4 DEF FreeMsg, Goto, Places
  <2> QED
    BY Zenon, <2>1, CountSame DEF Quiet
<1> QED
  BY Zenon, <1>1, <1>2, <1>3, <1>4

\* Of a driver's steps only the post changes the counts.
LEMMA DriverQuiet ==
  ASSUME PoolInv, PoolInv', LockInv, NEW d \in Drivers,
         Receive(d) \/ InpktAlloc(d) \/ InpktNoMsg(d) \/ InpktFull(d) \/ Drop(d)
  PROVE  Quiet
<1> USE ThreadFacts
<1>1. UNCHANGED mbox
  BY Zenon DEF Receive, InpktAlloc, InpktNoMsg, InpktFull, Drop
<1>2. \E to \in DriverPCs : pc' = [pc EXCEPT ![d] = to]
  BY Zenon DEF Receive, InpktAlloc, InpktNoMsg, InpktFull, Drop, Goto, DriverPCs
<1>3. \E b \in Blocks \cup {None} : cur' = [cur EXCEPT ![d] = b] \/ cur' = cur
  BY Zenon DEF Receive, InpktAlloc, InpktNoMsg, InpktFull, Drop, Alloc, Free, Hold, Blocks
<1>4. pc'[T] = pc[T] /\ cur'[T] = cur[T]
  BY Zenon, <1>2, <1>3 DEF LockInv, Places, PoolInv, PoolTypes
<1>5. \A x \in Blocks \ free : msg'[x] = msg[x]
  BY Zenon DEF Receive, InpktAlloc, InpktNoMsg, InpktFull, Drop, Alloc, Free, pool, PoolInv, PoolTypes
<1> QED
  BY Zenon, <1>1, <1>4, <1>5, CountSame DEF Quiet

\* Of an application's steps only the posts change the counts.
LEMMA AppQuiet ==
  ASSUME PoolInv, PoolInv', LockInv, NEW a \in Apps,
         \/ EnterCore(a) \/ LeaveCore(a) \/ SetTimers(a) \/ CallbackAlloc(a)
         \/ TryCallbackFull(a) \/ StaticNew(a) \/ StaticDelete(a)
  PROVE  Quiet
<1> USE ThreadFacts
<1>1. UNCHANGED mbox
  BY Zenon DEF EnterCore, LeaveCore, LockCore, ClaimCore, DisclaimCore, UnlockCore, SetTimers, CallbackAlloc,
         TryCallbackFull, StaticNew, StaticDelete
<1>2. (\E to : pc' = [pc EXCEPT ![a] = to]) \/ pc' = pc
  BY Zenon DEF EnterCore, LeaveCore, LockCore, ClaimCore, DisclaimCore, UnlockCore, SetTimers, CallbackAlloc,
         TryCallbackFull, StaticNew, StaticDelete, Goto
<1>3. (\E b : cur' = [cur EXCEPT ![a] = b]) \/ cur' = cur
  BY Zenon DEF EnterCore, LeaveCore, LockCore, ClaimCore, DisclaimCore, UnlockCore, SetTimers, CallbackAlloc,
         TryCallbackFull, StaticNew, StaticDelete, Alloc, Free, Hold
<1>4. pc'[T] = pc[T] /\ cur'[T] = cur[T]
  BY Zenon, <1>2, <1>3 DEF LockInv, Places, PoolInv, PoolTypes
<1>5. \A x \in Blocks \ free : msg'[x] = msg[x]
  BY Zenon DEF EnterCore, LeaveCore, LockCore, ClaimCore, DisclaimCore, UnlockCore, SetTimers, CallbackAlloc,
         TryCallbackFull, StaticNew, StaticDelete, Alloc, Free, pool, PoolInv, PoolTypes
<1> QED
  BY Zenon, <1>1, <1>4, <1>5, CountSame DEF Quiet
-------------------------------------------------------------------------------
(***************************************************************************)
(* Packets and callbacks                                                    *)
(***************************************************************************)
DriversOf(p) == {d \in Drivers : rx[d] = p}
Inpkt(p) == {Written("INPKT", p)}
Callbacks(a) == {Written("CALLBACK", a), Written("CALLBACK_STATIC", a)}

PacketInv ==
  /\ ref \in [Pkts -> 0..1] /\ kept \subseteq Pkts
  /\ \A p \in Pkts : ref[p] = Cardinality(DriversOf(p)) + Count(Inpkt(p)) + One(p \in kept)
CallbackInv ==
  owed \in [Apps -> Nat] /\ \A a \in Apps : owed[a] = Count(Callbacks(a))

\* The drivers that have a packet are finitely many, before and after a step.
LEMMA DriversOfFinite ==
  \A p : IsFiniteSet(DriversOf(p)) /\ Cardinality(DriversOf(p)) \in Nat
<1> TAKE p
<1>1. DriversOf(p) \subseteq Drivers /\ IsFiniteSet(Drivers)
  BY Zenon, ThreadsAssumption DEF DriversOf
<1> QED
  BY Zenon, <1>1, FS_Subset, FS_CardinalityType

\* A driver takes a packet.
LEMMA DriverTakes ==
  ASSUME PoolInv, NEW d \in Drivers, NEW q \in Pkts, NEW p \in Pkts,
         rx[d] = None, rx' = [rx EXCEPT ![d] = q]
  PROVE  Cardinality(DriversOf(p))' = Cardinality(DriversOf(p)) + One(p = q)
<1>1. rx \in [Drivers -> Pkts \cup {None}] /\ p # None
  BY Zenon, BlockFacts DEF PoolInv, PoolTypes
<1>2. DriversOf(p)' = (IF p = q THEN DriversOf(p) \cup {d} ELSE DriversOf(p)) /\ d \notin DriversOf(p)
  BY Zenon, <1>1 DEF DriversOf
<1>3. Cardinality(DriversOf(p) \cup {d}) = Cardinality(DriversOf(p)) + 1
  BY Zenon, <1>2, DriversOfFinite, FS_AddElement
<1> QED
  BY <1>2, <1>3, DriversOfFinite DEF One

\* A driver gives its packet away.
LEMMA DriverGives ==
  ASSUME PoolInv, NEW d \in Drivers, NEW p \in Pkts,
         rx[d] \in Pkts, rx' = [rx EXCEPT ![d] = None]
  PROVE  /\ Cardinality(DriversOf(p)) = Cardinality(DriversOf(p))' + One(p = rx[d])
         /\ Cardinality(DriversOf(p))' \in Nat
<1>1. rx \in [Drivers -> Pkts \cup {None}] /\ p # None
  BY Zenon, BlockFacts DEF PoolInv, PoolTypes
<1>2. DriversOf(p)' = DriversOf(p) \ {d} /\ (d \in DriversOf(p) <=> p = rx[d])
  BY Zenon, <1>1 DEF DriversOf
<1>3. Cardinality(DriversOf(p) \ {d}) = IF d \in DriversOf(p) THEN Cardinality(DriversOf(p)) - 1 ELSE Cardinality(DriversOf(p))
  BY Zenon, DriversOfFinite, FS_RemoveElement
<1>4. d \in DriversOf(p) => Cardinality(DriversOf(p)) # 0
  BY Zenon, DriversOfFinite, FS_EmptySet
<1> QED
  BY <1>2, <1>3, <1>4, DriversOfFinite DEF One

\* Which messages the written contents belong to.
LEMMA ContentFacts ==
  /\ \A p, q : Written("INPKT", p) \in Inpkt(q) <=> p = q
  /\ \A p, a : Written("INPKT", p) \notin Callbacks(a)
  /\ \A a, p : Written("CALLBACK", a) \notin Inpkt(p) /\ Written("CALLBACK_STATIC", a) \notin Inpkt(p)
  /\ \A a, e : Written("CALLBACK", a) \in Callbacks(e) <=> a = e
  /\ \A a, e : Written("CALLBACK_STATIC", a) \in Callbacks(e) <=> a = e
<1>1. \A t, u, x, y : Written(t, x) = Written(u, y) <=> t = u /\ x = y
  <2> SUFFICES ASSUME NEW t, NEW u, NEW x, NEW y, Written(t, x) = Written(u, y) PROVE t = u /\ x = y
    BY SMTT(20)
  <2> QED
    BY WrittenFacts
<1> QED
  BY <1>1 DEF Inpkt, Callbacks

\* A step that changes neither counts nor packets.
LEMMA PacketQuiet ==
  ASSUME PacketInv, Quiet, UNCHANGED packets PROVE PacketInv'
<1>1. UNCHANGED <<rx, ref, kept>>
  BY Zenon DEF packets
<1>2. \A p : DriversOf(p)' = DriversOf(p) /\ Count(Inpkt(p))' = Count(Inpkt(p))
  BY Zenon, <1>1 DEF DriversOf, Quiet, Inpkt
<1> QED
  BY Zenon, <1>1, <1>2 DEF PacketInv, One

\* The references and tcpip_thread.
LEMMA TcpipStepPackets ==
  ASSUME PoolInv, PoolInv', LockInv, PacketInv, TcpipStep PROVE PacketInv'
<1> USE ThreadFacts
<1>0. Places /\ CountLaw /\ CountLaw'
  BY Zenon, CountLaws DEF LockInv
<1>a. \A p \in Pkts : Cardinality(DriversOf(p)) \in Nat /\ Count(Inpkt(p)) \in Nat /\ Count(Inpkt(p))' \in Nat
  BY Zenon, <1>0, DriversOfFinite DEF CountLaw, Inpkt
<1>1. CASE Start \/ SleepForEver \/ SleepSome \/ Release \/ FetchTimeout \/ Fetch \/ FreeMsg
  <2>1. UNCHANGED packets
    BY Zenon, <1>1 DEF Start, SleepForEver, SleepSome, Release, FetchTimeout, Fetch, FreeMsg, LockCore, ClaimCore,
                DisclaimCore, UnlockCore
  <2> QED
    BY Zenon, <1>1, <2>1, TcpipQuiet, PacketQuiet
<1>2. CASE CheckTimeouts
  <2>1. Quiet
    BY Zenon, <1>2, TcpipQuiet
  <2>2. CASE timers = "due"
    <3>1. /\ kept' \subseteq kept /\ UNCHANGED rx
          /\ ref' = [p \in Pkts |-> IF p \in kept \ kept' THEN ref[p] - 1 ELSE ref[p]]
      BY Zenon, <1>2, <2>2 DEF CheckTimeouts
    <3>2. \A p \in Pkts : DriversOf(p)' = DriversOf(p) /\ Count(Inpkt(p))' = Count(Inpkt(p))
      BY Zenon, <2>1, <3>1 DEF DriversOf, Quiet, Inpkt
    <3>3. \A p \in Pkts : /\ ref[p] \in 0..1
                          /\ ref[p] = Cardinality(DriversOf(p)) + Count(Inpkt(p)) + One(p \in kept)
      BY Zenon DEF PacketInv
    <3>4. ASSUME NEW p \in Pkts
          PROVE  /\ ref'[p] \in 0..1
                 /\ ref'[p] = Cardinality(DriversOf(p)) + Count(Inpkt(p)) + One(p \in kept')
      BY <1>a, <3>1, <3>3 DEF One
    <3>5. ref' \in [Pkts -> 0..1]
      BY Zenon, <3>1, <3>4
    <3>6. kept' \subseteq Pkts
      BY Zenon, <3>1 DEF PacketInv
    <3> QED
      BY Zenon, <3>2, <3>4, <3>5, <3>6 DEF PacketInv, One
  <2>3. CASE timers # "due"
    <3>1. UNCHANGED packets
      BY Zenon, <1>2, <2>3 DEF CheckTimeouts, packets
    <3> QED
      BY Zenon, <2>1, <3>1, PacketQuiet
  <2> QED
    BY Zenon, <2>2, <2>3
<1>3. CASE HandleInput
  <2>1. /\ pc[T] = "handle" /\ pc'[T] = "free_msg" /\ UNCHANGED <<mbox, msg, cur, rx>>
        /\ msg[cur[T]].type = "INPKT"
    BY Zenon, <1>0, <1>3 DEF HandleInput, Goto, Places, pool
  <2>2. cur[T] # None
    BY Zenon, <2>1 DEF PoolInv, Locals, Server, FetchedPCs
  <2>3. PICK q \in Pkts : msg[cur[T]] = Written("INPKT", q)
    BY SMTT(20), <2>1, <2>2, WrittenFacts DEF PoolInv, AllMeant, Meant
  <2>4. /\ msg[cur[T]].arg = q
        /\ \/ ref' = [ref EXCEPT ![q] = @ - 1] /\ kept' = kept
           \/ kept' = kept \cup {q} /\ ref' = ref
    BY SMTT(20), <1>3, <2>3, WrittenFacts DEF HandleInput
  <2>5. ASSUME NEW p \in Pkts PROVE Count(Inpkt(p)) = Count(Inpkt(p))' + One(p = q)
    <3>1. Count(Inpkt(p)) = Count(Inpkt(p))' + One(msg[cur[T]] \in Inpkt(p))
      BY Zenon, <2>1, CountHandled DEF Inpkt
    <3> QED
      BY SMTT(20), <2>3, <3>1, ContentFacts DEF One
  <2>6. \A p \in Pkts : /\ ref[p] \in 0..1
                        /\ ref[p] = Cardinality(DriversOf(p)) + Count(Inpkt(p)) + One(p \in kept)
    BY Zenon DEF PacketInv
  <2>7. ASSUME NEW p \in Pkts
        PROVE  /\ ref'[p] \in 0..1
               /\ ref'[p] = Cardinality(DriversOf(p)) + Count(Inpkt(p))' + One(p \in kept')
    <3>0. ref \in [Pkts -> 0..1]
      BY Zenon DEF PacketInv
    <3>1. Count(Inpkt(p)) = Count(Inpkt(p))' + One(p = q)
      BY Zenon, <2>5
    <3>2. CASE p = q
      BY SMTT(20), <1>a, <2>4, <2>6, <3>0, <3>1, <3>2 DEF One
    <3>3. CASE p # q
      BY SMTT(20), <1>a, <2>4, <2>6, <3>0, <3>1, <3>3 DEF One
    <3> QED
      BY Zenon, <3>2, <3>3
  <2>8. ref' \in [Pkts -> 0..1] /\ kept' \subseteq Pkts
    BY Zenon, <2>4, <2>7 DEF PacketInv
  <2>9. \A p \in Pkts : DriversOf(p)' = DriversOf(p)
    BY Zenon, <2>1 DEF DriversOf
  <2> QED
    BY Zenon, <2>7, <2>8, <2>9 DEF PacketInv, One
<1>4. CASE HandleCallback \/ HandleCallbackStatic
  <2>1. /\ pc[T] = "handle" /\ pc'[T] \in {"free_msg", "again"} /\ UNCHANGED <<mbox, msg>>
        /\ UNCHANGED packets /\ msg[cur[T]].type # "INPKT"
    BY Zenon, <1>0, <1>4 DEF HandleCallback, HandleCallbackStatic, Goto, Places, pool
  <2>2. \A p \in Pkts : msg[cur[T]] \notin Inpkt(p)
    BY <2>1, WrittenFacts DEF Inpkt
  <2>3. \A p \in Pkts : Count(Inpkt(p)) = Count(Inpkt(p))' + One(msg[cur[T]] \in Inpkt(p))
    BY Zenon, <2>1, CountHandled DEF Inpkt
  <2>4. \A p \in Pkts : Count(Inpkt(p)) = Count(Inpkt(p))'
    BY <1>a, <2>2, <2>3 DEF One
  <2>5. \A p \in Pkts : DriversOf(p)' = DriversOf(p)
    BY Zenon, <2>1 DEF DriversOf, packets
  <2> QED
    BY Zenon, <2>1, <2>4, <2>5 DEF PacketInv, One, packets
<1> QED
  BY Zenon, <1>1, <1>2, <1>3, <1>4 DEF TcpipStep

\* The references and a driver.
LEMMA DriverStepPackets ==
  ASSUME PoolInv, PoolInv', LockInv, PacketInv, NEW d \in Drivers, Receive(d) \/ DriverStep(d)
  PROVE  PacketInv'
<1> USE ThreadFacts, BlockFacts
<1>0. Places /\ Receiver(d) /\ CountLaw /\ CountLaw' /\ rx \in [Drivers -> Pkts \cup {None}]
  BY Zenon, CountLaws DEF LockInv, PoolInv, Locals, PoolTypes
<1>a. \A p \in Pkts : Cardinality(DriversOf(p)) \in Nat /\ Count(Inpkt(p)) \in Nat /\ Count(Inpkt(p))' \in Nat
  BY Zenon, <1>0, DriversOfFinite DEF CountLaw, Inpkt
<1>b. /\ ref \in [Pkts -> 0..1] /\ kept \subseteq Pkts
      /\ \A p \in Pkts : ref[p] = Cardinality(DriversOf(p)) + Count(Inpkt(p)) + One(p \in kept)
  BY Zenon DEF PacketInv
<1>1. CASE InpktAlloc(d) \/ InpktNoMsg(d) \/ InpktFull(d)
  <2>1. UNCHANGED packets
    BY Zenon, <1>1 DEF InpktAlloc, InpktNoMsg, InpktFull
  <2> QED
    BY Zenon, <1>1, <2>1, DriverQuiet, PacketQuiet
<1>2. CASE Receive(d)
  <2>1. PICK q \in Pkts : ref[q] = 0 /\ ref' = [ref EXCEPT ![q] = 1] /\ rx' = [rx EXCEPT ![d] = q]
    BY Zenon, <1>2 DEF Receive
  <2>2. pc[d] = "idle" /\ UNCHANGED kept
    BY Zenon, <1>2 DEF Receive, Goto
  <2>3. rx[d] = None
    BY Zenon, <1>0, <2>2 DEF Receiver
  <2>4. \A p \in Pkts : Cardinality(DriversOf(p))' = Cardinality(DriversOf(p)) + One(p = q)
    <3> TAKE p \in Pkts
    <3> QED
      BY Zenon, <2>1, <2>3, DriverTakes
  <2>5. \A p \in Pkts : Count(Inpkt(p))' = Count(Inpkt(p))
    BY Zenon, <1>2, DriverQuiet DEF Quiet, Inpkt
  <2>6. ASSUME NEW p \in Pkts
        PROVE  ref'[p] = Cardinality(DriversOf(p))' + Count(Inpkt(p))' + One(p \in kept)
    <3>1. CASE p = q
      BY SMTT(20), <1>a, <1>b, <2>1, <2>4, <2>5, <3>1 DEF One
    <3>2. CASE p # q
      BY SMTT(20), <1>a, <1>b, <2>1, <2>4, <2>5, <3>2 DEF One
    <3> QED
      BY Zenon, <3>1, <3>2
  <2>7. ref' \in [Pkts -> 0..1]
    BY <1>b, <2>1
  <2> QED
    BY Zenon, <1>b, <2>2, <2>6, <2>7 DEF PacketInv, One
<1>3. CASE InpktPost(d)
  <2>1. /\ pc[d] = "trypost" /\ rx' = [rx EXCEPT ![d] = None] /\ UNCHANGED <<msg, ref, kept>>
        /\ mbox' = Append(mbox, cur[d]) /\ pc'[T] = pc[T] /\ cur'[T] = cur[T]
    BY Zenon, <1>0, <1>3 DEF InpktPost, Post, Hold, Goto, Places, pool, PoolInv, PoolTypes
  <2>2. cur[d] \in Blocks /\ rx[d] \in Pkts /\ msg[cur[d]] = Written("INPKT", rx[d])
    BY Zenon, <1>0, <2>1 DEF Receiver, PoolInv, PoolTypes
  <2>3. \A p \in Pkts : Count(Inpkt(p))' = Count(Inpkt(p)) + One(msg[cur[d]] \in Inpkt(p))
    BY Zenon, <2>1, <2>2, CountPost DEF Inpkt
  <2>4. \A p \in Pkts : Count(Inpkt(p))' = Count(Inpkt(p)) + One(p = rx[d])
    BY SMTT(20), <2>2, <2>3, ContentFacts DEF One
  <2>5. \A p \in Pkts : /\ Cardinality(DriversOf(p)) = Cardinality(DriversOf(p))' + One(p = rx[d])
                        /\ Cardinality(DriversOf(p))' \in Nat
    BY Zenon, <2>1, <2>2, DriverGives
  <2>6. ASSUME NEW p \in Pkts
        PROVE  ref'[p] = Cardinality(DriversOf(p))' + Count(Inpkt(p))' + One(p \in kept)
    <3>1. ref'[p] = Cardinality(DriversOf(p)) + Count(Inpkt(p)) + One(p \in kept)
      BY Zenon, <1>b, <2>1
    <3>2. /\ Count(Inpkt(p))' = Count(Inpkt(p)) + One(p = rx[d])
          /\ Cardinality(DriversOf(p)) = Cardinality(DriversOf(p))' + One(p = rx[d])
          /\ Cardinality(DriversOf(p))' \in Nat /\ Count(Inpkt(p)) \in Nat
      BY Zenon, <1>a, <2>4, <2>5
    <3> QED
      BY <3>1, <3>2 DEF One
  <2> QED
    BY Zenon, <1>b, <2>1, <2>6 DEF PacketInv, One
<1>4. CASE Drop(d)
  <2>1. /\ pc[d] = "refused" /\ rx' = [rx EXCEPT ![d] = None] /\ UNCHANGED kept
        /\ ref' = [ref EXCEPT ![rx[d]] = @ - 1]
    BY Zenon, <1>4 DEF Drop, Goto
  <2>2. rx[d] \in Pkts
    BY Zenon, <1>0, <2>1 DEF Receiver
  <2>3. \A p \in Pkts : Count(Inpkt(p))' = Count(Inpkt(p))
    BY Zenon, <1>4, DriverQuiet DEF Quiet, Inpkt
  <2>4. \A p \in Pkts : /\ Cardinality(DriversOf(p)) = Cardinality(DriversOf(p))' + One(p = rx[d])
                        /\ Cardinality(DriversOf(p))' \in Nat
    BY Zenon, <2>1, <2>2, DriverGives
  <2>5. ASSUME NEW p \in Pkts
        PROVE  /\ ref'[p] = Cardinality(DriversOf(p))' + Count(Inpkt(p))' + One(p \in kept)
               /\ ref'[p] \in 0..1
    <3>1. CASE p = rx[d]
      BY SMTT(20), <1>a, <1>b, <2>1, <2>2, <2>3, <2>4, <3>1 DEF One
    <3>2. CASE p # rx[d]
      BY SMTT(20), <1>a, <1>b, <2>1, <2>2, <2>3, <2>4, <3>2 DEF One
    <3> QED
      BY Zenon, <3>1, <3>2
  <2>6. ref' \in [Pkts -> 0..1]
    BY Zenon, <1>b, <2>1, <2>5
  <2> QED
    BY Zenon, <1>b, <2>1, <2>5, <2>6 DEF PacketInv, One
<1> QED
  BY Zenon, <1>1, <1>2, <1>3, <1>4 DEF DriverStep

\* A post of an application: where it goes and what it carries.
LEMMA AppPosts ==
  ASSUME PoolInv, PoolInv', LockInv, NEW a \in Apps, CallbackPost(a) \/ StaticPost(a)
  PROVE  \E b \in Blocks : /\ msg[b] \in Callbacks(a)
                           /\ \A S : Count(S)' = Count(S) + One(msg[b] \in S)
<1> USE ThreadFacts, BlockFacts
<1>0. Places /\ Client(a)
  BY Zenon DEF LockInv, PoolInv, Locals
<1>1. CASE CallbackPost(a)
  <2>1. Goto(a, "post", "idle") \/ Goto(a, "trypost", Back(a))
    BY Zenon, <1>1 DEF CallbackPost
  <2>2. pc[a] \in {"post", "trypost"} /\ pc'[T] = pc[T]
    BY Zenon, <1>0, <2>1 DEF Goto, Places
  <2>3. mbox' = Append(mbox, cur[a]) /\ UNCHANGED msg /\ cur'[T] = cur[T]
    BY Zenon, <1>1 DEF CallbackPost, Post, Hold, pool, PoolInv, PoolTypes
  <2>4. cur[a] \in Blocks /\ msg[cur[a]] = Written("CALLBACK", a)
    BY Zenon, <1>0, <2>2 DEF Client, PoolInv, PoolTypes
  <2>5. msg[cur[a]] \in Callbacks(a)
    BY <2>4, ContentFacts
  <2> QED
    BY Zenon, <2>2, <2>3, <2>4, <2>5, CountPost
<1>2. CASE StaticPost(a)
  <2>1. mbox' = Append(mbox, static[a]) /\ UNCHANGED <<msg, pc, cur>> /\ static[a] # None
    BY Zenon, <1>2 DEF StaticPost, pool
  <2>2. static[a] \in Blocks /\ msg[static[a]] = Written("CALLBACK_STATIC", a)
    BY Zenon, <1>0, <2>1 DEF Client, PoolInv, PoolTypes
  <2>3. msg[static[a]] \in Callbacks(a)
    BY <2>2, ContentFacts
  <2> QED
    BY Zenon, <2>1, <2>2, <2>3, CountPost
<1> QED
  BY Zenon, <1>1, <1>2

\* The references and an application thread.
LEMMA AppStepPackets ==
  ASSUME PoolInv, PoolInv', LockInv, PacketInv, NEW a \in Apps, AppStep(a) \/ AppCall(a)
  PROVE  PacketInv'
<1>1. UNCHANGED packets
  BY Zenon DEF AppStep, AppCall, EnterCore, LeaveCore, LockCore, ClaimCore, DisclaimCore, UnlockCore, SetTimers,
         CallbackAlloc, CallbackPost, TryCallbackFull, StaticNew, StaticPost, StaticDelete
<1>2. CASE CallbackPost(a) \/ StaticPost(a)
  <2>1. PICK b \in Blocks : /\ msg[b] \in Callbacks(a)
                            /\ \A S : Count(S)' = Count(S) + One(msg[b] \in S)
    BY Zenon, <1>2, AppPosts
  <2>2. \A p \in Pkts : msg[b] \notin Inpkt(p)
    BY <2>1, ContentFacts DEF Callbacks
  <2>3. \A p \in Pkts : Count(Inpkt(p)) \in Nat
    BY Zenon, CountLaws DEF CountLaw, Inpkt
  <2>4. \A p \in Pkts : Count(Inpkt(p))' = Count(Inpkt(p)) + One(msg[b] \in Inpkt(p))
    BY Zenon, <2>1 DEF Inpkt
  <2>5. \A p \in Pkts : Count(Inpkt(p))' = Count(Inpkt(p))
    BY <2>2, <2>3, <2>4 DEF One
  <2>6. \A p \in Pkts : DriversOf(p)' = DriversOf(p)
    BY Zenon, <1>1 DEF DriversOf, packets
  <2> QED
    BY Zenon, <1>1, <2>5, <2>6 DEF PacketInv, One, packets
<1>3. CASE ~(CallbackPost(a) \/ StaticPost(a))
  BY Zenon, <1>1, <1>3, AppQuiet, PacketQuiet DEF AppStep, AppCall
<1> QED
  BY Zenon, <1>2, <1>3

\* The callbacks and tcpip_thread.
LEMMA TcpipStepCallbacks ==
  ASSUME PoolInv, PoolInv', LockInv, CallbackInv, TcpipStep PROVE CallbackInv'
<1> USE ThreadFacts
<1>0. Places /\ CountLaw /\ CountLaw'
  BY Zenon, CountLaws DEF LockInv
<1>a. \A a \in Apps : Count(Callbacks(a)) \in Nat /\ Count(Callbacks(a))' \in Nat
  BY Zenon, <1>0 DEF CountLaw, Callbacks
<1>b. owed \in [Apps -> Nat] /\ \A a \in Apps : owed[a] = Count(Callbacks(a))
  BY Zenon DEF CallbackInv
<1>1. CASE Start \/ SleepForEver \/ SleepSome \/ Release \/ FetchTimeout \/ Fetch \/ FreeMsg \/ CheckTimeouts
  <2>1. UNCHANGED owed
    BY Zenon, <1>1 DEF Start, SleepForEver, SleepSome, Release, FetchTimeout, Fetch, FreeMsg, LockCore, ClaimCore,
                DisclaimCore, UnlockCore, CheckTimeouts
  <2>2. \A a \in Apps : Count(Callbacks(a))' = Count(Callbacks(a))
    BY Zenon, <1>1, TcpipQuiet DEF Quiet, Callbacks
  <2> QED
    BY Zenon, <1>b, <2>1, <2>2 DEF CallbackInv
<1>2. CASE HandleInput \/ HandleCallback \/ HandleCallbackStatic
  <2>1. /\ pc[T] = "handle" /\ pc'[T] \in {"free_msg", "again"} /\ UNCHANGED <<mbox, msg>>
    BY Zenon, <1>0, <1>2 DEF HandleInput, HandleCallback, HandleCallbackStatic, Goto, Places, pool
  <2>2. cur[T] # None
    BY Zenon, <2>1 DEF PoolInv, Locals, Server, FetchedPCs
  <2>3. Meant(cur[T])
    BY Zenon, <2>2 DEF PoolInv, AllMeant
  <2>4. \A a \in Apps : Count(Callbacks(a)) = Count(Callbacks(a))' + One(msg[cur[T]] \in Callbacks(a))
    BY Zenon, <2>1, CountHandled DEF Callbacks
  <2>5. CASE HandleInput
    <3>1. msg[cur[T]].type = "INPKT" /\ UNCHANGED owed
      BY Zenon, <2>5 DEF HandleInput
    <3>2. \A a \in Apps : msg[cur[T]] \notin Callbacks(a)
      BY <3>1, WrittenFacts DEF Callbacks
    <3>3. \A a \in Apps : Count(Callbacks(a))' = Count(Callbacks(a))
      BY <1>a, <2>4, <3>2 DEF One
    <3> QED
      BY Zenon, <1>b, <3>1, <3>3 DEF CallbackInv
  <2>6. CASE HandleCallback \/ HandleCallbackStatic
    <3>1. /\ msg[cur[T]].type \in {"CALLBACK", "CALLBACK_STATIC"}
          /\ owed' = [owed EXCEPT ![msg[cur[T]].arg] = @ - 1]
      BY Zenon, <2>6 DEF HandleCallback, HandleCallbackStatic
    <3>2. PICK e \in Apps : msg[cur[T]] = Written("CALLBACK", e) \/ msg[cur[T]] = Written("CALLBACK_STATIC", e)
      BY <2>3, <3>1, WrittenFacts DEF Meant
    <3>3. msg[cur[T]].arg = e
      BY <3>2, WrittenFacts
    <3>4. \A a \in Apps : msg[cur[T]] \in Callbacks(a) <=> a = e
      BY <3>2, ContentFacts
    <3>5. \A a \in Apps : owed'[a] = Count(Callbacks(a))'
      <4> SUFFICES ASSUME NEW a \in Apps PROVE owed'[a] = Count(Callbacks(a))'
        BY Zenon
      <4>1. Count(Callbacks(a)) = Count(Callbacks(a))' + One(a = e)
        BY Zenon, <2>4, <3>4 DEF One
      <4>2. owed[a] = Count(Callbacks(a)) /\ Count(Callbacks(a))' \in Nat
        BY Zenon, <1>a, <1>b
      <4> QED
        BY <1>b, <3>1, <3>3, <4>1, <4>2 DEF One
    <3>6. owed' \in [Apps -> Nat]
      BY Zenon, <1>a, <1>b, <3>1, <3>5
    <3> QED
      BY Zenon, <3>5, <3>6 DEF CallbackInv
  <2> QED
    BY Zenon, <1>2, <2>5, <2>6
<1> QED
  BY Zenon, <1>1, <1>2 DEF TcpipStep

\* The callbacks and the other threads.
LEMMA OtherStepsCallbacks ==
  ASSUME PoolInv, PoolInv', LockInv, CallbackInv
  PROVE  /\ \A d \in Drivers : Receive(d) \/ DriverStep(d) => CallbackInv'
         /\ \A a \in Apps : AppStep(a) \/ AppCall(a) => CallbackInv'
<1> USE ThreadFacts
<1>0. Places /\ CountLaw /\ CountLaw'
  BY Zenon, CountLaws DEF LockInv
<1>a. \A a \in Apps : Count(Callbacks(a)) \in Nat /\ Count(Callbacks(a))' \in Nat
  BY Zenon, <1>0 DEF CountLaw, Callbacks
<1>b. owed \in [Apps -> Nat] /\ \A a \in Apps : owed[a] = Count(Callbacks(a))
  BY Zenon DEF CallbackInv
<1>1. ASSUME Quiet, UNCHANGED owed PROVE CallbackInv'
  <2>1. \A a \in Apps : Count(Callbacks(a))' = Count(Callbacks(a))
    BY Zenon, <1>1 DEF Quiet, Callbacks
  <2> QED
    BY Zenon, <1>1, <1>b, <2>1 DEF CallbackInv
<1>2. ASSUME NEW d \in Drivers, InpktPost(d) PROVE CallbackInv'
  <2>1. /\ pc[d] = "trypost" /\ UNCHANGED <<msg, owed>>
        /\ mbox' = Append(mbox, cur[d]) /\ pc'[T] = pc[T] /\ cur'[T] = cur[T]
    BY Zenon, <1>0, <1>2 DEF InpktPost, Post, Hold, Goto, Places, pool, PoolInv, PoolTypes
  <2>2. cur[d] \in Blocks /\ msg[cur[d]] = Written("INPKT", rx[d])
    BY Zenon, <2>1 DEF Locals, Receiver, PoolInv, PoolTypes
  <2>3. \A a \in Apps : Count(Callbacks(a))' = Count(Callbacks(a)) + One(msg[cur[d]] \in Callbacks(a))
    BY Zenon, <2>1, <2>2, CountPost DEF Callbacks
  <2>4. \A a \in Apps : Count(Callbacks(a))' = Count(Callbacks(a))
    BY <1>a, <2>2, <2>3, ContentFacts DEF One
  <2> QED
    BY Zenon, <1>b, <2>1, <2>4 DEF CallbackInv
<1>3. ASSUME NEW a \in Apps, CallbackPost(a) \/ StaticPost(a) PROVE CallbackInv'
  <2>1. PICK b \in Blocks : /\ msg[b] \in Callbacks(a)
                            /\ \A S : Count(S)' = Count(S) + One(msg[b] \in S)
    BY Zenon, <1>3, AppPosts
  <2>2. owed' = [owed EXCEPT ![a] = @ + 1]
    BY Zenon, <1>3 DEF CallbackPost, StaticPost
  <2>3. \A e \in Apps : msg[b] \in Callbacks(e) <=> e = a
    BY Zenon, <2>1, ContentFacts DEF Callbacks
  <2>4. \A e \in Apps : Count(Callbacks(e))' = Count(Callbacks(e)) + One(msg[b] \in Callbacks(e))
    BY Zenon, <2>1 DEF Callbacks
  <2>5. ASSUME NEW e \in Apps PROVE owed'[e] = Count(Callbacks(e))'
    <3>1. Count(Callbacks(e))' = Count(Callbacks(e)) + One(e = a)
      BY Zenon, <2>3, <2>4 DEF One
    <3> QED
      BY <1>a, <1>b, <2>2, <3>1 DEF One
  <2>6. owed' \in [Apps -> Nat]
    BY <1>b, <2>2
  <2> QED
    BY Zenon, <2>5, <2>6 DEF CallbackInv
<1>4. ASSUME NEW d \in Drivers, Receive(d) \/ DriverStep(d) PROVE CallbackInv'
  <2>1. CASE ~InpktPost(d)
    <3>1. Receive(d) \/ InpktAlloc(d) \/ InpktNoMsg(d) \/ InpktFull(d) \/ Drop(d)
      BY Zenon, <1>4, <2>1 DEF DriverStep
    <3>2. UNCHANGED owed
      BY Zenon, <3>1 DEF Receive, InpktAlloc, InpktNoMsg, InpktFull, Drop
    <3> QED
      BY Zenon, <1>1, <3>1, <3>2, DriverQuiet
  <2> QED
    BY Zenon, <1>2, <2>1
<1>5. ASSUME NEW a \in Apps, AppStep(a) \/ AppCall(a) PROVE CallbackInv'
  <2>1. CASE ~(CallbackPost(a) \/ StaticPost(a))
    <3>1. \/ EnterCore(a) \/ LeaveCore(a) \/ SetTimers(a) \/ CallbackAlloc(a)
          \/ TryCallbackFull(a) \/ StaticNew(a) \/ StaticDelete(a)
      BY Zenon, <1>5, <2>1 DEF AppStep, AppCall
    <3>2. UNCHANGED owed
      BY Zenon, <3>1 DEF EnterCore, LeaveCore, LockCore, ClaimCore, DisclaimCore, UnlockCore, SetTimers,
                  CallbackAlloc, TryCallbackFull, StaticNew, StaticDelete
    <3> QED
      BY Zenon, <1>1, <3>1, <3>2, AppQuiet
  <2> QED
    BY Zenon, <1>3, <2>1
<1> QED
  BY Zenon, <1>4, <1>5

CyclicInv == cyclic \in BOOLEAN /\ timers \in {"none", "pending", "due"}

\* The timeout list is empty, waiting or due.
LEMMA CyclicKept == CyclicInv /\ [Next]_vars => CyclicInv'
<1> SUFFICES ASSUME CyclicInv, [Next]_vars PROVE CyclicInv'
  BY Zenon
<1>1. CASE TcpipStep
  BY Zenon, <1>1 DEF CyclicInv, TcpipStep, Start, SleepForEver, SleepSome, Release, CheckTimeouts, Fetch, FetchTimeout,
              HandleInput, HandleCallback, HandleCallbackStatic, FreeMsg, LockCore, ClaimCore,
              DisclaimCore, UnlockCore
<1>2. CASE TimerExpires \/ UNCHANGED vars
  BY Zenon, <1>2 DEF CyclicInv, TimerExpires, vars
<1>3. ASSUME NEW d \in Drivers, Receive(d) \/ DriverStep(d) PROVE CyclicInv'
  BY Zenon, <1>3 DEF CyclicInv, Receive, DriverStep, InpktAlloc, InpktNoMsg, InpktPost, InpktFull, Drop
<1>4. ASSUME NEW a \in Apps, AppStep(a) \/ AppCall(a) PROVE CyclicInv'
  BY Zenon, <1>4 DEF CyclicInv, AppStep, AppCall, EnterCore, LeaveCore, LockCore, ClaimCore, DisclaimCore, UnlockCore,
              SetTimers, CallbackAlloc, CallbackPost, TryCallbackFull, StaticNew, StaticPost, StaticDelete
<1> QED
  BY Zenon, <1>1, <1>2, <1>3, <1>4 DEF Next

OwnersInv == PacketInv /\ CallbackInv /\ CyclicInv

\* The references of the packets and the callbacks that are owed, together.
THEOREM OwnersInvariant == Spec => []OwnersInv
<1>1. Init => OwnersInv
  <2> SUFFICES ASSUME Init PROVE OwnersInv
    BY Zenon
  <2>1. \A S : Count(S) = 0
    <3> TAKE S
    <3>1. Queued(S) = {} /\ {b \in Unhandled : msg[b] \in S} = {}
      BY ThreadFacts DEF Init, Queued, Unhandled
    <3> QED
      BY <3>1, FS_EmptySet DEF Count
  <2>2. \A p \in Pkts : DriversOf(p) = {}
    BY Zenon, BlockFacts DEF Init, DriversOf
  <2>3. PacketInv
    <3>1. \A p \in Pkts : Count(Inpkt(p)) = 0 /\ Cardinality(DriversOf(p)) = 0 /\ One(p \in kept) = 0
      BY Zenon, <2>1, <2>2, FS_EmptySet DEF Inpkt, One, Init
    <3> QED
      BY <3>1 DEF PacketInv, Init
  <2>4. CallbackInv
    <3>1. \A a \in Apps : Count(Callbacks(a)) = 0
      BY Zenon, <2>1 DEF Callbacks
    <3> QED
      BY Zenon, <3>1 DEF CallbackInv, Init
  <2>5. CyclicInv
    BY Zenon DEF Init, CyclicInv
  <2> QED
    BY Zenon, <2>3, <2>4, <2>5 DEF OwnersInv
<1>2. OwnersInv /\ PoolInv /\ PoolInv' /\ LockInv /\ [Next]_vars => OwnersInv'
  <2> SUFFICES ASSUME OwnersInv, PoolInv, PoolInv', LockInv, [Next]_vars PROVE OwnersInv'
    BY Zenon
  <2> USE DEF OwnersInv
  <2>1. CASE TimerExpires \/ UNCHANGED vars
    <3>1. UNCHANGED <<mbox, msg, pc, cur, packets, owed>>
      BY Zenon, <2>1 DEF TimerExpires, vars, pool
    <3>2. Quiet
      BY Zenon, <3>1, CountSame DEF Quiet
    <3>3. PacketInv'
      BY Zenon, <3>1, <3>2, PacketQuiet
    <3>4. \A a \in Apps : Count(Callbacks(a))' = Count(Callbacks(a))
      BY Zenon, <3>2 DEF Quiet, Callbacks
    <3>5. CallbackInv'
      BY Zenon, <3>1, <3>4 DEF CallbackInv
    <3> QED
      BY Zenon, <3>3, <3>5, CyclicKept
  <2>2. CASE TcpipStep
    BY Zenon, <2>2, TcpipStepPackets, TcpipStepCallbacks, CyclicKept
  <2>3. ASSUME NEW d \in Drivers, Receive(d) \/ DriverStep(d) PROVE OwnersInv'
    BY Zenon, <2>3, DriverStepPackets, OtherStepsCallbacks, CyclicKept
  <2>4. ASSUME NEW a \in Apps, AppStep(a) \/ AppCall(a) PROVE OwnersInv'
    BY Zenon, <2>4, AppStepPackets, OtherStepsCallbacks, CyclicKept
  <2> QED
    BY Zenon, <2>1, <2>2, <2>3, <2>4 DEF Next
<1>3. Spec => []LockInv
  BY Zenon, LockInvariant
<1>4. Spec => []PoolInv
  BY Zenon, PoolInvariant
<1> QED
  BY <1>1, <1>2, <1>3, <1>4, PTL DEF Spec

\* The reference count of a packet is the number of its owners, and what is owed to an
\* application is what the mailbox has for it, for any number of threads, packets and
\* messages: tcpip_inpkt, tapif_input and tcpip_thread_handle_msg free each packet once and
\* call each accepted callback once, whichever pool is empty and however full the mailbox is.
THEOREM OwnersCountedCorrect == Spec => []OwnersCounted
<1>1. OwnersInv => OwnersCounted
  <2> SUFFICES ASSUME OwnersInv PROVE OwnersCounted
    BY Zenon
  <2>1. PacketRefs
    BY Zenon DEF OwnersInv, PacketInv, PacketRefs, DriversOf, Inpkt, One
  <2>2. CallbacksConserved
    BY Zenon DEF OwnersInv, CallbackInv, CallbacksConserved, Callbacks
  <2> QED
    BY Zenon, <2>1, <2>2 DEF OwnersCounted
<1>2. Spec => []OwnersInv
  BY Zenon, OwnersInvariant
<1> QED
  BY <1>1, <1>2, PTL

\* Every message of the two pools is in one place, for any pools and any mailbox: none
\* leaks and none is freed while it is queued, whichever call fails.
THEOREM BlocksAccountedCorrect == Spec => []BlocksAccounted
<1>1. LockInv /\ PoolInv /\ OwnersInv => BlocksAccounted
  <2> SUFFICES ASSUME LockInv, PoolInv, OwnersInv PROVE BlocksAccounted
    BY Zenon
  <2> USE ThreadFacts, BlockFacts
  <2>1. TypeOK
    <3>1. core \in Threads \cup {None} /\ holder_id \in Threads \cup {None}
      BY Zenon DEF LockInv
    <3> QED
      BY Zenon, <3>1 DEF PoolInv, PoolTypes, OwnersInv, PacketInv, CallbackInv, CyclicInv, TypeOK
  <2>2. DOMAIN mbox = 1..Len(mbox)
    BY DEF PoolInv, PoolTypes
  <2>3. ASSUME NEW b \in Blocks, b \in free
        PROVE  Occurrences(b) = {} /\ Holders(b) = {} /\ ~Owned(b)
    BY Zenon, <2>2, <2>3 DEF PoolInv, Used, Occurrences, Holders, Owned
  <2>4. ASSUME NEW b \in Blocks, b \notin free, ~Owned(b)
        PROVE  Cardinality(Occurrences(b)) + Cardinality(Holders(b)) = 1
    <3>1. CASE \E i \in 1..Len(mbox) : mbox[i] = b
      <4>1. PICK i \in 1..Len(mbox) : mbox[i] = b
        BY Zenon, <3>1
      <4>2. Occurrences(b) = {i}
        BY <2>2, <2>4, <4>1 DEF PoolInv, Apart, Occurrences
      <4>3. Holders(b) = {}
        BY Zenon, <2>4, <4>1 DEF PoolInv, Apart, Holders
      <4>4. Cardinality(Occurrences(b)) = 1 /\ Cardinality(Holders(b)) = 0
        BY Zenon, <4>2, <4>3, FS_Singleton, FS_EmptySet
      <4> QED
        BY <4>4
    <3>2. CASE ~\E i \in 1..Len(mbox) : mbox[i] = b
      <4>1. PICK t \in Threads : cur[t] = b
        BY Zenon, <2>4, <3>2 DEF PoolInv, Found
      <4>2. Holders(b) = {t}
        BY Zenon, <2>4, <4>1 DEF PoolInv, Apart, Holders
      <4>3. Occurrences(b) = {}
        BY Zenon, <2>2, <3>2 DEF Occurrences
      <4>4. Cardinality(Occurrences(b)) = 0 /\ Cardinality(Holders(b)) = 1
        BY Zenon, <4>2, <4>3, FS_Singleton, FS_EmptySet
      <4> QED
        BY <4>4
    <3> QED
      BY Zenon, <3>1, <3>2
  <2> QED
    BY Zenon, <2>1, <2>3, <2>4 DEF BlocksAccounted
<1>2. Spec => []LockInv
  BY Zenon, LockInvariant
<1>3. Spec => []PoolInv
  BY Zenon, PoolInvariant
<1>4. Spec => []OwnersInv
  BY Zenon, OwnersInvariant
<1> QED
  BY <1>1, <1>2, <1>3, <1>4, PTL
===============================================================================
