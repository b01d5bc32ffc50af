# TLA+ verification of embeddedRTPS-Linux

embeddedRTPS-Linux brings the embeddedRTPS stack to Linux: a vendored lwIP
(`src/lwip`), its Unix port and drivers (`src/contrib`), and the repository's own
latency and multicast measurement programs and Fast-DDS peers (`src/tests`,
`src/fastdds`). The embeddedRTPS library, Micro-CDR, Fast-DDS and googletest are
submodules whose sources are not in the tree; where a modelled program calls them,
the model shows what the calling code relies on and no more.

The modules here model what the correctness of the whole rests on and what no unit
test controls, because it depends on the order in which threads, timers, packets and
failures meet.

## 1. The system

### 1.1 Parts and how they interact

```
  measurement programs, HelloWorld programs            (tests/, fastdds/)
        | publish / callbacks            | raw UDP API under the core lock
  embeddedRTPS (not in the tree)         |            sockets, netconn
        | udp_sendto, receive callbacks  |                  |
  ------+--------------------------------+------------------+------------
  udp - ip4 - igmp - reassembly - etharp - netif loopback    lwIP core:
  pbuf - memp - mem - timeouts                               one thread at a time,
        ^ core lock (LOCK_TCPIP_CORE)                        under the core lock
  tcpip_thread  <-- tcpip_mbox <-- drivers, tcpip_callback, netif_loop_output
        | semaphores, mailboxes, sys_arch_protect, clock
  Unix port: sys_arch.c, tapif.c          pthreads
```

Threads meet in the semaphores, the mailboxes and the protection lock of the port; in
the core lock and the mailbox of `tcpip_thread`; in the packet buffers and the heap,
which every thread allocates from; in the event counts of the sockets and their table of
memberships; and, in the measurement programs, in the variables that the main thread
shares with a receive callback. Below the sockets, the handlers of the core run one at a
time, and what is hard is the order of packets, timers and calls.

### 1.2 Inventory

| Part | What is hard about it | What makes it correct |
|---|---|---|
| Semaphore (`sys_arch.c`) | broadcast to several waiters, timeouts, spurious wake-ups | a binary semaphore; no sleep beside a token; no early timeout |
| Mailbox (`sys_arch.c`) | signals sent only on transitions empty/full, saturating semaphores | a bounded FIFO; nobody sleeps beside what they wait for |
| Protection (`sys_arch.c`) | owner read without the mutex; nesting | mutual exclusion; only the outermost exit releases |
| `tcpip_thread` and clients (`tcpip.c`, `tapif.c`) | failure at each of several steps; full mailbox; competition for the core lock | messages and packets released exactly once; accepted callbacks called once; timers keep running |
| Timers (`timeouts.c`) | u32 wraparound, late service, handlers that arm timers | order and sleep time as if the clock did not wrap; cyclic timers neither stop nor double |
| Packet buffers (`pbuf.c`) | chains shared by threads, freed block by block; an empty pool | reference counts are the pointers; totals are exact |
| Heap (`mem.c`) | merging and splitting in any order; a size read before the lock | a sound list, its lowest free block known, callers' blocks untouched |
| ARP (`etharp.c`) | a full table, a cached index, packets that wait for an answer | packets go to their own next hop, or are given up |
| Reassembly (`ip4_frag.c`) | fragments in any order, repeated, refragmented; a budget of pbufs | exact counts; only whole datagrams are passed on |
| IGMP (`igmp.c`) | queries, other hosts' reports, random delays, use counts, no memory | filter and list agree; the last reporter says that it leaves |
| Loopback (`netif.c`) | sends from within `ip_input`; a refused poll | what is queued is input |
| Sockets (`sockets.c`, `api_msg.c`, `api_lib.c`) | events counted by one thread while another selects, accepts and reads to the end of a stream | every message is counted once; no sleep beside an event |
| Memberships (`sockets.c`) | close walks the table without a lock | (violated, section 7) |
| Latency and multicast tests (`tests/`) | two locks; late answers; several responders; error paths | no lost notification; every answer timed from its own start; the run ends |

`PROJECT.json` lists every part of the repository, modelled or not, and the hazards
of each with the line at which they bite.

## 2. Modules and the code

Every action stands for the code lines that `PROJECT.json` ("map") names. Where two
threads can interleave, an action is one access to shared state; where the code holds
the core lock throughout, an action is the whole call.

| Module | Code | State | Granularity and abstractions |
|---|---|---|---|
| `SysSem` | `sys_sem_*`, `cond_wait` in `sys_arch.c` | `c`, the pthread mutex, each thread's place, timeout, deadline | one pthread call or field access per step; `pthread_cond_timedwait` gives up the mutex, sleeps, wakes by broadcast, by deadline or spuriously; time in ticks that pass only when nobody can run |
| `BinarySemaphore` | (promise of `SysSem`) | the token | atomic wait, signal and timeout |
| `SysMbox` | `sys_mbox_*` in `sys_arch.c` | `first`, `last`, `msgs`, `wait_send`, the semaphores `not_empty`, `not_full`, `mutex` | one semaphore operation or field update per step; the semaphores are those of `BinarySemaphore`; counters grow to `MaxLast`, slots are taken modulo `SYS_MBOX_SIZE` |
| `BoundedFifo` | (promise of `SysMbox`) | a sequence of at most `SYS_MBOX_SIZE - 1` messages | atomic post and fetch |
| `SysProt` | `sys_arch_protect`, `sys_arch_unprotect` | `lwprot_mutex`, `lwprot_thread`, `lwprot_count` | every load and store is a step: the test of `lwprot_thread` happens without the mutex |
| `Tcpip` | `tcpip.c`, the lock functions of `sys_arch.c`, the input path of `tapif.c` | core lock and recorded holder, mailbox, free blocks of the two message pools, contents of the messages, packet references | the mailbox is the FIFO that `SysMbox` implements; posting, fetching, taking and recording the lock are separate steps; the timer list is reduced to none / pending / due |
| `Timeouts` | `timeouts.c` | sorted list, pool, clock, `current_timeout_due_time`, the TCP timer flag | the clock wraps at `W` (2^32 in the code); each entry carries a ghost `left`, the true time left, that only properties read; handlers run between the steps of `sys_check_timeouts` |
| `Pbuf` | `pbuf.c` | `ref`, `next`, `len`, `tot_len` of each block, free blocks, the flag `pbuf_free_ooseq_pending` and its queued callback, each thread's references | a region under `SYS_ARCH_PROTECT` is one step, so that `pbuf_free` goes block by block; the functions that change a chain are steps of the threads in `Editors`, up to the `pbuf_free` they call; payload is its length |
| `Mem` | `mem.c` | the list of blocks, `lfree`, what callers hold | a call is one step, as `mem_mutex` makes it; `mem_trim` reads the size before it takes the mutex, so it has two |
| `Etharp` | `etharp.c` | `arp_table` with states, ages and waiting packets, the cached index, packet references | a handler is one step under the core lock; the build has `ARP_QUEUEING` 0, one packet for each entry; frames sent are a ghost of the last step |
| `IpReass` | `ip4_frag.c` | the datagram list with its fragments and timers, `ip_reass_pbufcount` | fragments are what `ip4_frag` makes of a datagram, and of its fragments on a smaller link; they come in any order, repeatedly or never; bytes are positions |
| `Igmp` | `igmp.c` | the groups of each interface with state, timer, use and `last_reporter_flag`, the MAC filter | a handler is one step under the core lock; `last` (who reported last), `sent` and `memerr` (a message that there was no memory for) are ghosts. `igmp_tmr` finds memory for all reports of a tick or for none |
| `NetifLoop` | `netif_loop_output`, `netif_poll` in `netif.c` | queue length, `loop_cnt_current`, poll requests and other messages in the mailbox | packets are one pbuf each and are counted |
| `Membership` | the membership table of `sockets.c` | table entries, use counts of IGMP, each socket's place in its close | `lwip_setsockopt` is one step under the core lock; `lwip_close` walks the table without it, one assignment per step |
| `Select` | `sockets.c`: `event_callback`, `lwip_select`, `lwip_poll`, `lwip_accept`, `lwip_recv_tcp`; `api_msg.c`: `recv_udp`, `recv_tcp`, `sent_tcp`, `err_tcp`, the half-close; `api_lib.c`: `netconn_recv_data` and its TCP form | each socket's mailbox, `rcvevent`, `sendevent`, `errevent`, `select_waiting`, the count kept in `conn->socket` before there is a socket, the list of waiting calls and their semaphores | a region under `SYS_ARCH_PROTECT` or the core lock is one step; posting, counting and waking are separate steps |
| `LwipLatency` | `LwipMeasurementUnit.cpp`, `LwipResponderUnit.cpp`, the delivery in `udp_input` and the buffer of `low_level_input` | `m_mutex`, core lock, `m_receivedResponse`, `m_start`, `m_times`, buffers, datagrams on their way, the faults of the environment | a sample is `<<size, number>>`; a time is the sample whose start it is |
| `RtpsLatency` | `MeasurementUnit.cpp`, `ResponderUnit.cpp` | the same without core lock and buffers, with the writer's history | embeddedRTPS is external: it may refuse, lose or delay a sample |
| `McastMeasurement` | `McastSender.cpp`, `McastReceiver.cpp` | counters, `currentId`, `m_sem`, packets on their way, number of late responses | a packet carries its id, as in the code, and the ghost sample it belongs to |

What `Select` leaves to the programs and simplifies: a read takes a message whole, so
that nothing is kept in `lastdata`; `lwip_accept` finds a free socket and is not asked
for the peer's address; the application does not close or shut down a socket itself; and
SENDPLUS is reported when the connection was not writable. An early stream may already
have its data, its FIN or its reset before the connection has a socket. The end of a
stream is modelled as the code has it: reading the FIN counts it off and half-closes the
connection, which counts one event again, and with `NETCONN_NOFIN` the FIN stays
pending for the next call; in both cases the socket stays readable. An error is taken
from the mailbox without being counted off, with the same effect.

Composition: `SysMbox` uses the token operations that `SysSem` is shown to implement,
`Tcpip` and `NetifLoop` use the bounded FIFO that `SysMbox` implements, and `Select` and
`McastMeasurement` wait on the binary semaphore. Each layer is therefore checked against
the promise of the one below, not against its details.

Modules whose name begins with `MC` give the others values for TLC. Components that share
no state are checked in one run: `MCPort`, `MCMeasurements`, `MCBuffers` and `MCNetwork`
have a variable `part` that their initial predicate chooses, and a behaviour is one of
that component; the variables of the others do not change. A property of one component is
therefore checked in the states of its own behaviours, and trivially in the rest.

The definitions marked "Mutant" are variants of the definition that follows them; no
specification uses them. They show that a property can fail: with the variant in
place of the original, TLC finds the property violated.

The environment of a run is part of its initial state where the code cannot know it:
`faults` (which things may go wrong in a measurement), `traffic` (whether other
messages fill the mailbox), `cyclic` (whether the stack has cyclic timers). One run
covers them all, and a property names the ones it needs.

## 3. Runs that pass

Each module's type invariant `TypeOK` is a conjunct of one of the invariants below;
for `SysMbox`, `SysSem` and `SysProt` it is part of what is proved (section 5).

### 3.1 The port: `Mailbox`, `Port`

`Mailbox` (2 posters, 1 fetcher, 2 messages, ring of 3, counters to 4, all five operations)

- `NoLostWakeup`: the fetcher does not sleep beside a message unless a signal is there or
  on its way.
- `NoStrandedPoster`: posters do not sleep beside an empty mailbox for good.
- `ImplementsFifo`: the code refines `BoundedFifo`.

`Port` bundles `SysProt` (2 threads, nesting up to 2), `SysSem` (2 waiters, 1 signaller,
timeouts 0, that is for ever, and 1, spurious wake-ups, 2 ticks) and `SysMbox` (2 posters,
1 fetcher, 1 message, ring of 3, 4 posts, blocking post and untimed fetch).

- `MutualExclusion`: at most one thread is inside protected regions.
- `SemWaits`: nobody sleeps beside a token, and no wait times out early.
- `ImplementsSemaphore`: the code refines `BinarySemaphore`.
- `SemTokenTaken`: a token signalled while threads wait is taken.
- `ProtProtectReturns`: protection is granted.
- `MboxPostCompletes`: a blocked post completes.

A ring of 3 holds 2 messages; with 2 posters the mailbox can be full with a poster
blocked, and 4 posts take the counters once round the ring, so that slots are reused.
Two waiters are enough for one to take the token that woke the other. Two ticks let a wait
with timeout 1 begin at time 0 or 1, and be woken in vain before it expires. The proofs
of section 5 lift these bounds for everything but the liveness properties.

### 3.2 `Tcpip`

2 applications, 1 driver, 1 packet, one message in each of the two pools, mailbox of 1.

- `HolderIsInside`: core code runs under its recorded holder.
- `BlocksAccounted`: every message is in one place; no pool leaks.
- `OwnersCounted`: a packet's reference count is the number of its owners, and an accepted
  callback is in the mailbox until it is called.
- `CallbackHandled`: a callback that is accepted, or blocked on the mailbox, is handled.
- `TimersRun`: with cyclic timers, due timers run.

The smallest pools and mailbox are where callers compete most: either pool and the
mailbox are exhausted, separately and together, while another thread holds what was
allocated, so that every error path of `tcpip.c` that this build has is taken. The first
three properties are proved for all sizes.

### 3.3 `Timers`

Clock of 8, service up to 2 late, pool of 3: one cyclic timer, the TCP timer, one client.

- `SleeptimeExact`: `sys_timeouts_sleeptime` is the time to the earliest of all timers.
- `ServesExpired`: only timers that were due are called, the earliest first, all of them;
  a cyclic timer is rearmed at most one interval ahead and never in the past.
- `TimersArmed`: cyclic timers are pending once; `tcpip_tcp_timer_active` tells the truth;
  the pool suffices.
- `EveryTimerServed`: a pending timer does not stay pending, and `sys_check_timeouts`
  returns.

The run starts at every value of the clock, and the clock wraps. Two times in the list
must stay less than half of `W` apart for `TIME_LESS_THAN` to order them, which is why the
code has `LWIP_MAX_TIMEOUT`. With intervals of 1 and service up to 2 late the times lie as
far apart as that limit (3) allows: an interval or a delay one larger would leave the
range for which the code is written. At 2^32 ms, a quarter of the range is twelve days.

### 3.4 `Buffers`

`Pbuf` (2 threads, of which `tcpip_thread` edits chains; 2 pool blocks, 1 block for
references, packets of two blocks, cuts of one) and `Mem` (a heap of 16 units: room for five of the
smallest blocks, requests of 1 to 5).

- `RefsArePointers`: a block's reference count is the number of pointers to it.
- `TotalsExact`: `tot_len` is the sum of the lengths that follow.
- `OneFreeOoseq`: at most one request to free out-of-sequence data is under way, and the
  flag says whether there is one.
- `HeapSane`: what `mem_sanity` asserts, and `lfree` is the lowest free block.
- `HeapBlocksKept`: blocks in use are the callers', with the room they were given, and the
  size that `mem_trim` has read stays right.

Three blocks are enough for a chain whose tail is in another chain too, with the pool
empty. In the heap, a remainder of up to two units is too small to become a block, and every
order of calls that fits is tried, so that each case of splitting and merging occurs.

### 3.5 `Network`

- `Etharp`: 3 hosts, of which one is also the router to a far address and has two cards over
  time; 2 entries, ages to 5, pending to 2. `ArpQueues`: one entry for an address, packets
  wait on a pending entry of their own next hop with one reference each, and none goes to an
  address its next hop never had. `ArpPendingEnds`: no address stays pending.
- `IpReass`: datagrams a, b, c of 28 bytes on links with room for 8 and 24, 2 entries, 6 pbufs,
  ages to 2. `PbufsCounted`: `ip_reass_pbufcount` is the number of queued pbufs (and the
  loopback queue keeps its bounds). `ReassDatagramWhole`: only whole datagrams are passed
  on, and none that is complete stays queued.
- `Igmp`: 1 interface, 3 groups and memory for 3 (one of them that of all systems), delays up
  to 3, response times 1 and 4, each group joined up to twice. `FilterAndTimers`: MAC filter, list, use counts and timers
  agree. `LeaveAnnounced`: the member that reported last announces that it leaves, unless
  there is no memory for the message (`igmp_send` then sends nothing and reports nothing).
  `GroupsDelayEnds`: a query is answered, whatever queries follow.
- `NetifLoop`: at most 10 pbufs, mailbox of 8, with and without other traffic.
  `QueueServed`: without other traffic, what is queued is input.

Each table is one too small for what is asked of it: three hosts for two ARP entries,
three datagrams for two reassembly entries and fewer pbufs than all their fragments, so
that recycling and eviction happen. Ages are long enough for each of the
thresholds that the code compares them with to be passed separately.

### 3.6 `Select`

One thread with a UDP socket and a TCP connection that it accepts, mailboxes of 2, calls for
reading and for all three conditions, with and without timeout.

- `EventsCounted`: `rcvevent`, or what `conn->socket` counts before there is a socket, is the
  data and the FIN in the mailbox, but for the callbacks under way and the ends of the
  stream (a FIN read or kept, an abort), for which it stays above 0.
- `NoMissedEvent`: no call sleeps beside an event that it asked for.
- `ReturnsReady`: a call without timeout returns with a ready socket.
- `SelectWakes`: a call for reading returns when there is data or the stream has ended.

A thread's calls touch only its own sockets and its own entry in the list of waiting calls;
two sockets make the scans take several steps, and the proofs are for any number of threads.

### 3.7 `Measurements`

`McastMeasurement` with 2 receivers: 2 rounds of 2 samples with nothing late, 2 rounds of 1
and 1 round of 2 with a wait that ends too early; `LwipLatency` with 2 sizes, 2 samples, pool
of 2 and every set of faults (late answers, failing send, failing bind); `RtpsLatency` with 2
sizes, 2 samples and every set of faults (late answers, full history).

- `SampleComplete`, `RoundTimes`: until a response is late, a multicast sample is signalled
  for its own complete set of responses, leaves no token behind, and is timed at most once
  and in its own round.
- `AnswersNotified`: no answer slips in between the test of the flag and the sleep.
- `AnswersMeasured`: an answered sample has a duration, from its own start if nothing is
  late; the raw test returns its buffers unless a send fails.
- `RunsComplete`: the runs end, the raw one if nothing but datagrams gets lost, the others
  whatever is lost or late.

Two sizes, or rounds, of two samples have every boundary: the first and the last sample
of a size, and the change of size. An answer that is not late comes within the wait (5 s)
or is lost; a late one may come at any later time. What holds for the first kind only is
what the timeouts of the code rely on.

Deadlock is checked except in `Buffers` and `MemTrim`, where the assertion of section 7
stops the program, and in `Measurements` and `LwipLatencyLockOrder`, where it ends.

## 4. Fairness

Weak fairness says that a thread that can run does run; strong fairness is assumed only
where a thread needs a lock or a slot that others take and give back again and again.

| Module | Assumption | Why the code justifies it |
|---|---|---|
| `SysMbox` | strong for the steps of a call; weak for the fetcher's next fetch | the semaphore that serves as lock is held for a few instructions, and the scheduler does not starve a thread for ever; fetchers loop as `tcpip_thread` does |
| `SysSem` | strong for the steps of a wait and a signal; weak for returning | the same for the pthread mutex |
| `SysProt` | strong for `sys_arch_protect`, for leaving a region at each depth; weak for the steps of leaving | protected regions are "very short" and contain no blocking call |
| `Tcpip` | strong for taking the core lock, for fetching, and for posting; weak for the rest | timer intervals are 100 ms or more, so that a timer is not due at every turn and messages are fetched; applications leave the core |
| `Timeouts` | weak for the clock, for calling `sys_check_timeouts` and for its steps | `tcpip_thread` calls it whenever its sleep time is over (`Tcpip`, `TimersRun`); `EveryTimerServed` also requires that `sys_restart_timeouts` is not called for ever |
| `Etharp`, `Igmp` | weak for the timer function | cyclic timers never stop (`Timeouts`, `TimersArmed` and `EveryTimerServed`) |
| `NetifLoop` | weak for `tcpip_thread`; strong for fetching the poll | messages are fetched in order (`SysMbox`), so that a queued poll is reached |
| `Select` | weak for the steps of `tcpip_thread` in `event_callback` and of a call; strong for a call's core lock | `tcpip_thread` gives up the core lock after each message |
| `LwipLatency`, `RtpsLatency` | weak for both threads and the responder; strong for the end of a timed wait and for the callback's lock | `wait_for` returns after its time; `m_mutex` is given up at every sample |
| `McastMeasurement` | weak for the main thread, the callback and the responders | the wait has a timeout |

`Pbuf`, `Mem`, `IpReass` and `Membership` have safety properties only. Where a run bundles
components, its specification is fair to the disjunction of what they ask for, which is
fair to the one that runs. No fairness is assumed of callers: nobody has to start a call,
signal a semaphore or send a packet.

## 5. Proofs

Checked by TLAPS for every value of the constants that the assumptions allow. None of the
properties is inductive as it stands; each module of proofs states a stronger invariant
and shows that the initial states have it, that every action keeps it, and that it
implies the property.

**`SysMboxProofs`**: any posters and fetchers, any size from 2, any messages, all five
operations. Assumptions, declared in `SysMbox`: `SizeAssumption`, `OpsAssumption`,
`MaxLastAssumption` (the bound on the counters is any natural number) and
`ThreadsAssumption` (finitely many posters, none of them a fetcher). In layers:

1. `Control` ties the types to the control state: which call a thread is in determines
   where it can be.
2. `Exclusion`: the semaphore `mutex` is 0 exactly when some thread is between its wait
   and its signal, and at most one is. A signal saturates at 1 and would hide a double
   release, so the count alone says nothing. It gives `MutualExclusionCorrect`.
3. `Ring`: `first <= last < first + Size`, and what a thread inside has read of them
   still holds. Without exclusion another thread could have moved them.
4. `NoLostWakeupCorrect`, for at most one fetcher: `not_empty` is signalled only by a
   post that finds the mailbox empty, so that with two fetchers two posts wake one of
   them (section 7).
5. `WaitSendCountsCorrect`: `wait_send` is the number of posters that wait, by
   cardinality arguments on the set of posters. `NoStrandedPosterCorrect` follows from it:
   the fetch that makes room sees `wait_send` and signals `not_full`.
6. `ImplementsFifoCorrect`: every step is a step of `BoundedFifo` or leaves its variables
   unchanged. The lemmas before it say what storing, advancing `last` and advancing
   `first` do to the sequence read off the ring; they rest on `NoMultipleBelow` and
   `SlotsDiffer`: two positions less than `Size` apart are in different slots.

**`SysProtProofs`**: any threads, any nesting depth (`DeadAssumption`: the value 0xDEAD is no
thread; `DepthAssumption`). `sys_arch_protect` compares `lwprot_thread` with the caller
before it has the mutex. The invariant says, thread by thread, that a thread holds the
mutex exactly when it is inside or on its way in or out, and that `lwprot_thread` names
nobody but a thread that holds it. What the test reads can be out of date about others,
never about the caller itself. It gives `MutualExclusionCorrect` and `CountIsDepthCorrect`.

**`SysSemProofs`**: any threads and any timeouts in natural numbers (the hypothesis `Constants`
of its theorems). The invariant adds to `NoSleepBesideToken` that the mutex belongs to the
thread inside, and that a sleeper's deadline is no earlier than its call plus its timeout.
It gives `NoSleepBesideTokenCorrect` and `NoEarlyTimeoutCorrect`; with it every step is a
step of `BinarySemaphore` or changes nothing of it (`ImplementsSemaphoreCorrect`).

**`TcpipProofs`, `TcpipOwnersProofs`**: any threads, pools, packets and capacity
(`ThreadsAssumption`, `PoolsAssumption`, `CapacityAssumption`). In layers: `LockInv` says
where each thread is with respect to the core lock, and that the recorded holder is right
between claim and disclaim although others write it too (`HolderIsInsideCorrect`);
`PoolInv` says where each message is, that the pools stay apart, and that a message means
what its place says (`PoolInvariant`); `OwnersInv` counts the owners of packets and
callbacks over the mailbox, with laws for what appending, fetching and overwriting do to such a count
(`OwnersCountedCorrect`, `BlocksAccountedCorrect`).

**`IgmpProofs`**: any finite sets of interfaces and groups, any memory and delays
(`ConstantsAssumption`). The invariant: entries are sound (use, state and timer go
together), the MAC filter is the list, the list fits its memory, and when we reported last the
group is listed with `last_reporter_flag` set. It gives `FilterAndTimersCorrect`, and
`LeaveAnnouncedCorrect` since only leaving removes a group from an interface that stays up,
and it tries to send when the flag is set.

**`McastMeasurementProofs`**: any rounds and samples and fewer than 256 receivers, which is
where `numberOfResponses`, a `uint8_t`, would wrap (`RoundsAssumption`,
`ReceiversAssumption`, `LateAssumption`). The invariant: while nothing was late, the packets
on their way are of the current sample, at most one from each receiver, what is counted is
what has come, and the token is there only after the last of them. It gives
`SampleCompleteCorrect` and `RoundTimesCorrect`.

**`SelectProofs`**: any threads, each with its own sockets (`OwnAssumption`), any mailbox size
and wanted events (`BoundAssumption`). `SelectInvariant`: for each thread, `select_waiting`
of a socket is raised exactly while its call is between raising and lowering it; what the
second scan has passed without finding is still not ready, or its event is being
announced; and an event that woke the call lasts until the last scan, since only the
thread itself reads. `NoMissedEventCorrect` and `ReturnsReadyCorrect` follow.
`EventsCountedCorrect` needs a second invariant: the equation for each socket, what can
be in the mailbox and still be announced at each stage of a stream's end, and which events
`lwip_accept` and a read still have to replay.

## 6. Model-checked only

- Liveness: `MboxPostCompletes`, `SemTokenTaken`, `ProtProtectReturns`, `CallbackHandled`,
  `TimersRun`, `EveryTimerServed`, `ArpPendingEnds`, `GroupsDelayEnds`, `QueueServed`,
  `SelectWakes`, `RunsComplete`. The prover does not handle fairness and `ENABLED`.
- `Timeouts`, `Pbuf`, `Mem`, `Etharp`, `IpReass`, `NetifLoop`, `LwipLatency`, `RtpsLatency`
  and `Membership`. The properties of `Pbuf` and `IpReass` are about chains and
  sums over sequences: what a recursive definition computes for every input is out of the
  prover's reach.

## 7. Findings and limits of what holds

Four runs are expected to fail; each states what a comment, a message or an assertion of
the code says.

- `LwipLatencyLockOrder`, `LateRunCompletes` (1 size, 2 samples, pool of 3, late answers, fair
  scheduling): `runWithSpecificSize` locks `m_mutex` and then the core
  (`LwipMeasurementUnit.cpp:105` and `:108`), while `measurementCallback` runs in
  `tcpip_thread` with the core locked and then locks `m_mutex` (`:65`). An answer that comes
  after its wait timed out, while the next sample is being sent, stops both threads for
  ever. The callback expects such answers: it prints "Received response was already
  signalized" (`:67`) and goes on.
- `MemTrim`, `TrimAssertion` (the heap of 3.4): `mem_trim` of the block at the end of a heap
  that is otherwise full fails the assertion "invalid next ptr" (`mem.c:790`), because
  `ram_end` is marked as used. It is reached from `pbuf_realloc` for packets in the heap; the
  tap interface receives into the pool.
- `Membership`, `CloseDropsMemberships` (2 sockets, 2 interfaces, 2 groups, 2 table entries): the close of a socket frees a table entry (`sockets.c:4059`)
  before it resets its addresses, without the core lock. Another socket can register in
  between and lose its addresses, so that its own close leaves no group, although "On
  socket close, the membership is dropped automatically" (`sockets.c:3983`).
- `IpFrag`, `AllFragmentsReceived` (a datagram of 28 bytes on a link with room for 12):
  `ip4_frag` takes a fragment for the last one when what is left fits the MTU
  (`ip4_frag.c:852`), while a fragment holds whole units of 8 bytes only. When the room is
  no multiple of 8, the last but one can be marked as the last, and the receiver passes on a
  datagram that is cut short, although "all fragments are received" (`ip4_frag.c:619`). The
  tap interface's MTU of 1500 leaves 1480, a multiple of 8.

Conditions under which properties above are stated, because the code goes no further:

- Two fetchers on one mailbox: one can sleep beside a message (`sys_arch.c:354`), although
  `lwip/sys.h:319` promises that a fetch is "blocked until a message arrives". In this
  repository `tcpip_thread` is the only fetcher of its mailbox.
- `sys_arch_sem_wait` starts the whole timeout again whenever it is woken in vain
  (`sys_arch.c:532`): it never gives up early, but can block for longer than it was told.
- A failed `udp_sendto` leaves the function before `pbuf_free`
  (`LwipMeasurementUnit.cpp:113`): `AnswersMeasured` counts buffers without failing sends.
- The ids of the multicast test start again in every round (`McastSender.cpp:91`), so a
  response delayed from an earlier round can have the current id, and be counted.
- `netif_loop_output` does not look at whether its poll was accepted (`netif.c:1163`): with
  a mailbox full of other messages a packet can stay queued until the next poll.
- A leave or report that there is no memory for is not sent and not tried again
  (`igmp_send`): `LeaveAnnounced` excludes it.
- "only receive events can happen before the new socket is set up" (`sockets.c:2492`): a
  reset reports an error too, which is dropped, so that `errevent` of a connection that was
  reset before it was accepted is never set. Reading from it does report the error.
- A FIN that finds the mailbox full is not presented again by TCP; `Select` has that case
  as a stream whose end is never announced.

## 8. Not modelled

`PROJECT.json` lists every part with its reason. In short:

- not used by the programs of this repository: TCP and altcp (but for what `Timeouts` and
  `Select` see of them), the rest of the netconn and socket layers, DHCP, AutoIP, DNS, IPv6,
  PPP, SLIP, 6LoWPAN, `fifo.c` and the serial interface, the lwIP and contrib applications,
  the Windows and FreeRTOS ports;
- little to interleave and little state to keep: ICMP, UDP's list of PCBs, checksums, address
  parsing, generated serialisation code, statistics, initialisation, argument parsing;
- the HelloWorld programs, whose state is all in embeddedRTPS;
- `sys_sem_free` and `sys_mbox_free`: nothing in the repository frees what threads still
  use;
- not in the tree: embeddedRTPS, Micro-CDR, Fast-DDS, googletest.
