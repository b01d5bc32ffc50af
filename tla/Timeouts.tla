------------------------------- MODULE Timeouts -------------------------------
(***************************************************************************)
(* The timeout list of lwIP (timeouts.c): one-shot timers, the stack's      *)
(* cyclic timers and the TCP timer that runs only while there are           *)
(* connections.  Times are u32 milliseconds, compared by TIME_LESS_THAN;    *)
(* here they wrap at W instead of 2^32.  Beside each u32 time stands the    *)
(* true time left until the timer is due, which does not wrap and which no  *)
(* guard reads: the properties compare the code's answers with it.          *)
(*                                                                          *)
(* All of it runs under the core lock, so the steps of different threads do *)
(* not interleave with a call; the clock and what a handler calls do.       *)
(***************************************************************************)
EXTENDS Integers, FiniteSets, FiniteSetsExt, SequencesExt

CONSTANTS W,                  \* modulus of the u32 clock
          CyclicTimers,       \* lwip_cyclic_timers without the TCP timer: a sequence
          Interval,           \* interval_ms of each cyclic timer and of Tcp
          Tcp,                \* the handler tcpip_tcp_timer
          OneShots,           \* handlers of the stack's clients
          MEMP_NUM_SYS_TIMEOUT,
          MaxLate             \* bound: no timer is served more than this late

Cyclic == ToSet(CyclicTimers)
Handlers == Cyclic \cup {Tcp} \cup OneShots
LWIP_MAX_TIMEOUT == W \div 2 - 1
MaxMsecs == W \div 4 - 1

ASSUME WidthAssumption == W \in Nat /\ W > 4 /\ W % 4 = 0
ASSUME IntervalAssumption == Interval \in [Cyclic \cup {Tcp} -> 1..MaxMsecs]
ASSUME LateAssumption == MaxLate \in 1..(W \div 4)
ASSUME PoolAssumption == MEMP_NUM_SYS_TIMEOUT \in Nat

VARIABLES sys_now,                   \* the port's millisecond clock, a u32
          next_timeout,              \* the list: handler h, u32 time, true time left
          pool,                      \* free blocks of MEMP_SYS_TIMEOUT
          current_timeout_due_time,  \* u32 due time of the timer being served; 0, for
                                     \* a stale value that nobody reads, otherwise
          current_left,              \* its true time left (never positive)
          tcp_pcbs,                  \* tcp_active_pcbs || tcp_tw_pcbs
          tcpip_tcp_timer_active,
          now,                       \* sys_check_timeouts: the clock at its start
          elapsed,                   \* the true time since then
          running,                   \* the handler it is calling
          pc                         \* "idle", "check", "handler" or "aborted"

vars == <<sys_now, next_timeout, pool, current_timeout_due_time, current_left,
          tcp_pcbs, tcpip_tcp_timer_active, now, elapsed, running, pc>>

NoHandler == "none"
Entry(h, time, left) == [h |-> h, time |-> time, left |-> left]

TIME_LESS_THAN(t, compare_to) == (t - compare_to) % W > LWIP_MAX_TIMEOUT

\* Mutant: the new timer goes behind the first timer that is due later.
InsertSortedOffByOne(list, e) ==
  LET later == {i \in DOMAIN list : TIME_LESS_THAN(e.time, list[i].time)}
  IN  IF later = {} \/ Min(later) = Len(list) THEN Append(list, e)
      ELSE InsertAt(list, Min(later) + 1, e)

\* The list walk of sys_timeout_abs: before the first timer due later.
InsertSorted(list, e) ==
  LET later == {i \in DOMAIN list : TIME_LESS_THAN(e.time, list[i].time)}
  IN  IF later = {} THEN Append(list, e) ELSE InsertAt(list, Min(later), e)

\* sys_timeout_abs; an empty pool fails its assertion, and the Unix port's
\* LWIP_PLATFORM_ASSERT aborts the program.
sys_timeout_abs(h, time, left, return) ==
  IF pool = 0
  THEN pc' = "aborted" /\ UNCHANGED <<next_timeout, pool>>
  ELSE /\ next_timeout' = InsertSorted(next_timeout, Entry(h, time, left))
       /\ pool' = pool - 1
       /\ pc' = return

sys_timeout(msecs, h, return) ==
  sys_timeout_abs(h, (sys_now + msecs) % W, msecs, return)

Pending(h) == {i \in DOMAIN next_timeout : next_timeout[i].h = h}

\* sys_timeouts_init, at any value of the clock.
Init ==
  /\ sys_now \in 0..(W - 1)
  /\ next_timeout = FoldLeft(LAMBDA list, h : InsertSorted(list,
                       Entry(h, (sys_now + Interval[h]) % W, Interval[h])), <<>>, CyclicTimers)
  /\ pool = MEMP_NUM_SYS_TIMEOUT - Len(CyclicTimers)
  /\ current_timeout_due_time = 0
  /\ current_left = 0
  /\ tcp_pcbs = FALSE
  /\ tcpip_tcp_timer_active = FALSE
  /\ now = 0
  /\ elapsed = 0
  /\ running = NoHandler
  /\ pc = "idle"

(***************************************************************************)
(* The clock.  MaxLate bounds how late a timer is served and how long one   *)
(* call of sys_check_timeouts takes; at 2^32 ms it stands for 12 days.      *)
(***************************************************************************)
Tick ==
  /\ pc # "aborted"
  /\ \A i \in DOMAIN next_timeout : next_timeout[i].left > -MaxLate
  /\ pc # "idle" => elapsed < MaxLate
  /\ running # NoHandler => current_left > -MaxLate
  /\ sys_now' = (sys_now + 1) % W
  /\ next_timeout' = [i \in DOMAIN next_timeout |-> [next_timeout[i] EXCEPT !.left = @ - 1]]
  /\ elapsed' = IF pc = "idle" THEN elapsed ELSE elapsed + 1
  /\ current_left' = IF running = NoHandler THEN current_left ELSE current_left - 1
  /\ UNCHANGED <<pool, current_timeout_due_time, tcp_pcbs, tcpip_tcp_timer_active,
                 now, running, pc>>

(***************************************************************************)
(* Calls made with the core locked: by an application between two calls of  *)
(* sys_check_timeouts, or by the handler it is running.                     *)
(***************************************************************************)
CoreCall == pc \in {"idle", "handler"}

\* A client arms its timer when it is not pending.
ClientTimeout(h, msecs) ==
  /\ CoreCall
  /\ Pending(h) = {}
  /\ sys_timeout(msecs, h, pc)
  /\ UNCHANGED <<sys_now, current_timeout_due_time, current_left, tcp_pcbs,
                 tcpip_tcp_timer_active, now, elapsed, running>>

\* The first entry of the handler goes, if there is one.
sys_untimeout(h) ==
  /\ CoreCall
  /\ next_timeout' = RemoveFirstMatch(next_timeout, LAMBDA e : e.h = h)
  /\ pool' = pool + (Len(next_timeout) - Len(next_timeout'))
  /\ UNCHANGED <<sys_now, current_timeout_due_time, current_left, tcp_pcbs,
                 tcpip_tcp_timer_active, now, elapsed, running, pc>>

\* TCP_REG puts a connection on a list and calls tcp_timer_needed.
tcp_timer_needed ==
  /\ CoreCall
  /\ tcp_pcbs' = TRUE
  /\ tcpip_tcp_timer_active' = TRUE
  /\ IF tcpip_tcp_timer_active
     THEN UNCHANGED <<next_timeout, pool, pc>>
     ELSE sys_timeout(Interval[Tcp], Tcp, pc)
  /\ UNCHANGED <<sys_now, current_timeout_due_time, current_left, now, elapsed, running>>

\* TCP_RMV takes the last connection off.
TcpRemoveLast ==
  /\ CoreCall
  /\ tcp_pcbs
  /\ tcp_pcbs' = FALSE
  /\ UNCHANGED <<sys_now, next_timeout, pool, current_timeout_due_time, current_left,
                 tcpip_tcp_timer_active, now, elapsed, running, pc>>

\* Shifts every timer so that the first one is due now.
sys_restart_timeouts ==
  /\ pc = "idle"
  /\ next_timeout # <<>>
  /\ LET base == Head(next_timeout)
     IN next_timeout' = [i \in DOMAIN next_timeout |->
                          [next_timeout[i] EXCEPT !.time = (@ - base.time + sys_now) % W,
                                                  !.left = @ - base.left]]
  /\ UNCHANGED <<sys_now, pool, current_timeout_due_time, current_left, tcp_pcbs,
                 tcpip_tcp_timer_active, now, elapsed, running, pc>>

(***************************************************************************)
(* sys_check_timeouts                                                       *)
(***************************************************************************)
CheckBegin ==
  /\ pc = "idle"
  /\ pc' = "check"
  /\ now' = sys_now
  /\ elapsed' = 0
  /\ UNCHANGED <<sys_now, next_timeout, pool, current_timeout_due_time, current_left,
                 tcp_pcbs, tcpip_tcp_timer_active, running>>

\* Mutant: the due time is not looked at.
ExpiredAlways == next_timeout # <<>>

Expired == next_timeout # <<>> /\ ~TIME_LESS_THAN(now, Head(next_timeout).time)

CheckReturn ==
  /\ pc = "check"
  /\ ~Expired
  /\ pc' = "idle"
  /\ now' = 0
  /\ elapsed' = 0
  /\ UNCHANGED <<sys_now, next_timeout, pool, current_timeout_due_time, current_left,
                 tcp_pcbs, tcpip_tcp_timer_active, running>>

\* The timer is unlinked and its block freed before its handler is called.
CheckFire ==
  /\ pc = "check"
  /\ Expired
  /\ pc' = "handler"
  /\ running' = Head(next_timeout).h
  /\ current_timeout_due_time' = Head(next_timeout).time
  /\ current_left' = Head(next_timeout).left
  /\ next_timeout' = Tail(next_timeout)
  /\ pool' = pool + 1
  /\ UNCHANGED <<sys_now, tcp_pcbs, tcpip_tcp_timer_active, now, elapsed>>

HandlerLeft ==
  /\ running' = NoHandler
  /\ current_timeout_due_time' = 0
  /\ current_left' = 0
  /\ UNCHANGED <<sys_now, now, elapsed>>

\* Mutant: the overload branch is missing.
CyclicReturnUncorrected(h) ==
  /\ pc = "handler" /\ running = h
  /\ sys_timeout_abs(h, (current_timeout_due_time + Interval[h]) % W,
                     current_left + Interval[h], "check")
  /\ HandlerLeft
  /\ UNCHANGED <<tcp_pcbs, tcpip_tcp_timer_active>>

\* Mutant: an overloaded timer is not restarted.
CyclicReturnDropped(h) ==
  /\ pc = "handler" /\ running = h
  /\ LET next_timeout_time == (current_timeout_due_time + Interval[h]) % W
     IN IF TIME_LESS_THAN(next_timeout_time, sys_now)
        THEN pc' = "check" /\ UNCHANGED <<next_timeout, pool>>
        ELSE sys_timeout_abs(h, next_timeout_time, current_left + Interval[h], "check")
  /\ HandlerLeft
  /\ UNCHANGED <<tcp_pcbs, tcpip_tcp_timer_active>>

\* lwip_cyclic_timer, after cyclic->handler(): due one interval after it was
\* due, or, when that is already past, one interval from now.
CyclicReturn(h) ==
  /\ pc = "handler" /\ running = h
  /\ LET next_timeout_time == (current_timeout_due_time + Interval[h]) % W
     IN IF TIME_LESS_THAN(next_timeout_time, sys_now)
        THEN sys_timeout_abs(h, (sys_now + Interval[h]) % W, Interval[h], "check")
        ELSE sys_timeout_abs(h, next_timeout_time, current_left + Interval[h], "check")
  /\ HandlerLeft
  /\ UNCHANGED <<tcp_pcbs, tcpip_tcp_timer_active>>

\* tcpip_tcp_timer, after tcp_tmr()
TcpReturn ==
  /\ pc = "handler" /\ running = Tcp
  /\ IF tcp_pcbs
     THEN sys_timeout(Interval[Tcp], Tcp, "check") /\ UNCHANGED tcpip_tcp_timer_active
     ELSE /\ tcpip_tcp_timer_active' = FALSE
          /\ pc' = "check"
          /\ UNCHANGED <<next_timeout, pool>>
  /\ HandlerLeft
  /\ UNCHANGED tcp_pcbs

OneShotReturn(h) ==
  /\ pc = "handler" /\ running = h
  /\ pc' = "check"
  /\ HandlerLeft
  /\ UNCHANGED <<next_timeout, pool, tcp_pcbs, tcpip_tcp_timer_active>>

\* sys_timeouts_sleeptime; -1 is SYS_TIMEOUTS_SLEEPTIME_INFINITE.
sys_timeouts_sleeptime ==
  IF next_timeout = <<>> THEN -1
  ELSE IF TIME_LESS_THAN(Head(next_timeout).time, sys_now) THEN 0
       ELSE (Head(next_timeout).time - sys_now) % W

\* The loop of sys_check_timeouts and the handlers it calls
Check ==
  \/ CheckReturn
  \/ CheckFire
  \/ \E h \in Cyclic : CyclicReturn(h)
  \/ TcpReturn
  \/ \E h \in OneShots : OneShotReturn(h)

Next ==
  \/ Tick
  \/ \E h \in OneShots, msecs \in 0..MaxMsecs : ClientTimeout(h, msecs)
  \/ \E h \in OneShots : sys_untimeout(h)
  \/ tcp_timer_needed
  \/ TcpRemoveLast
  \/ sys_restart_timeouts
  \/ CheckBegin
  \/ Check

Spec == Init /\ [][Next]_vars

\* Time passes, tcpip_thread calls sys_check_timeouts again and again, the
\* call makes progress and handlers return.
FairSpec == Spec /\ WF_vars(Tick) /\ WF_vars(CheckBegin) /\ WF_vars(Check)

-----------------------------------------------------------------------------
(***************************************************************************)
(* Properties                                                               *)
(***************************************************************************)
\* Type invariant; a handler runs only inside sys_check_timeouts.
TypeOK ==
  /\ sys_now \in 0..(W - 1)
  /\ next_timeout \in Seq([h : Handlers, time : 0..(W - 1), left : Int])
  /\ pool \in 0..MEMP_NUM_SYS_TIMEOUT
  /\ current_timeout_due_time \in 0..(W - 1)
  /\ current_left \in Int
  /\ tcp_pcbs \in BOOLEAN
  /\ tcpip_tcp_timer_active \in BOOLEAN
  /\ now \in 0..(W - 1)
  /\ elapsed \in 0..MaxLate
  /\ running \in Handlers \cup {NoHandler}
  /\ pc \in {"idle", "check", "handler", "aborted"}
  /\ (running # NoHandler) => pc \in {"handler", "aborted"}

\* What tcpip_timeouts_mbox_fetch relies on: sys_timeouts_sleeptime is the time
\* until the earliest of ALL pending timers is due, 0 when one is overdue and
\* infinite only when none is pending; its assertion "invalid sleeptime"
\* (timeouts.c:440) never fails.  Needs the list sorted across a wraparound.
SleeptimeExact ==
  LET left == {next_timeout[i].left : i \in DOMAIN next_timeout}
  IN  /\ sys_timeouts_sleeptime <= LWIP_MAX_TIMEOUT
      /\ sys_timeouts_sleeptime = IF left = {} THEN -1
                                  ELSE IF Min(left) < 0 THEN 0 ELSE Min(left)

\* sys_check_timeouts calls a handler only if its timer was due when the call
\* began, the earliest due first, and returns only when no such timer is left
\* ("Process only timers expired at the start of the function",
\* "Repeat until all expired timers have been called").  lwip_cyclic_timer rearms
\* a timer at most one interval ahead and never in the past, however late the
\* handler was called and however long it took.
ServesExpired ==
  [][/\ (pc = "check" /\ pc' = "handler") =>
            /\ current_left' + elapsed <= 0
            /\ \A i \in DOMAIN next_timeout' : current_left' <= next_timeout'[i].left
     /\ (pc = "check" /\ pc' = "idle") =>
            \A i \in DOMAIN next_timeout : next_timeout[i].left + elapsed > 0
     /\ \A h \in Cyclic : (running = h /\ running' = NoHandler) =>
          \A i \in DOMAIN next_timeout' : next_timeout'[i].h = h =>
            next_timeout'[i].left \in 0..Interval[h]]_vars

\* A cyclic timer never stops and never doubles: it is pending once, or its
\* handler is running.
CyclicArmed ==
  pc # "aborted" =>
    \A h \in Cyclic : Cardinality(Pending(h)) + (IF running = h THEN 1 ELSE 0) = 1

\* tcpip_tcp_timer_active says whether the TCP timer is scheduled or running, it
\* is never scheduled twice, and connections are never left without it - also
\* when a handler opens or closes them while the timer itself is being served.
TcpTimerTracked ==
  pc # "aborted" =>
    /\ Cardinality(Pending(Tcp)) + (IF running = Tcp THEN 1 ELSE 0)
         = (IF tcpip_tcp_timer_active THEN 1 ELSE 0)
    /\ tcp_pcbs => tcpip_tcp_timer_active

\* With one block for each timer of the stack and of its clients, the assertion
\* "pool MEMP_SYS_TIMEOUT is empty" (timeouts.c:190) never fails: a timer's
\* block is free again before its handler rearms it, and none is lost.
PoolSuffices ==
  /\ TypeOK
  /\ pc # "aborted"
  /\ pool + Len(next_timeout) = MEMP_NUM_SYS_TIMEOUT

\* The three together: timers that must be pending are, once, and there is room.
TimersArmed == CyclicArmed /\ TcpTimerTracked /\ PoolSuffices

\* A pending timer does not stay pending: it is served or cancelled, unless the
\* application shifts the timers with sys_restart_timeouts for ever; and
\* sys_check_timeouts returns, though handlers may arm timers that are due at once.
EveryTimerServed ==
  /\ (pc = "check") ~> (pc = "idle")
  /\ <>[][~sys_restart_timeouts]_vars
       => \A h \in Handlers : (Pending(h) # {}) ~> (Pending(h) = {})
=============================================================================
