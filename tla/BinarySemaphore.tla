--------------------------- MODULE BinarySemaphore ---------------------------
(***************************************************************************)
(* What a semaphore of lwip/sys.h promises: a count that is 0 or 1, a wait  *)
(* that takes it in one step or gives up on a timeout, a signal that sets   *)
(* it.  SysMbox uses the semaphores of its mailbox at this level.           *)
(***************************************************************************)
EXTENDS Naturals

CONSTANTS Waiters, Signallers

VARIABLES count,  \* the token
          state   \* state[t]: "idle", "wait", "timedwait", "signal" or a result

vars == <<count, state>>

Threads == Waiters \cup Signallers

Init == count \in {0, 1} /\ state = [t \in Threads |-> "idle"]

Move(t, from, to) == state[t] \in from /\ state' = [state EXCEPT ![t] = to]

CallWait(t) ==
  /\ t \in Waiters
  /\ Move(t, {"idle"}, "wait") \/ Move(t, {"idle"}, "timedwait")
  /\ UNCHANGED count

CallSignal(t) == t \in Signallers /\ Move(t, {"idle"}, "signal") /\ UNCHANGED count

Acquire(t) ==
  /\ Move(t, {"wait", "timedwait"}, "taken")
  /\ count = 1
  /\ count' = 0

GiveUp(t) == Move(t, {"timedwait"}, "timeout") /\ UNCHANGED count

Release(t) == Move(t, {"signal"}, "signalled") /\ count' = 1

Return(t) == Move(t, {"taken", "timeout", "signalled"}, "idle") /\ UNCHANGED count

Next ==
  \E t \in Threads :
    \/ CallWait(t) \/ CallSignal(t) \/ Acquire(t)
    \/ GiveUp(t) \/ Release(t) \/ Return(t)

Spec == Init /\ [][Next]_vars
==============================================================================
