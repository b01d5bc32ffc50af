----------------------------- MODULE BoundedFifo -----------------------------
(***************************************************************************)
(* What a mailbox of lwip/sys.h promises to its callers: a bounded first-in *)
(* first-out queue of pointers.  A call is invoked, takes effect in one     *)
(* step, and returns; SysMbox shows that the Unix port implements this.     *)
(***************************************************************************)
EXTENDS Naturals, Sequences

CONSTANTS Posters,   \* threads that call sys_mbox_post / sys_mbox_trypost
          Fetchers,  \* threads that call sys_arch_mbox_fetch / tryfetch
          Msgs,      \* the pointers that are posted
          Capacity,  \* number of messages the mailbox can hold
          PostOps, FetchOps  \* the calls the threads make

VARIABLES queue,  \* the messages in the mailbox, oldest first
          call,   \* call[t]: the call thread t is executing
          ret     \* ret[t]: the result of its last call, Pending until decided

vars == <<queue, call, ret>>

Threads == Posters \cup Fetchers
NoCall == [op |-> "none"]
Pending == [kind |-> "pending"]
Result(kind) == [kind |-> kind]
Received(m) == [kind |-> "received", msg |-> m]

\* An operation of each kind as the caller issues it.
PostCalls == [op : PostOps, msg : Msgs]
FetchCalls == [op : FetchOps]

Init ==
  /\ queue = <<>>
  /\ call = [t \in Threads |-> NoCall]
  /\ ret = [t \in Threads |-> Result("ERR_OK")]

Undecided(t, ops) == call[t].op \in ops /\ ret[t] = Pending
Decide(t, r) == ret' = [ret EXCEPT ![t] = r]

Invoke(t) ==
  /\ call[t] = NoCall
  /\ \/ t \in Posters /\ \E c \in PostCalls : call' = [call EXCEPT ![t] = c]
     \/ t \in Fetchers /\ \E c \in FetchCalls : call' = [call EXCEPT ![t] = c]
  /\ Decide(t, Pending)
  /\ UNCHANGED queue

Put(t) ==
  /\ Undecided(t, {"post", "trypost"})
  /\ Len(queue) < Capacity
  /\ queue' = Append(queue, call[t].msg)
  /\ Decide(t, Result("ERR_OK"))
  /\ UNCHANGED call

Refuse(t) ==
  /\ Undecided(t, {"trypost"})
  /\ Len(queue) = Capacity
  /\ Decide(t, Result("ERR_MEM"))
  /\ UNCHANGED <<queue, call>>

Take(t) ==
  /\ Undecided(t, {"fetch", "timedfetch", "tryfetch"})
  /\ queue # <<>>
  /\ Decide(t, Received(Head(queue)))
  /\ queue' = Tail(queue)
  /\ UNCHANGED call

FindEmpty(t) ==
  /\ Undecided(t, {"tryfetch"})
  /\ queue = <<>>
  /\ Decide(t, Result("SYS_MBOX_EMPTY"))
  /\ UNCHANGED <<queue, call>>

TimeOut(t) ==
  /\ Undecided(t, {"timedfetch"})
  /\ Decide(t, Result("SYS_ARCH_TIMEOUT"))
  /\ UNCHANGED <<queue, call>>

Return(t) ==
  /\ call[t] # NoCall
  /\ ret[t] # Pending
  /\ call' = [call EXCEPT ![t] = NoCall]
  /\ UNCHANGED <<queue, ret>>

Next ==
  \E t \in Threads :
    \/ Invoke(t) \/ Put(t) \/ Refuse(t) \/ Take(t)
    \/ FindEmpty(t) \/ TimeOut(t) \/ Return(t)

Spec == Init /\ [][Next]_vars
==============================================================================
