-------------------------------- MODULE MCPort --------------------------------
(***************************************************************************)
(* What threads wait for in the Unix port, for TLC: protected regions,         *)
(* semaphores and mailboxes.  A mailbox is modelled on the promise of its       *)
(* semaphores, so that they share no state: a behaviour is of one of them,      *)
(* chosen in Init.                                                          *)
(***************************************************************************)
EXTENDS SysProt

CONSTANTS t1, t2, t3, m1

VARIABLES part,
          c, owner, semPc, timeout, deadline, called, now,
          first, last, msgs, not_empty, not_full, mutex, wait_send, mboxPc,
          call, ret, was_empty, got

Sem == INSTANCE SysSem
         WITH pc <- semPc, Waiters <- {t1, t2}, Signallers <- {t3},
              Timeouts <- {0, 1}, Spurious <- TRUE, MaxTicks <- 2

MaxPosts == 4

\* Two posters fill a mailbox with room for two messages, and beyond.
Mbox == INSTANCE SysMbox
          WITH pc <- mboxPc, Posters <- {t1, t2}, Fetchers <- {t3}, Msgs <- {m1},
               Size <- 3, PostOps <- {"post"}, FetchOps <- {"fetch"}, MaxLast <- MaxPosts

semVars == <<c, owner, semPc, timeout, deadline, called, now>>
mboxVars == <<first, last, msgs, not_empty, not_full, mutex, wait_send, mboxPc, call,
              ret, was_empty, got>>
allVars == <<part, vars, semVars, mboxVars>>

Prt(A) == part = "prot" /\ A /\ UNCHANGED <<part, semVars, mboxVars>>
Smp(A) == part = "sem" /\ A /\ UNCHANGED <<part, vars, mboxVars>>
Mbx(A) == part = "mbox" /\ A /\ UNCHANGED <<part, vars, semVars>>

\* Where Init leaves a choice, the parts that do not run make none.
PortInit ==
  /\ part \in {"prot", "sem", "mbox"} /\ Init /\ Sem!Init /\ Mbox!Init
  /\ part # "sem" => c = 0

\* Only the bound on posts may bring the threads of a mailbox to rest.
PortNext ==
  \/ Prt(Next) \/ Smp(Sem!Next) \/ Mbx(Mbox!Next)
  \/ Mbx(last >= MaxPosts /\ UNCHANGED mboxVars)

\* The fairness of all three: as one of them runs, being fair to the disjunction of
\* what they ask for is being fair to the one that runs.  Where a thread can only take
\* one step next, its steps share a condition.
ProtStep(t) == ProtectStep(t) \/ LeaveStep(t) \/ (depth[t] = MaxDepth /\ Unprotect(t))

PortSpec ==
  /\ PortInit /\ [][PortNext]_allVars
  /\ \A t \in {t1, t2} :
       SF_allVars(\/ Prt(ProtStep(t))
                  \/ Smp(Sem!WaitStep(t) \/ Sem!Return(t))
                  \/ Mbx(Mbox!PostStep(t) \/ Mbox!Leave(t)))
  /\ SF_allVars(\/ Prt(depth[t1] = 1 /\ Unprotect(t1))
                \/ Smp(Sem!SignalStep(t3) \/ Sem!Return(t3))
                \/ Mbx(Mbox!FetchStep(t3) \/ Mbox!Leave(t3) \/ Mbox!StartFetch(t3)))
  /\ SF_allVars(Prt(depth[t2] = 1 /\ Unprotect(t2)))
-------------------------------------------------------------------------------
\* SysSem: nobody sleeps beside a token, and nobody gives up before its time.
SemWaits == Sem!NoSleepBesideToken /\ Sem!NoEarlyTimeout

\* SysSem: a binary semaphore whose operations are single steps.
ImplementsSemaphore == Sem!ImplementsSemaphore

\* SysSem: a token signalled while a thread waits is taken.
SemTokenTaken == part = "sem" => Sem!TokenTaken

\* SysProt: a thread that asks for protection gets it.
ProtProtectReturns == part = "prot" => ProtectReturns

\* SysMbox: a blocked post completes.
MboxPostCompletes == part = "mbox" => Mbox!PostCompletes
===============================================================================
