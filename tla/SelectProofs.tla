----------------------------- MODULE SelectProofs -----------------------------
(***************************************************************************)
(* Events and the calls that wait for them, for any threads, sockets and     *)
(* sizes of mailboxes.  A socket is named by its owner and its place there:    *)
(* Own[t][k].                                                               *)
(***************************************************************************)
EXTENDS Select, TLAPS

Kinds == {"recv", "send", "error"}
EvtKinds == Kinds \cup {"post"}
\* What lwip_recv has to do next, and the places where a thread does not select.
Doings == {"minus", "more", "fin", "shut"}
Outside == {"idle", "replay"} \cup Doings
Tasks(t) == [sock : OwnSet(t), kind : {"recv"} \cup Doings]
\* A call that select_check_waiters can find, and one that has begun at all.
Listed == {"inc", "rescan", "wait", "dec", "unlink"}
Calling == {"scan", "link", "last"} \cup Listed
Places(t) == DOMAIN Own[t]

(***************************************************************************)
(* Types, and what the place of a thread says about its variables            *)
(***************************************************************************)
EventTypes ==
  /\ ev \in [Sockets -> [recv : Int, send : BOOLEAN, err : BOOLEAN]]
  /\ waiting \in [Sockets -> Int] /\ linked \subseteq Threads
  /\ evt \in Seq([sock : Sockets, kind : EvtKinds]) /\ has \subseteq Kinds
  /\ tp \in {"idle", "read", "recheck", "set", "check"}
  /\ core = (IF tp = "idle" THEN "free" ELSE "tcpip")
  /\ tp = "idle" <=> evt = <<>>
Cbs == [poll : BOOLEAN, want : SUBSET Kinds, forever : BOOLEAN, signalled : BOOLEAN, sem : {0, 1}]
CallTypes ==
  /\ cb \in [Threads -> Cbs]
  /\ pc \in [Threads -> Outside \cup Calling]
  /\ i \in [Threads -> Int] /\ found \in [Threads -> SUBSET Sockets]
  /\ DOMAIN early = Threads

Locals(t) ==
  /\ i[t] \in Places(t)
  /\ pc[t] \in Outside \cup {"link", "wait", "unlink"} => i[t] = 1
  /\ pc[t] \in Outside => cb[t] = NoCall
  /\ pc[t] \in {"scan", "link"} => ~cb[t].signalled /\ cb[t].sem = 0
  /\ pc[t] \in {"inc", "rescan", "wait"} => (cb[t].signalled <=> cb[t].sem = 1)
  /\ t \in linked <=> pc[t] \in Listed
  /\ early[t] \in Seq(Tasks(t))
  /\ pc[t] \in Doings => Len(early[t]) = 1

\* select_waiting of a socket while its owner counts itself in and out.
Counted(t, k) ==
  \/ pc[t] \in {"rescan", "wait"}
  \/ pc[t] = "inc" /\ k < i[t]
  \/ pc[t] = "dec" /\ k >= i[t]
WaitingCount(t) == \A k \in Places(t) : waiting[Own[t][k]] = IF Counted(t, k) THEN 1 ELSE 0

(***************************************************************************)
(* No event is missed                                                       *)
(***************************************************************************)
\* While the tcpip thread looks for waiters, the call that it will find stays, and
\* the events it saved are those of the socket.
Checked(t) ==
  tp = "check" /\ sock \in OwnSet(t) => pc[t] \in Listed /\ has = Active(ev[sock])

\* The sockets that the scan after counting in has passed.
Passed(t, k) ==
  \/ pc[t] = "wait"
  \/ pc[t] = "rescan" /\ k < i[t]
  \/ pc[t] = "inc" /\ cb[t].poll /\ k < i[t]
Watched(t) ==
  /\ pc[t] = "wait" => found[t] = {}
  /\ \A k \in Places(t) :
       Passed(t, k) /\ found[t] = {} /\ cb[t].sem = 0 /\ Ready(t, Own[t][k])
         => tp = "check" /\ sock = Own[t][k]

(***************************************************************************)
(* What a call returns                                                      *)
(***************************************************************************)
\* A socket that is ready, and that the scan has found or will come to.
Coming(t) == \E k \in Places(t) : Ready(t, Own[t][k]) /\ (Own[t][k] \in found[t] \/ k >= i[t])

Lasting(t) ==
  /\ pc[t] \in Calling => \A s \in found[t] : s \in OwnSet(t) /\ Ready(t, s)
  /\ pc[t] \in {"link", "inc", "rescan", "wait", "dec", "unlink"} /\ cb[t].signalled
       => \E k \in Places(t) : Ready(t, Own[t][k])
  /\ pc[t] = "link" => found[t] = {}
  /\ pc[t] = "rescan" /\ cb[t].poll => FALSE
  /\ cb[t].forever =>
       /\ pc[t] \in {"dec", "unlink"} /\ found[t] = {} => cb[t].signalled /\ cb[t].sem = 0
       /\ pc[t] = "dec" /\ cb[t].poll => Coming(t)
       /\ pc[t] = "unlink" /\ cb[t].poll => found[t] # {}
       /\ pc[t] = "last" => Coming(t)

ThreadInv(t) == Locals(t) /\ WaitingCount(t) /\ Checked(t) /\ Watched(t) /\ Lasting(t)
SelectInv == EventTypes /\ CallTypes /\ \A t \in Threads : ThreadInv(t)
-------------------------------------------------------------------------------
(***************************************************************************)
(* Sockets and their owners                                                 *)
(***************************************************************************)
\* A socket has one owner and one place there.
LEMMA OwnFacts ==
  ASSUME NEW t \in Threads
  PROVE  /\ Len(Own[t]) \in Nat \ {0} /\ Places(t) = 1..Len(Own[t]) /\ 1 \in Places(t)
         /\ OwnSet(t) \subseteq Sockets
         /\ \A k \in Places(t) : Own[t][k] \in OwnSet(t) /\ Own[t][k] \in Sockets
         /\ \A j, k \in Places(t) : Own[t][j] = Own[t][k] => j = k
         /\ \A s \in OwnSet(t) : \E k \in Places(t) : s = Own[t][k]
         /\ \A u \in Threads \ {t} : OwnSet(t) \cap OwnSet(u) = {}
<1>1. Own[t] \in Seq(OwnSet(t)) /\ Own[t] # <<>>
  BY Zenon, OwnAssumption
<1>2. Len(Own[t]) \in Nat \ {0} /\ DOMAIN Own[t] = 1..Len(Own[t])
  BY <1>1
<1>3. OwnSet(t) \subseteq Sockets
  BY Zenon DEF Sockets
<1>4. \A u \in Threads \ {t} : OwnSet(t) \cap OwnSet(u) = {}
  BY Zenon, OwnAssumption
<1>5. \A j, k \in Places(t) : Own[t][j] = Own[t][k] => j = k
  BY Zenon, OwnAssumption DEF Places
<1>6. 1 \in 1..Len(Own[t])
  BY <1>2
<1> QED
  BY Zenon, <1>2, <1>3, <1>4, <1>5, <1>6 DEF OwnSet, Places

LEMMA PlaceFacts ==
  ASSUME NEW t \in Threads, NEW k \in Places(t)
  PROVE  k \in Int /\ k >= 1 /\ k <= Len(Own[t]) /\ Len(Own[t]) \in Int
BY OwnFacts

\* So has the one that a loop has come to.
LEMMA CurFacts ==
  ASSUME NEW t \in Threads, Locals(t)
  PROVE  i[t] \in Places(t) /\ Cur(t) = Own[t][i[t]] /\ Cur(t) \in OwnSet(t) /\ Cur(t) \in Sockets
BY Zenon, OwnFacts DEF Locals, Cur

\* The thread u and its sockets are left alone.
Same(u) ==
  /\ pc'[u] = pc[u] /\ i'[u] = i[u] /\ cb'[u] = cb[u] /\ found'[u] = found[u]
  /\ early'[u] = early[u] /\ (u \in linked' <=> u \in linked)
  /\ \A s \in OwnSet(u) : ev'[s] = ev[s] /\ waiting'[s] = waiting[s]
  /\ tp' = tp /\ evt' = evt /\ has' = has

\* Then all that holds of it goes on to hold.
LEMMA SameKeeps == ASSUME NEW u \in Threads, ThreadInv(u), Same(u) PROVE ThreadInv(u)'
<1>1. \A k \in Places(u) : Own[u][k] \in OwnSet(u)
  BY Zenon, OwnFacts
<1>2. \A s \in OwnSet(u) : Ready(u, s)' = Ready(u, s)
  BY Zenon DEF Same, Ready
<1>3. Locals(u)'
  BY Zenon DEF ThreadInv, Locals, Same
<1>4. WaitingCount(u)'
  BY Zenon, <1>1 DEF ThreadInv, WaitingCount, Counted, Same
<1>5. Checked(u)'
  BY Zenon DEF ThreadInv, Checked, Same, sock, Event
<1>6. Watched(u)'
  BY Zenon, <1>1, <1>2 DEF ThreadInv, Watched, Passed, Same, sock, Event
<1>7. Coming(u)' = Coming(u)
  BY Zenon, <1>1, <1>2 DEF Coming, Same
<1>8. Lasting(u)'
  BY Zenon, <1>1, <1>2, <1>7 DEF ThreadInv, Lasting, Same
<1> QED
  BY Zenon, <1>3, <1>4, <1>5, <1>6, <1>8 DEF ThreadInv
-------------------------------------------------------------------------------
(***************************************************************************)
(* Steps of a thread                                                        *)
(***************************************************************************)
\* What a step of t leaves to the others.
Alone(t) == \A u \in Threads \ {t} : Same(u)

\* The sockets of another thread are not those of t.
LEMMA OthersSockets ==
  ASSUME NEW t \in Threads, NEW u \in Threads \ {t}, NEW s \in OwnSet(u)
  PROVE  s \notin OwnSet(t) /\ s \in Sockets
BY Zenon, OwnFacts

\* A thread that is not in a call is not waited for, found or woken.
LEMMA IdleKeeps ==
  ASSUME NEW t \in Threads, ThreadInv(t),
         pc[t] \in Outside, pc'[t] \in Outside \cup {"scan"},
         pc'[t] = "scan" => found'[t] = {} /\ ~cb'[t].signalled,
         UNCHANGED <<waiting, tp, evt>>, Locals(t)'
  PROVE  ThreadInv(t)'
<1>1. WaitingCount(t)'
  BY Zenon DEF ThreadInv, WaitingCount, Counted, Outside, Doings
<1>2. Checked(t)'
  BY Zenon DEF ThreadInv, Checked, sock, Event, Listed, Outside, Doings
<1>3. Watched(t)'
  BY Zenon DEF Watched, Passed, Outside, Doings
<1>4. Lasting(t)'
  BY Zenon DEF Lasting, Calling, Listed, Outside, Doings
<1> QED
  BY Zenon, <1>1, <1>2, <1>3, <1>4 DEF ThreadInv

\* The first element of a sequence.
LEMMA HeadOf == ASSUME NEW S, NEW q \in Seq(S), q # <<>> PROVE Head(q) \in S
OBVIOUS

\* The only one.
LEMMA OnlyOf ==
  ASSUME NEW S, NEW q \in Seq(S), Len(q) = 1 PROVE q # <<>> /\ Head(q) = q[1] /\ q[1] \in S
OBVIOUS

\* The same element a number of times.
LEMMA Repeated == ASSUME NEW S, NEW x \in S, NEW n \in Nat PROVE [k \in 1..n |-> x] \in Seq(S)
OBVIOUS

\* A step of lwip_recv that counts for s, or for nobody, and goes on to l.
LEMMA DoingKeeps ==
  ASSUME SelectInv, NEW t \in Threads, NEW s \in OwnSet(t), NEW l \in {"idle"} \cup Doings,
         pc[t] \in Outside, Doing(t, s, l), UNCHANGED recvVars,
         ev' = ev \/ \E n \in Int : ev' = [ev EXCEPT ![s] = [ev[s] EXCEPT !.recv = @ + n]]
  PROVE  EventTypes' /\ CallTypes' /\ ThreadInv(t)' /\ Alone(t)
<1> DEFINE e == IF l = "idle" THEN <<>> ELSE Signal(s, <<l>>)
<1>0. /\ ThreadInv(t) /\ EventTypes /\ CallTypes /\ s \in Sockets /\ i[t] = 1 /\ cb[t] = NoCall
      /\ UNCHANGED <<waiting, linked, cb, core, evt, tp, has, i, found>>
      /\ pc' = [pc EXCEPT ![t] = l] /\ early' = [early EXCEPT ![t] = e]
  BY Zenon, OwnFacts DEF SelectInv, ThreadInv, Locals, recvVars, Doing, Goto
<1>1. e \in Seq(Tasks(t)) /\ (l # "idle" => Len(e) = 1)
  <2>1. CASE l = "idle"
    BY <2>1
  <2>2. CASE l # "idle"
    <3>1. [sock |-> s, kind |-> l] \in Tasks(t) /\ e = <<[sock |-> s, kind |-> l]>>
      BY <2>2 DEF Signal, Tasks
    <3> HIDE DEF e
    <3> QED
      BY <2>2, <3>1
  <2> QED
    BY Zenon, <2>1, <2>2
<1> HIDE DEF e
<1>2. pc'[t] = l /\ early'[t] = e /\ l \in Outside /\ (l \in Doings => l # "idle")
  BY Zenon, <1>0 DEF CallTypes, Outside, Doings
<1>3. EventTypes' /\ \A r \in Sockets \ {s} : ev'[r] = ev[r]
  <2>1. CASE ev' = ev
    BY Zenon, <1>0, <2>1 DEF EventTypes
  <2>2. ASSUME NEW n \in Int, ev' = [ev EXCEPT ![s] = [ev[s] EXCEPT !.recv = @ + n]]
        PROVE  EventTypes' /\ \A r \in Sockets \ {s} : ev'[r] = ev[r]
    <3>1. ev[s] \in [recv : Int, send : BOOLEAN, err : BOOLEAN]
      BY Zenon, <1>0 DEF EventTypes
    <3>2. [ev[s] EXCEPT !.recv = @ + n] \in [recv : Int, send : BOOLEAN, err : BOOLEAN]
      BY <3>1
    <3> QED
      BY Zenon, <1>0, <2>2, <3>2 DEF EventTypes
  <2> QED
    BY Zenon, <2>1, <2>2
<1>4. CallTypes'
  BY Zenon, <1>0, <1>2 DEF CallTypes
<1>5. Locals(t)'
  <2>1. l \notin Listed /\ l \notin {"scan", "link", "inc", "rescan", "wait"}
    BY Zenon DEF Listed, Doings
  <2>2. t \notin linked
    BY Zenon, <1>0 DEF ThreadInv, Locals, Listed, Outside, Doings
  <2> QED
    BY Zenon, <1>0, <1>1, <1>2, <2>1, <2>2 DEF ThreadInv, Locals
<1>6. Alone(t)
  BY Zenon, <1>0, <1>3, OthersSockets DEF Alone, Same, CallTypes
<1>7. pc'[t] # "scan"
  BY Zenon, <1>2 DEF Outside, Doings
<1> QED
  BY Zenon, <1>0, <1>2, <1>3, <1>4, <1>5, <1>6, <1>7, IdleKeeps

\* The socket that lwip_recv is working on.
LEMMA TargetFacts ==
  ASSUME SelectInv, NEW t \in Threads, pc[t] \in Doings
  PROVE  Target(t) \in OwnSet(t) /\ Target(t) \in Sockets /\ early[t] # <<>> /\ Head(early[t]) = early[t][1]
<1>1. early[t] \in Seq(Tasks(t)) /\ Len(early[t]) = 1
  BY Zenon DEF SelectInv, ThreadInv, Locals
<1>2. early[t] # <<>> /\ Head(early[t]) = early[t][1] /\ early[t][1] \in Tasks(t)
  BY Zenon, <1>1, OnlyOf
<1>3. Target(t) \in OwnSet(t)
  BY Zenon, <1>2 DEF Tasks, Target
<1>4. OwnSet(t) \subseteq Sockets
  BY Zenon, OwnFacts
<1> QED
  BY Zenon, <1>2, <1>3, <1>4

\* The next message is fetched.
LEMMA FetchDoes ==
  ASSUME NEW t \in Threads, NEW s \in OwnSet(t), NEW nofin \in BOOLEAN, Fetch(t, s, nofin)
  PROVE  \E l \in {"idle"} \cup Doings : Doing(t, s, l)
BY Zenon DEF Fetch, Doings

\* lwip_recv, and a write that fills the buffer.
LEMMA RecvKeeps ==
  ASSUME SelectInv, NEW t \in Threads, NEW s \in OwnSet(t), lwip_recv(t, s) \/ WriteFull(t, s)
  PROVE  EventTypes' /\ CallTypes' /\ ThreadInv(t)' /\ Alone(t)
<1>1. CASE lwip_recv(t, s)
  <2>1. ev' = ev /\ UNCHANGED recvVars /\ pc[t] \in Outside
    BY Zenon, <1>1 DEF lwip_recv, Outside
  <2>2. \E l \in {"idle"} \cup Doings : Doing(t, s, l)
    BY Zenon, <1>1, FetchDoes DEF lwip_recv, Doings
  <2> QED
    BY Zenon, <2>1, <2>2, DoingKeeps
<1>2. CASE WriteFull(t, s)
  <2>0. /\ ThreadInv(t) /\ EventTypes /\ CallTypes /\ pc[t] = "idle" /\ s \in Sockets /\ i[t] = 1
        /\ UNCHANGED <<waiting, linked, cb, core, evt, tp, has, i, found>> /\ pc[t] \in Outside
    BY Zenon, <1>2, OwnFacts DEF SelectInv, ThreadInv, Locals, WriteFull, netVars, callVars, Outside
  <2>1. pc' = pc /\ ev' = [ev EXCEPT ![s].send = FALSE] /\ early' = early
    BY Zenon, <1>2 DEF WriteFull, callVars
  <2>2. EventTypes' /\ CallTypes'
    BY Zenon, <2>0, <2>1 DEF EventTypes, CallTypes
  <2>3. Locals(t)'
    BY Zenon, <2>0, <2>1 DEF ThreadInv, Locals
  <2>4. Alone(t)
    BY Zenon, <2>0, <2>1, OthersSockets DEF Alone, Same, EventTypes
  <2> QED
    BY Zenon, <2>0, <2>1, <2>2, <2>3, <2>4, IdleKeeps
<1> QED
  BY Zenon, <1>1, <1>2

\* A message is counted off, the next one fetched, the stream read to its end.
LEMMA RecvStepKeeps ==
  ASSUME SelectInv, NEW t \in Threads, RecvMinus(t) \/ RecvMore(t) \/ RecvFin(t) \/ ShutRead(t)
  PROVE  EventTypes' /\ CallTypes' /\ ThreadInv(t)' /\ Alone(t)
<1>1. pc[t] \in Doings /\ pc[t] \in Outside /\ UNCHANGED recvVars
  BY Zenon DEF RecvMinus, RecvMore, RecvFin, ShutRead, Outside, Doings
<1>2. PICK s \in OwnSet(t) : s = Target(t)
  BY Zenon, <1>1, TargetFacts
<1>3. s \in Sockets /\ ev[s] \in [recv : Int, send : BOOLEAN, err : BOOLEAN]
  BY Zenon, OwnFacts DEF SelectInv, EventTypes
<1>4. ev' = ev \/ \E n \in Int : ev' = [ev EXCEPT ![s] = [ev[s] EXCEPT !.recv = @ + n]]
  <2>1. -1 \in Int /\ 1 \in Int /\ ev[s].recv - 1 = ev[s].recv + (-1)
    BY <1>3
  <2>2. [ev[s] EXCEPT !.recv = @ - 1] = [ev[s] EXCEPT !.recv = @ + (-1)]
    BY Zenon, <2>1
  <2>3. \/ ev' = ev \/ ev' = [ev EXCEPT ![s] = [ev[s] EXCEPT !.recv = @ - 1]]
        \/ ev' = [ev EXCEPT ![s] = [ev[s] EXCEPT !.recv = @ + 1]]
    BY Zenon, <1>2 DEF RecvMinus, RecvMore, RecvFin, ShutRead
  <2> QED
    BY Zenon, <2>1, <2>2, <2>3
<1>5. \E l \in {"idle"} \cup Doings : Doing(t, s, l)
  BY Zenon, <1>2, FetchDoes DEF RecvMinus, RecvMore, RecvFin, ShutRead, Doings
<1> QED
  BY Zenon, <1>1, <1>4, <1>5, DoingKeeps

\* lwip_accept gives the connection its socket.
LEMMA AcceptKeeps ==
  ASSUME SelectInv, NEW t \in Threads, NEW s \in OwnSet(t), conn[s] \in Int, lwip_accept(t, s)
  PROVE  EventTypes' /\ CallTypes' /\ ThreadInv(t)' /\ Alone(t)
<1>0. /\ ThreadInv(t) /\ EventTypes /\ CallTypes /\ pc[t] = "idle" /\ i[t] = 1 /\ cb[t] = NoCall
      /\ UNCHANGED <<ev, waiting, linked, cb, core, evt, tp, has, i, found>>
      /\ pc' = [pc EXCEPT ![t] = "replay"] /\ conn[s] < 0
  BY Zenon DEF SelectInv, ThreadInv, Locals, lwip_accept, Goto, Outside, Doings
<1> DEFINE n == -1 - conn[s]
           e == Signal(s, [k \in 1..n |-> "recv"])
<1>1. e \in Seq(Tasks(t))
  <2>1. n \in Nat
    BY <1>0
  <2> HIDE DEF n
  <2>2. e = [k \in 1..n |-> [sock |-> s, kind |-> "recv"]]
    BY Zenon DEF Signal
  <2>3. [sock |-> s, kind |-> "recv"] \in Tasks(t)
    BY Zenon DEF Tasks
  <2>4. [k \in 1..n |-> [sock |-> s, kind |-> "recv"]] \in Seq(Tasks(t))
    BY Zenon, <2>1, <2>3, Repeated
  <2> QED
    BY Zenon, <2>2, <2>4
<1>2. early' = [early EXCEPT ![t] = e]
  BY Zenon DEF lwip_accept
<1> HIDE DEF e
<1>3. EventTypes' /\ CallTypes'
  BY Zenon, <1>0, <1>2 DEF EventTypes, CallTypes, Outside, Doings
<1>4. Locals(t)'
  BY Zenon, <1>0, <1>1, <1>2 DEF ThreadInv, Locals, CallTypes, Listed, Outside, Doings
<1>5. Alone(t)
  BY Zenon, <1>0, <1>2 DEF Alone, Same, CallTypes
<1> QED
  BY Zenon, <1>0, <1>2, <1>3, <1>4, <1>5, IdleKeeps DEF CallTypes, Outside, Doings

\* lwip_accept counts what came before.
LEMMA ReplayKeeps ==
  ASSUME SelectInv, NEW t \in Threads, AcceptReplay(t)
  PROVE  EventTypes' /\ CallTypes' /\ ThreadInv(t)' /\ Alone(t)
<1>0. /\ ThreadInv(t) /\ EventTypes /\ CallTypes /\ pc[t] = "replay" /\ i[t] = 1 /\ cb[t] = NoCall
      /\ UNCHANGED <<waiting, linked, cb, core, evt, tp, has, i, found>>
      /\ pc' = [pc EXCEPT ![t] = "idle"] /\ early' = [early EXCEPT ![t] = <<>>]
  BY Zenon DEF SelectInv, ThreadInv, Locals, AcceptReplay, netVars, Goto, Outside, Doings
<1>1. \/ ev' = ev
      \/ \E s \in OwnSet(t) : \E n \in Int : ev' = [ev EXCEPT ![s] = [ev[s] EXCEPT !.recv = @ + n]]
  <2>1. CASE early[t] # <<>>
    <3>1. early[t] \in Seq(Tasks(t)) /\ Len(early[t]) \in Int
      BY <1>0 DEF ThreadInv, Locals
    <3>2. Head(early[t]) \in Tasks(t)
      BY Zenon, <2>1, <3>1, HeadOf
    <3>3. Head(early[t]).sock \in OwnSet(t)
      BY Zenon, <3>2 DEF Tasks
    <3> QED
      BY Zenon, <2>1, <3>1, <3>3 DEF AcceptReplay
  <2> QED
    BY Zenon, <2>1 DEF AcceptReplay
<1>2. EventTypes' /\ \A s \in Sockets \ OwnSet(t) : ev'[s] = ev[s]
  <2>1. CASE ev' = ev
    BY Zenon, <1>0, <2>1 DEF EventTypes
  <2>2. ASSUME NEW s \in OwnSet(t), NEW n \in Int, ev' = [ev EXCEPT ![s] = [ev[s] EXCEPT !.recv = @ + n]]
        PROVE  EventTypes' /\ \A r \in Sockets \ OwnSet(t) : ev'[r] = ev[r]
    <3>1. s \in Sockets /\ ev[s] \in [recv : Int, send : BOOLEAN, err : BOOLEAN]
      BY Zenon, <1>0, OwnFacts DEF EventTypes
    <3>2. [ev[s] EXCEPT !.recv = @ + n] \in [recv : Int, send : BOOLEAN, err : BOOLEAN]
      BY <3>1
    <3> QED
      BY Zenon, <1>0, <2>2, <3>1, <3>2 DEF EventTypes
  <2> QED
    BY Zenon, <1>1, <2>1, <2>2
<1>3. CallTypes'
  BY Zenon, <1>0 DEF CallTypes, Outside, Doings
<1>4. Locals(t)'
  BY <1>0 DEF ThreadInv, Locals, CallTypes, Listed, Outside, Doings
<1>5. Alone(t)
  BY Zenon, <1>0, <1>2, OthersSockets DEF Alone, Same, CallTypes
<1> QED
  BY Zenon, <1>0, <1>2, <1>3, <1>4, <1>5, IdleKeeps DEF CallTypes, Outside, Doings

\* A thread calls lwip_select or lwip_poll.
LEMMA CallKeeps ==
  ASSUME SelectInv, NEW t \in Threads, Call(t)
  PROVE  EventTypes' /\ CallTypes' /\ ThreadInv(t)' /\ Alone(t)
<1>0. /\ ThreadInv(t) /\ EventTypes /\ CallTypes /\ pc[t] = "idle" /\ i[t] = 1
      /\ UNCHANGED <<ev, waiting, linked, core, evt, tp, has, i, early>>
      /\ pc' = [pc EXCEPT ![t] = "scan"] /\ found' = [found EXCEPT ![t] = {}]
  BY Zenon DEF SelectInv, ThreadInv, Locals, Call, netVars, Goto, Outside, Doings
<1>1. PICK poll \in BOOLEAN, forever \in BOOLEAN, want \in Wants :
        cb' = [cb EXCEPT ![t] = [NoCall EXCEPT !.poll = poll, !.want = want, !.forever = forever]]
  BY Zenon DEF Call
<1>2. want \subseteq Kinds
  BY Zenon, BoundAssumption DEF Kinds
<1>3. /\ cb'[t] = [poll |-> poll, want |-> want, forever |-> forever, signalled |-> FALSE, sem |-> 0]
      /\ \A u \in Threads \ {t} : cb'[u] = cb[u]
  BY Zenon, <1>0, <1>1 DEF NoCall, CallTypes
<1>4. CallTypes'
  BY Zenon, <1>0, <1>1, <1>2 DEF CallTypes, Cbs, NoCall, Calling
<1>5. Locals(t)'
  BY <1>0, <1>3 DEF ThreadInv, Locals, CallTypes, Listed, Outside, Doings
<1>6. EventTypes' /\ Alone(t)
  BY Zenon, <1>0, <1>3 DEF EventTypes, Alone, Same, CallTypes
<1> QED
  BY <1>0, <1>3, <1>4, <1>5, <1>6, IdleKeeps DEF CallTypes, Outside, Doings
-------------------------------------------------------------------------------
(***************************************************************************)
(* Steps of lwip_select and lwip_poll                                       *)
(***************************************************************************)
\* No call is a call.
LEMMA NoCallType == NoCall \in Cbs /\ NoCall.sem # 1
BY DEF NoCall, Cbs

\* What waiting and waking make of a call.
LEMMA CbUpdates ==
  ASSUME NEW c \in Cbs
  PROVE  [c EXCEPT !.sem = 0] \in Cbs /\ [c EXCEPT !.signalled = TRUE, !.sem = 1] \in Cbs
BY Zenon DEF Cbs

\* The loop over the sockets goes on, or is done and begins anew.
LEMMA LoopFacts ==
  ASSUME CallTypes, NEW t \in Threads, Locals(t), NEW next \in {"idle"} \cup Calling, Loop(t, next)
  PROVE  /\ \A u \in Threads \ {t} : pc'[u] = pc[u] /\ i'[u] = i[u]
         /\ i' \in [Threads -> Int] /\ i'[t] \in Places(t)
         /\ pc' \in [Threads -> Outside \cup Calling]
         /\ \/ LastOf(t) /\ i'[t] = 1 /\ pc'[t] = next /\ \A k \in Places(t) : k <= i[t]
            \/ ~LastOf(t) /\ i'[t] = i[t] + 1 /\ pc'[t] = pc[t]
<1>1. Len(Own[t]) \in Nat \ {0} /\ Places(t) = 1..Len(Own[t])
  BY Zenon, OwnFacts
<1>2. i[t] \in 1..Len(Own[t])
  BY Zenon, <1>1 DEF Locals
<1>3. CASE LastOf(t)
  <2>1. i' = [i EXCEPT ![t] = 1] /\ pc' = [pc EXCEPT ![t] = next]
    BY Zenon, <1>3 DEF Loop
  <2> QED
    BY <1>1, <1>2, <1>3, <2>1 DEF CallTypes, LastOf, Outside, Doings
<1>4. CASE ~LastOf(t)
  <2>1. i' = [i EXCEPT ![t] = i[t] + 1] /\ pc' = [pc EXCEPT ![t] = pc[t]]
    BY Zenon, <1>4 DEF Loop
  <2>2. i[t] + 1 \in 1..Len(Own[t])
    BY <1>1, <1>2, <1>4 DEF LastOf
  <2> QED
    BY <1>1, <1>4, <2>1, <2>2 DEF CallTypes
<1> QED
  BY Zenon, <1>3, <1>4

\* The scan of a socket finds it if it is ready.
LEMMA ScanFacts ==
  ASSUME CallTypes, NEW t \in Threads, Locals(t), Lasting(t), pc[t] \in Calling
  PROVE  /\ Cur(t) \in OwnSet(t) /\ Scanned(t) \subseteq Sockets
         /\ found[t] \subseteq Scanned(t) /\ (Ready(t, Cur(t)) => Cur(t) \in Scanned(t))
         /\ \A s \in Scanned(t) : s \in OwnSet(t) /\ Ready(t, s)
         /\ Ready(t, Cur(t)) \/ Scanned(t) = found[t]
<1>1. Cur(t) \in OwnSet(t) /\ OwnSet(t) \subseteq Sockets
  BY Zenon, OwnFacts DEF Locals, Cur
<1>2. \A s \in found[t] : s \in OwnSet(t) /\ Ready(t, s)
  BY Zenon DEF Lasting
<1> QED
  BY Zenon, <1>1, <1>2 DEF Scanned

\* Nobody notices but t itself.
InCall(t) ==
  /\ UNCHANGED <<ev, core, evt, tp, has, early>>
  /\ \A u \in Threads \ {t} :
       /\ pc'[u] = pc[u] /\ i'[u] = i[u] /\ cb'[u] = cb[u] /\ found'[u] = found[u]
       /\ (u \in linked' <=> u \in linked)
       /\ \A s \in OwnSet(u) : waiting'[s] = waiting[s]
LEMMA InCallAlone == ASSUME NEW t, InCall(t) PROVE Alone(t)
BY Zenon DEF InCall, Alone, Same

\* What is ready stays so during a call.
LEMMA ReadyStays ==
  ASSUME NEW t \in Threads, ev' = ev, cb'[t].want = cb[t].want, cb'[t].poll = cb[t].poll
  PROVE  \A s : Ready(t, s)' = Ready(t, s)
BY Zenon DEF Ready

\* The first scan returns with what it found, or goes on to wait.
LEMMA FirstScanKeeps ==
  ASSUME SelectInv, NEW t \in Threads, FirstScan(t)
  PROVE  EventTypes' /\ CallTypes' /\ ThreadInv(t)' /\ Alone(t)
<1>0. /\ ThreadInv(t) /\ EventTypes /\ CallTypes /\ Locals(t) /\ Lasting(t) /\ pc[t] = "scan"
      /\ UNCHANGED <<ev, core, evt, tp, has, waiting, linked, early>>
      /\ found' = [found EXCEPT ![t] = Scanned(t)]
  BY Zenon DEF SelectInv, ThreadInv, FirstScan, netVars, Scan
<1>1. PICK next \in AfterScan(t) :
        Loop(t, next) /\ (IF LastOf(t) /\ next = "idle" THEN Returns(t) ELSE UNCHANGED cb)
  BY Zenon DEF FirstScan
<1>2. next \in {"idle", "link"} /\ (next = "link" => Scanned(t) = {})
  BY Zenon, <1>1 DEF AfterScan
<1>3. next \in {"idle"} \cup Calling /\ pc[t] \in Calling
  BY Zenon, <1>0, <1>2 DEF Calling
<1>4. CallTypes' /\ InCall(t)
  <2>1. cb' \in [Threads -> Cbs] /\ \A u \in Threads \ {t} : cb'[u] = cb[u]
    BY Zenon, <1>0, <1>1, NoCallType DEF CallTypes, Returns
  <2>2. CallTypes'
    BY Zenon, <1>0, <1>1, <1>3, <2>1, LoopFacts, ScanFacts DEF CallTypes
  <2>3. InCall(t)
    BY <1>0, <1>1, <1>3, <2>1, LoopFacts DEF CallTypes, InCall
  <2> QED
    BY Zenon, <2>2, <2>3
<1>5. EventTypes'
  BY Zenon, <1>0 DEF EventTypes
<1>6. ~Checked(t) \/ ~(tp = "check" /\ sock \in OwnSet(t))
  BY Zenon, <1>0 DEF Checked, Listed
<1>7. \A k \in Places(t) : waiting[Own[t][k]] = 0
  BY Zenon, <1>0 DEF ThreadInv, WaitingCount, Counted
<1>8. CASE LastOf(t) /\ next = "idle"
  <2>1. pc'[t] = "idle" /\ i'[t] = 1 /\ cb'[t] = NoCall /\ 1 \in Places(t)
    BY <1>0, <1>1, <1>3, <1>8, LoopFacts, OwnFacts DEF Returns, CallTypes
  <2>2. Locals(t)'
    BY Zenon, <1>0, <2>1 DEF Locals, Listed, Outside, Doings
  <2>3. WaitingCount(t)'
    BY Zenon, <1>0, <1>7, <2>1 DEF WaitingCount, Counted
  <2>4. Checked(t)' /\ Watched(t)' /\ Lasting(t)'
    BY Zenon, <1>0, <1>6, <2>1 DEF ThreadInv, Checked, Watched, Passed, Lasting, Calling, Listed, sock, Event
  <2> QED
    BY Zenon, <1>4, <1>5, <2>2, <2>3, <2>4, InCallAlone DEF ThreadInv
<1>9. CASE ~(LastOf(t) /\ next = "idle")
  <2>1. /\ pc'[t] \in {"scan", "link"} /\ cb' = cb /\ i'[t] \in Places(t) /\ found'[t] = Scanned(t)
        /\ (pc'[t] = "link" => i'[t] = 1 /\ found'[t] = {})
    BY Zenon, <1>0, <1>1, <1>2, <1>3, <1>9, LoopFacts DEF CallTypes
  <2>2. Locals(t)'
    BY Zenon, <1>0, <2>1 DEF Locals, Listed, Outside, Doings
  <2>3. WaitingCount(t)'
    BY Zenon, <1>0, <1>7, <2>1 DEF WaitingCount, Counted
  <2>4. Checked(t)' /\ Watched(t)'
    BY Zenon, <1>0, <1>6, <2>1 DEF ThreadInv, Checked, Watched, Passed, Listed, sock, Event
  <2>5. \A s \in found'[t] : s \in OwnSet(t) /\ Ready(t, s)'
    BY Zenon, <1>0, <1>3, <2>1, ScanFacts, ReadyStays
  <2>6. Lasting(t)'
    BY Zenon, <1>0, <2>1, <2>5 DEF Locals, Lasting
  <2> QED
    BY Zenon, <1>4, <1>5, <2>2, <2>3, <2>4, <2>6, InCallAlone DEF ThreadInv
<1> QED
  BY Zenon, <1>8, <1>9

\* The call enters the list.
LEMMA LinkKeeps ==
  ASSUME SelectInv, NEW t \in Threads, lwip_link_select_cb(t)
  PROVE  EventTypes' /\ CallTypes' /\ ThreadInv(t)' /\ Alone(t)
<1>0. /\ ThreadInv(t) /\ EventTypes /\ CallTypes /\ Locals(t) /\ Lasting(t) /\ pc[t] = "link"
      /\ UNCHANGED <<ev, core, evt, tp, has, waiting, cb, i, found, early>>
      /\ pc' = [pc EXCEPT ![t] = "inc"] /\ linked' = linked \cup {t} /\ core = "free"
  BY Zenon DEF SelectInv, ThreadInv, lwip_link_select_cb, netVars, Goto
<1>1. i[t] = 1 /\ pc'[t] = "inc" /\ tp = "idle" /\ ~cb[t].signalled /\ cb[t].sem = 0 /\ found[t] = {}
  BY Zenon, <1>0 DEF Locals, CallTypes, EventTypes, Lasting
<1>2. EventTypes' /\ CallTypes' /\ InCall(t)
  BY Zenon, <1>0 DEF EventTypes, CallTypes, InCall, Calling, Listed
<1>3. Locals(t)'
  BY <1>0, <1>1 DEF Locals, Listed, Outside, Doings
<1>4. \A k \in Places(t) : ~(k < 1)
  BY OwnFacts
<1>5. WaitingCount(t)'
  BY Zenon, <1>0, <1>1, <1>4 DEF ThreadInv, WaitingCount, Counted
<1>6. Checked(t)' /\ Watched(t)'
  BY Zenon, <1>0, <1>1, <1>4 DEF Checked, Watched, Passed
<1>7. Lasting(t)'
  BY Zenon, <1>0, <1>1 DEF Lasting
<1> QED
  BY Zenon, <1>2, <1>3, <1>5, <1>6, <1>7, InCallAlone DEF ThreadInv

\* The wait ends with the semaphore or the timeout.
LEMMA WaitKeeps ==
  ASSUME SelectInv, NEW t \in Threads, Wait(t) \/ Timeout(t)
  PROVE  EventTypes' /\ CallTypes' /\ ThreadInv(t)' /\ Alone(t)
<1>0. /\ ThreadInv(t) /\ EventTypes /\ CallTypes /\ Locals(t) /\ Lasting(t) /\ pc[t] = "wait"
      /\ UNCHANGED <<ev, core, evt, tp, has, waiting, linked, i, found, early>>
      /\ pc' = [pc EXCEPT ![t] = "dec"]
      /\ \/ cb[t].sem = 1 /\ cb' = [cb EXCEPT ![t].sem = 0]
         \/ cb[t].sem = 0 /\ ~cb[t].forever /\ cb' = cb
  BY Zenon DEF SelectInv, ThreadInv, Wait, Timeout, netVars, Goto
<1>1. /\ i[t] = 1 /\ pc'[t] = "dec" /\ found[t] = {}
      /\ (cb[t].signalled <=> cb[t].sem = 1)
  BY Zenon, <1>0 DEF Locals, CallTypes, ThreadInv, Watched
<1>2. /\ cb'[t].poll = cb[t].poll /\ cb'[t].want = cb[t].want /\ cb'[t].forever = cb[t].forever
      /\ cb'[t].signalled = cb[t].signalled /\ cb'[t].sem = 0
      /\ (cb[t].forever => cb[t].signalled)
  BY <1>0, <1>1 DEF CallTypes, Cbs
<1>3. EventTypes' /\ CallTypes' /\ InCall(t)
  <2>1. cb' \in [Threads -> Cbs] /\ \A u \in Threads \ {t} : cb'[u] = cb[u]
    <3>1. cb[t] \in Cbs /\ [cb[t] EXCEPT !.sem = 0] \in Cbs
      BY Zenon, <1>0, CbUpdates DEF CallTypes
    <3>2. cb' = [cb EXCEPT ![t] = [cb[t] EXCEPT !.sem = 0]] \/ cb' = cb
      BY Zenon, <1>0
    <3> QED
      BY Zenon, <1>0, <3>1, <3>2 DEF CallTypes
  <2>2. CallTypes'
    BY Zenon, <1>0, <2>1 DEF CallTypes, Calling, Listed
  <2>3. EventTypes' /\ InCall(t)
    BY Zenon, <1>0, <2>1 DEF CallTypes, EventTypes, InCall
  <2> QED
    BY Zenon, <2>2, <2>3
<1>4. Locals(t)'
  BY Zenon, <1>0, <1>1 DEF Locals, Listed, Outside, Doings
<1>5. \A k \in Places(t) : k >= 1
  BY OwnFacts
<1>6. WaitingCount(t)'
  BY Zenon, <1>0, <1>1, <1>5 DEF ThreadInv, WaitingCount, Counted
<1>7. Checked(t)' /\ Watched(t)'
  BY Zenon, <1>0, <1>1 DEF ThreadInv, Checked, Watched, Passed, Listed, sock, Event
<1>8. \A s : Ready(t, s)' = Ready(t, s)
  BY Zenon, <1>0, <1>2, ReadyStays
<1>9. cb[t].signalled => \E k \in Places(t) : Ready(t, Own[t][k])
  BY Zenon, <1>0 DEF Lasting
<1>10. cb[t].signalled => Coming(t)'
  BY Zenon, <1>0, <1>1, <1>5, <1>8, <1>9 DEF Coming
<1>11. Lasting(t)'
  BY Zenon, <1>0, <1>1, <1>2, <1>8, <1>9, <1>10 DEF Lasting
<1> QED
  BY Zenon, <1>3, <1>4, <1>6, <1>7, <1>11, InCallAlone DEF ThreadInv

\* The scan after counting in: a socket that is ready is found, or its waiters are just
\* being looked for.
LEMMA SecondScan ==
  ASSUME CallTypes, NEW t \in Threads, ThreadInv(t), pc[t] = "rescan" \/ (pc[t] = "inc" /\ cb[t].poll),
         Scan(t), Loop(t, IF Scanned(t) # {} THEN "dec" ELSE "wait"),
         UNCHANGED <<ev, evt, tp, has, cb>>
  PROVE  Checked(t)' /\ Watched(t)' /\ Lasting(t)'
<1> DEFINE next == IF Scanned(t) # {} THEN "dec" ELSE "wait"
<1>1. /\ Locals(t) /\ Checked(t) /\ Watched(t) /\ Lasting(t) /\ pc[t] \in Calling /\ found'[t] = Scanned(t)
      /\ next \in {"idle"} \cup Calling /\ Loop(t, next)
  BY Zenon DEF ThreadInv, Calling, Listed, Scan, CallTypes
<1>2. next \in {"dec", "wait"} /\ (next = "dec" <=> Scanned(t) # {})
  BY Zenon
<1> HIDE DEF next
<1>3. \/ LastOf(t) /\ i'[t] = 1 /\ pc'[t] = next /\ \A k \in Places(t) : k <= i[t]
      \/ ~LastOf(t) /\ i'[t] = i[t] + 1 /\ pc'[t] = pc[t]
  BY Zenon, <1>1, LoopFacts
<1>4. \A s : Ready(t, s)' = Ready(t, s)
  BY Zenon, ReadyStays
<1>5. Checked(t)'
  BY Zenon, <1>1, <1>2, <1>3 DEF Checked, Listed, sock, Event
<1>6. found[t] \subseteq Scanned(t) /\ (Ready(t, Cur(t)) => Scanned(t) # {})
      /\ \A s \in Scanned(t) : s \in OwnSet(t) /\ Ready(t, s)
  BY Zenon, <1>1, ScanFacts
<1>7. \A k \in Places(t) : k \in Int /\ i[t] \in Int /\ (k = i[t] => Own[t][k] = Cur(t))
  BY SMTT(20), <1>1, OwnFacts DEF Locals, Cur
<1>8. Watched(t)'
  <2>1. pc'[t] = "wait" => found'[t] = {}
    BY Zenon, <1>1, <1>2, <1>3
  <2>2. ASSUME NEW k \in Places(t), Passed(t, k)', found'[t] = {}, cb[t].sem = 0, Ready(t, Own[t][k])
        PROVE  tp = "check" /\ sock = Own[t][k]
    <3>1. k <= i[t]
      BY SMTT(20), <1>2, <1>3, <1>7, <2>2 DEF Passed
    <3>2. k # i[t]
      BY Zenon, <1>1, <1>6, <1>7, <2>2
    <3>3. Passed(t, k) /\ found[t] = {}
      BY SMTT(20), <1>1, <1>6, <1>7, <2>2, <3>1, <3>2 DEF Passed
    <3> QED
      BY Zenon, <1>1, <2>2, <3>3 DEF Watched
  <2> QED
    BY Zenon, <1>4, <2>1, <2>2 DEF Watched, sock, Event
<1>9. Lasting(t)'
  <2>1. \A s \in found'[t] : s \in OwnSet(t) /\ Ready(t, s)'
    BY Zenon, <1>1, <1>4, <1>6
  <2>2. ASSUME pc'[t] = "dec" PROVE found'[t] # {} /\ Coming(t)'
    <3>1. Scanned(t) # {}
      BY Zenon, <1>1, <1>2, <1>3, <2>2
    <3>2. PICK s \in Scanned(t) : s \in OwnSet(t) /\ Ready(t, s)'
      BY Zenon, <1>1, <2>1, <3>1
    <3>3. PICK k \in Places(t) : s = Own[t][k]
      BY Zenon, <3>2, OwnFacts
    <3> QED
      BY Zenon, <1>1, <3>1, <3>2, <3>3 DEF Coming
  <2>3. cb[t].signalled => \E k \in Places(t) : Ready(t, Own[t][k])'
    BY Zenon, <1>1, <1>4 DEF Lasting
  <2>4. pc'[t] \in {"inc", "rescan", "wait", "dec"} /\ (pc'[t] = "rescan" => ~cb[t].poll)
    BY Zenon, <1>1, <1>2, <1>3 DEF Lasting
  <2> QED
    BY Zenon, <2>1, <2>2, <2>3, <2>4 DEF Lasting
<1> QED
  BY Zenon, <1>5, <1>8, <1>9

\* select_waiting of the current socket, and of no other, is changed.
LEMMA WaitingFacts ==
  ASSUME EventTypes, NEW t \in Threads, Locals(t), waiting'[Cur(t)] \in Int,
         waiting' = [waiting EXCEPT ![Cur(t)] = waiting'[Cur(t)]]
  PROVE  /\ waiting' \in [Sockets -> Int]
         /\ \A k \in Places(t) : waiting'[Own[t][k]] = IF k = i[t] THEN waiting'[Cur(t)] ELSE waiting[Own[t][k]]
         /\ \A u \in Threads \ {t} : \A s \in OwnSet(u) : waiting'[s] = waiting[s]
<1>1. i[t] \in Places(t) /\ Cur(t) = Own[t][i[t]] /\ Cur(t) \in OwnSet(t) /\ Cur(t) \in Sockets
  BY Zenon, OwnFacts DEF Locals, Cur
<1>2. \A k \in Places(t) : Own[t][k] \in Sockets /\ (Own[t][k] = Cur(t) => k = i[t])
  BY <1>1, OwnFacts
<1>3. \A u \in Threads \ {t} : \A s \in OwnSet(u) : s # Cur(t) /\ s \in Sockets
  BY Zenon, <1>1, OthersSockets
<1> QED
  BY <1>1, <1>2, <1>3 DEF EventTypes

\* A call counts itself in.
LEMMA IncKeeps ==
  ASSUME SelectInv, NEW t \in Threads, Inc(t)
  PROVE  EventTypes' /\ CallTypes' /\ ThreadInv(t)' /\ Alone(t)
<1>0. /\ ThreadInv(t) /\ EventTypes /\ CallTypes /\ Locals(t) /\ pc[t] = "inc" /\ pc[t] \in Calling
      /\ UNCHANGED <<ev, core, evt, tp, has, linked, cb, early>>
      /\ waiting' = [waiting EXCEPT ![Cur(t)] = waiting[Cur(t)] + 1]
  BY Zenon DEF SelectInv, ThreadInv, Inc, netVars, Calling, Listed
<1>1. /\ i[t] \in Places(t) /\ Cur(t) = Own[t][i[t]] /\ waiting[Cur(t)] = 0
      /\ \A k \in Places(t) : k \in Int
  <2>1. i[t] \in Places(t) /\ Cur(t) = Own[t][i[t]] /\ \A k \in Places(t) : k \in Int
    BY Zenon, <1>0, CurFacts, PlaceFacts
  <2>2. ~(i[t] < i[t])
    BY <2>1
  <2>3. ~Counted(t, i[t])
    BY Zenon, <1>0, <2>2 DEF Counted
  <2> QED
    BY Zenon, <1>0, <2>1, <2>3 DEF ThreadInv, WaitingCount
<1>2. /\ waiting' \in [Sockets -> Int]
      /\ \A k \in Places(t) : waiting'[Own[t][k]] = IF k = i[t] THEN 1 ELSE waiting[Own[t][k]]
      /\ \A u \in Threads \ {t} : \A s \in OwnSet(u) : waiting'[s] = waiting[s]
  <2>1. Cur(t) \in Sockets /\ waiting \in [Sockets -> Int]
    BY Zenon, <1>0, CurFacts DEF EventTypes
  <2>2. waiting'[Cur(t)] = waiting[Cur(t)] + 1
    BY Zenon, <1>0, <2>1
  <2>3. waiting'[Cur(t)] = 1 /\ waiting'[Cur(t)] \in Int
    BY <1>1, <2>2
  <2>4. waiting' = [waiting EXCEPT ![Cur(t)] = waiting'[Cur(t)]]
    BY Zenon, <1>0, <2>2
  <2>5. \A k \in Places(t) : waiting'[Own[t][k]] = IF k = i[t] THEN waiting'[Cur(t)] ELSE waiting[Own[t][k]]
    BY Zenon, <1>0, <2>3, <2>4, WaitingFacts
  <2>6. /\ waiting' \in [Sockets -> Int]
        /\ \A u \in Threads \ {t} : \A s \in OwnSet(u) : waiting'[s] = waiting[s]
    BY Zenon, <1>0, <2>3, <2>4, WaitingFacts
  <2> QED
    BY Zenon, <2>3, <2>5, <2>6
<1>3. PICK next \in {"dec", "wait", "rescan"} : Loop(t, next)
  BY Zenon DEF Inc
<1>4. /\ \A u \in Threads \ {t} : pc'[u] = pc[u] /\ i'[u] = i[u]
      /\ i' \in [Threads -> Int] /\ i'[t] \in Places(t)
      /\ pc' \in [Threads -> Outside \cup Calling]
      /\ \/ i'[t] = 1 /\ pc'[t] = next /\ \A k \in Places(t) : k <= i[t]
         \/ i'[t] = i[t] + 1 /\ pc'[t] = pc[t]
  <2>1. next \in {"idle"} \cup Calling
    BY Zenon DEF Calling, Listed
  <2> QED
    BY Zenon, <1>0, <1>3, <2>1, LoopFacts
<1>5. found' \in [Threads -> SUBSET Sockets] /\ \A u \in Threads \ {t} : found'[u] = found[u]
  <2>1. Scanned(t) \subseteq Sockets
    BY Zenon, <1>0, ScanFacts DEF ThreadInv
  <2>2. found' = found \/ found' = [found EXCEPT ![t] = Scanned(t)]
    BY Zenon DEF Inc, Scan
  <2> QED
    BY Zenon, <1>0, <2>1, <2>2 DEF CallTypes
<1>6. EventTypes' /\ CallTypes' /\ InCall(t)
  BY Zenon, <1>0, <1>2, <1>4, <1>5 DEF EventTypes, CallTypes, InCall
<1>7. Locals(t)'
  BY Zenon, <1>0, <1>4 DEF Locals, Listed, Outside, Doings
<1>8. WaitingCount(t)'
  <2> SUFFICES ASSUME NEW k \in Places(t)
               PROVE  (waiting[Own[t][k]] = IF Counted(t, k) THEN 1 ELSE 0)'
    BY Zenon DEF WaitingCount
  <2>1. waiting[Own[t][k]] = IF k < i[t] THEN 1 ELSE 0
    BY Zenon, <1>0 DEF ThreadInv, WaitingCount, Counted
  <2>2. waiting'[Own[t][k]] = IF k <= i[t] THEN 1 ELSE 0
    BY SMTT(20), <1>1, <1>2, <2>1
  <2>3. Counted(t, k)' <=> k <= i[t]
    <3>1. k \in Int /\ k >= 1 /\ i[t] \in Int
      BY <1>1, OwnFacts
    <3> QED
      BY <1>0, <1>3, <1>4, <3>1 DEF Counted
  <2> QED
    BY Zenon, <2>2, <2>3
<1>9. Checked(t)' /\ Watched(t)' /\ Lasting(t)'
  <2>1. CASE cb[t].poll
    BY Zenon, <1>0, <2>1, SecondScan DEF Inc
  <2>2. CASE ~cb[t].poll
    <3>1. found' = found /\ Loop(t, "rescan")
      BY Zenon, <2>2 DEF Inc
    <3>2. pc'[t] = "inc" \/ (pc'[t] = "rescan" /\ i'[t] = 1)
      <4>1. "rescan" \in {"idle"} \cup Calling
        BY Zenon DEF Calling, Listed
      <4> QED
        BY Zenon, <1>0, <3>1, <4>1, LoopFacts
    <3>3. \A k \in Places(t) : ~(k < 1)
      BY OwnFacts
    <3>4. Checked(t)' /\ Watched(t)'
      BY Zenon, <1>0, <2>2, <3>1, <3>2, <3>3 DEF ThreadInv, Checked, Watched, Passed, Listed, sock, Event
    <3>5. \A s : Ready(t, s)' = Ready(t, s)
      BY Zenon, <1>0, ReadyStays
    <3>6. Lasting(t)'
      BY Zenon, <1>0, <2>2, <3>1, <3>2, <3>5 DEF ThreadInv, Lasting
    <3> QED
      BY Zenon, <3>4, <3>6
  <2> QED
    BY Zenon, <2>1, <2>2
<1> QED
  BY Zenon, <1>6, <1>7, <1>8, <1>9, InCallAlone DEF ThreadInv

\* lwip_select scans again.
LEMMA RescanKeeps ==
  ASSUME SelectInv, NEW t \in Threads, Rescan(t)
  PROVE  EventTypes' /\ CallTypes' /\ ThreadInv(t)' /\ Alone(t)
<1>0. /\ ThreadInv(t) /\ EventTypes /\ CallTypes /\ Locals(t) /\ pc[t] = "rescan" /\ pc[t] \in Calling
      /\ UNCHANGED <<ev, core, evt, tp, has, waiting, linked, cb, early>>
      /\ found' = [found EXCEPT ![t] = Scanned(t)]
  BY Zenon DEF SelectInv, ThreadInv, Rescan, Scan, netVars, Calling, Listed
<1>1. PICK next \in {"dec", "wait"} : Loop(t, next)
  BY Zenon DEF Rescan
<1>2. /\ \A u \in Threads \ {t} : pc'[u] = pc[u] /\ i'[u] = i[u]
      /\ i' \in [Threads -> Int] /\ i'[t] \in Places(t)
      /\ pc' \in [Threads -> Outside \cup Calling]
      /\ \/ i'[t] = 1 /\ pc'[t] = next
         \/ pc'[t] = "rescan"
  <2>1. next \in {"idle"} \cup Calling
    BY Zenon DEF Calling, Listed
  <2> QED
    BY Zenon, <1>0, <1>1, <2>1, LoopFacts
<1>3. EventTypes' /\ CallTypes' /\ InCall(t)
  BY Zenon, <1>0, <1>2, ScanFacts DEF ThreadInv, EventTypes, CallTypes, InCall
<1>4. Locals(t)'
  BY Zenon, <1>0, <1>2 DEF Locals, Listed, Outside, Doings
<1>5. \A k \in Places(t) : k >= 1
  BY OwnFacts
<1>6. WaitingCount(t)'
  BY Zenon, <1>0, <1>2, <1>5 DEF ThreadInv, WaitingCount, Counted
<1>7. Checked(t)' /\ Watched(t)' /\ Lasting(t)'
  BY Zenon, <1>0, SecondScan DEF Rescan
<1> QED
  BY Zenon, <1>3, <1>4, <1>6, <1>7, InCallAlone DEF ThreadInv

\* A call counts itself out; lwip_poll scans once more.
LEMMA DecKeeps ==
  ASSUME SelectInv, NEW t \in Threads, Dec(t)
  PROVE  EventTypes' /\ CallTypes' /\ ThreadInv(t)' /\ Alone(t)
<1>0. /\ ThreadInv(t) /\ EventTypes /\ CallTypes /\ Locals(t) /\ Lasting(t)
      /\ pc[t] = "dec" /\ pc[t] \in Calling /\ Loop(t, "unlink")
      /\ UNCHANGED <<ev, core, evt, tp, has, linked, cb, early>>
      /\ waiting' = [waiting EXCEPT ![Cur(t)] = waiting[Cur(t)] - 1]
      /\ found' = [found EXCEPT ![t] = IF cb[t].poll THEN Scanned(t) ELSE found[t]]
  <2>1. found \in [Threads -> SUBSET Sockets]
    BY Zenon DEF SelectInv, CallTypes
  <2>2. found' = [found EXCEPT ![t] = IF cb[t].poll THEN Scanned(t) ELSE found[t]]
    BY Zenon, <2>1 DEF Dec, Scan
  <2> QED
    BY Zenon, <2>2 DEF SelectInv, ThreadInv, Dec, netVars, Calling, Listed
<1>1. /\ i[t] \in Places(t) /\ Cur(t) = Own[t][i[t]] /\ waiting[Cur(t)] = 1
      /\ \A k \in Places(t) : k \in Int /\ k >= 1
  <2>1. i[t] \in Places(t) /\ Cur(t) = Own[t][i[t]] /\ \A k \in Places(t) : k \in Int /\ k >= 1
    BY Zenon, <1>0, CurFacts, PlaceFacts
  <2>2. i[t] >= i[t]
    BY <2>1
  <2>3. Counted(t, i[t])
    BY Zenon, <1>0, <2>2 DEF Counted
  <2> QED
    BY Zenon, <1>0, <2>1, <2>3 DEF ThreadInv, WaitingCount
<1>2. /\ waiting' \in [Sockets -> Int]
      /\ \A k \in Places(t) : waiting'[Own[t][k]] = IF k = i[t] THEN 0 ELSE waiting[Own[t][k]]
      /\ \A u \in Threads \ {t} : \A s \in OwnSet(u) : waiting'[s] = waiting[s]
  <2>1. Cur(t) \in Sockets /\ waiting \in [Sockets -> Int]
    BY Zenon, <1>0, CurFacts DEF EventTypes
  <2>2. waiting'[Cur(t)] = waiting[Cur(t)] - 1
    BY Zenon, <1>0, <2>1
  <2>3. waiting'[Cur(t)] = 0 /\ waiting'[Cur(t)] \in Int
    BY <1>1, <2>2
  <2>4. waiting' = [waiting EXCEPT ![Cur(t)] = waiting'[Cur(t)]]
    BY Zenon, <1>0, <2>2
  <2>5. \A k \in Places(t) : waiting'[Own[t][k]] = IF k = i[t] THEN waiting'[Cur(t)] ELSE waiting[Own[t][k]]
    BY Zenon, <1>0, <2>3, <2>4, WaitingFacts
  <2>6. /\ waiting' \in [Sockets -> Int]
        /\ \A u \in Threads \ {t} : \A s \in OwnSet(u) : waiting'[s] = waiting[s]
    BY Zenon, <1>0, <2>3, <2>4, WaitingFacts
  <2> QED
    BY Zenon, <2>3, <2>5, <2>6
<1>3. /\ \A u \in Threads \ {t} : pc'[u] = pc[u] /\ i'[u] = i[u]
      /\ i' \in [Threads -> Int] /\ i'[t] \in Places(t)
      /\ pc' \in [Threads -> Outside \cup Calling]
      /\ \/ i'[t] = 1 /\ pc'[t] = "unlink" /\ \A k \in Places(t) : k <= i[t]
         \/ i'[t] = i[t] + 1 /\ pc'[t] = "dec"
  <2>1. "unlink" \in {"idle"} \cup Calling
    BY Zenon DEF Calling, Listed
  <2> QED
    BY Zenon, <1>0, <2>1, LoopFacts
<1>4. /\ Scanned(t) \subseteq Sockets /\ found[t] \subseteq Scanned(t)
      /\ (Ready(t, Cur(t)) => Cur(t) \in Scanned(t))
      /\ \A s \in Scanned(t) : s \in OwnSet(t) /\ Ready(t, s)
  BY Zenon, <1>0, ScanFacts
<1>5. EventTypes' /\ CallTypes' /\ InCall(t)
  BY Zenon, <1>0, <1>2, <1>3, <1>4 DEF EventTypes, CallTypes, InCall
<1>6. Locals(t)'
  BY Zenon, <1>0, <1>3 DEF Locals, Listed, Outside, Doings
<1>7. WaitingCount(t)'
  <2> SUFFICES ASSUME NEW k \in Places(t)
               PROVE  (waiting[Own[t][k]] = IF Counted(t, k) THEN 1 ELSE 0)'
    BY Zenon DEF WaitingCount
  <2>1. waiting[Own[t][k]] = IF k >= i[t] THEN 1 ELSE 0
    BY Zenon, <1>0 DEF ThreadInv, WaitingCount, Counted
  <2>2. waiting'[Own[t][k]] = IF k > i[t] THEN 1 ELSE 0
    BY SMTT(20), <1>1, <1>2, <2>1
  <2>3. Counted(t, k)' <=> k > i[t]
    BY <1>0, <1>1, <1>3 DEF Counted
  <2> QED
    BY Zenon, <2>2, <2>3
<1>8. Checked(t)' /\ Watched(t)'
  BY Zenon, <1>0, <1>3 DEF ThreadInv, Checked, Watched, Passed, Listed, sock, Event
<1>9. \A s : Ready(t, s)' = Ready(t, s)
  BY Zenon, <1>0, ReadyStays
<1>10. /\ found[t] \subseteq found'[t]
       /\ \A s \in found'[t] : s \in OwnSet(t) /\ Ready(t, s)'
  BY Zenon, <1>0, <1>4, <1>9 DEF CallTypes, Lasting
<1>11. ASSUME cb[t].forever, cb[t].poll
       PROVE  (pc'[t] = "dec" => Coming(t)') /\ (pc'[t] = "unlink" => found'[t] # {})
  <2>1. PICK k \in Places(t) : Ready(t, Own[t][k]) /\ (Own[t][k] \in found[t] \/ k >= i[t])
    BY Zenon, <1>0, <1>11 DEF Lasting, Coming
  <2>2. found'[t] = Scanned(t)
    BY Zenon, <1>0, <1>11 DEF CallTypes
  <2>3. k = i[t] => Own[t][k] \in found'[t]
    BY Zenon, <1>1, <1>4, <2>1, <2>2
  <2>4. Own[t][k] \in found'[t] \/ k > i[t]
    BY <1>1, <1>10, <2>1, <2>3
  <2> QED
    BY <1>1, <1>3, <1>9, <2>1, <2>4 DEF Coming
<1>12. Lasting(t)'
  <2>1. cb[t].signalled => \E k \in Places(t) : Ready(t, Own[t][k])'
    BY Zenon, <1>0, <1>9 DEF Lasting
  <2>2. cb[t].forever /\ found'[t] = {} => cb[t].signalled /\ cb[t].sem = 0
    BY Zenon, <1>0, <1>10 DEF Lasting
  <2> QED
    BY Zenon, <1>0, <1>3, <1>10, <1>11, <2>1, <2>2 DEF Lasting
<1> QED
  BY Zenon, <1>5, <1>6, <1>7, <1>8, <1>12, InCallAlone DEF ThreadInv

\* The call leaves the list; a select that was woken or found something scans a last time.
LEMMA UnlinkKeeps ==
  ASSUME SelectInv, NEW t \in Threads, lwip_unlink_select_cb(t)
  PROVE  EventTypes' /\ CallTypes' /\ ThreadInv(t)' /\ Alone(t)
<1>0. /\ ThreadInv(t) /\ EventTypes /\ CallTypes /\ Locals(t) /\ Lasting(t) /\ WaitingCount(t)
      /\ pc[t] = "unlink" /\ linked' = linked \ {t} /\ i[t] = 1
      /\ UNCHANGED <<ev, core, evt, tp, has, waiting, i, early>> /\ core = "free"
  BY Zenon DEF SelectInv, ThreadInv, Locals, lwip_unlink_select_cb, netVars
<1>1. tp = "idle"
  BY Zenon, <1>0 DEF EventTypes
<1>2. \A k \in Places(t) : waiting[Own[t][k]] = 0 /\ k >= 1
  BY <1>0, OwnFacts DEF WaitingCount, Counted
<1>3. CASE ~cb[t].poll /\ (found[t] # {} \/ (cb[t].signalled /\ cb[t].sem = 0))
  <2>1. pc' = [pc EXCEPT ![t] = "last"] /\ found' = [found EXCEPT ![t] = {}] /\ cb' = cb
    BY Zenon, <1>3 DEF lwip_unlink_select_cb, Goto
  <2>2. EventTypes' /\ CallTypes' /\ InCall(t)
    BY Zenon, <1>0, <2>1 DEF EventTypes, CallTypes, InCall, Calling
  <2>3. Locals(t)'
    BY Zenon, <1>0, <2>1 DEF Locals, Listed, CallTypes, Outside, Doings
  <2>4. WaitingCount(t)' /\ Checked(t)' /\ Watched(t)'
    BY Zenon, <1>0, <1>1, <1>2, <2>1 DEF WaitingCount, Counted, Checked, Watched, Passed, CallTypes
  <2>5. \A s : Ready(t, s)' = Ready(t, s)
    BY Zenon, <1>0, <2>1, ReadyStays
  <2>6. \E k \in Places(t) : Ready(t, Own[t][k])
    <3>1. CASE found[t] # {}
      <4>1. PICK s \in found[t] : s \in OwnSet(t) /\ Ready(t, s)
        BY Zenon, <1>0, <3>1 DEF Lasting, Calling, Listed
      <4> QED
        BY <4>1, OwnFacts
    <3>2. CASE cb[t].signalled
      BY Zenon, <1>0, <3>2 DEF Lasting
    <3> QED
      BY Zenon, <1>3, <3>1, <3>2
  <2>7. Coming(t)'
    BY Zenon, <1>0, <1>2, <2>5, <2>6 DEF Coming
  <2>8. pc'[t] = "last" /\ found'[t] = {}
    BY Zenon, <1>0, <2>1 DEF CallTypes
  <2>9. Lasting(t)'
    BY Zenon, <2>7, <2>8 DEF Lasting
  <2> QED
    BY Zenon, <2>2, <2>3, <2>4, <2>9, InCallAlone DEF ThreadInv
<1>4. CASE ~(~cb[t].poll /\ (found[t] # {} \/ (cb[t].signalled /\ cb[t].sem = 0)))
  <2>1. pc' = [pc EXCEPT ![t] = "idle"] /\ found' = found /\ cb' = [cb EXCEPT ![t] = NoCall]
    BY Zenon, <1>4 DEF lwip_unlink_select_cb, Goto, Returns
  <2>2. EventTypes' /\ CallTypes' /\ InCall(t)
    BY Zenon, <1>0, <2>1, NoCallType DEF EventTypes, CallTypes, InCall, Outside, Doings
  <2>3. pc'[t] = "idle" /\ cb'[t] = NoCall
    BY Zenon, <1>0, <2>1 DEF CallTypes
  <2>4. Locals(t)'
    BY Zenon, <1>0, <2>3 DEF Locals, Listed, Outside, Doings
  <2>5. WaitingCount(t)' /\ Checked(t)' /\ Watched(t)'
    BY Zenon, <1>0, <1>1, <1>2, <2>3 DEF WaitingCount, Counted, Checked, Watched, Passed
  <2>6. Lasting(t)'
    BY Zenon, <2>3 DEF Lasting, Calling, Listed
  <2> QED
    BY Zenon, <2>2, <2>4, <2>5, <2>6, InCallAlone DEF ThreadInv
<1> QED
  BY Zenon, <1>3, <1>4

\* The last scan of lwip_select, which returns what it finds.
LEMMA LastScanKeeps ==
  ASSUME SelectInv, NEW t \in Threads, LastScan(t)
  PROVE  EventTypes' /\ CallTypes' /\ ThreadInv(t)' /\ Alone(t)
<1>0. /\ ThreadInv(t) /\ EventTypes /\ CallTypes /\ Locals(t) /\ Lasting(t) /\ WaitingCount(t)
      /\ pc[t] = "last" /\ pc[t] \in Calling /\ Loop(t, "idle")
      /\ UNCHANGED <<ev, core, evt, tp, has, waiting, linked, early>>
      /\ found' = [found EXCEPT ![t] = Scanned(t)]
      /\ IF LastOf(t) THEN Returns(t) ELSE UNCHANGED cb
  BY Zenon DEF SelectInv, ThreadInv, LastScan, netVars, Scan, Calling
<1>1. /\ i[t] \in Places(t) /\ Cur(t) = Own[t][i[t]] /\ \A k \in Places(t) : k \in Int
      /\ \A k \in Places(t) : waiting[Own[t][k]] = 0
  <2>1. \A k \in Places(t) : waiting[Own[t][k]] = 0
    BY Zenon, <1>0 DEF WaitingCount, Counted
  <2> QED
    BY Zenon, <1>0, <2>1, CurFacts, PlaceFacts
<1>2. /\ \A u \in Threads \ {t} : pc'[u] = pc[u] /\ i'[u] = i[u]
      /\ i' \in [Threads -> Int] /\ i'[t] \in Places(t)
      /\ pc' \in [Threads -> Outside \cup Calling]
      /\ \/ LastOf(t) /\ i'[t] = 1 /\ pc'[t] = "idle"
         \/ ~LastOf(t) /\ i'[t] = i[t] + 1 /\ pc'[t] = "last"
  <2>1. "idle" \in {"idle"} \cup Calling
    BY Zenon
  <2> QED
    BY Zenon, <1>0, <2>1, LoopFacts
<1>3. /\ Scanned(t) \subseteq Sockets /\ found[t] \subseteq Scanned(t)
      /\ (Ready(t, Cur(t)) => Cur(t) \in Scanned(t))
      /\ \A s \in Scanned(t) : s \in OwnSet(t) /\ Ready(t, s)
  BY Zenon, <1>0, ScanFacts
<1>4. cb' \in [Threads -> Cbs] /\ \A u \in Threads \ {t} : cb'[u] = cb[u]
  BY Zenon, <1>0, NoCallType DEF CallTypes, Returns
<1>5. EventTypes' /\ CallTypes' /\ InCall(t)
  BY Zenon, <1>0, <1>2, <1>3, <1>4 DEF EventTypes, CallTypes, InCall
<1>6. ~(tp = "check" /\ sock \in OwnSet(t))
  BY Zenon, <1>0 DEF ThreadInv, Checked, Listed
<1>7. WaitingCount(t)' /\ Checked(t)' /\ Watched(t)'
  BY Zenon, <1>0, <1>1, <1>2, <1>6 DEF WaitingCount, Counted, Checked, Watched, Passed, sock, Event
<1>8. CASE LastOf(t)
  <2>1. pc'[t] = "idle" /\ cb'[t] = NoCall /\ i'[t] = 1
    BY Zenon, <1>0, <1>2, <1>8 DEF CallTypes, Returns
  <2>2. Locals(t)'
    BY Zenon, <1>0, <1>2, <2>1 DEF Locals, Listed, Outside, Doings
  <2>3. Lasting(t)'
    BY Zenon, <2>1 DEF Lasting, Calling, Listed
  <2> QED
    BY Zenon, <1>5, <1>7, <2>2, <2>3, InCallAlone DEF ThreadInv
<1>9. CASE ~LastOf(t)
  <2>1. pc'[t] = "last" /\ cb' = cb /\ i'[t] = i[t] + 1 /\ found'[t] = Scanned(t)
    BY Zenon, <1>0, <1>2, <1>9 DEF CallTypes
  <2>2. Locals(t)'
    BY Zenon, <1>0, <1>2, <2>1 DEF Locals, Listed, Outside, Doings
  <2>3. \A s : Ready(t, s)' = Ready(t, s)
    BY Zenon, <1>0, <2>1, ReadyStays
  <2>4. ASSUME cb[t].forever PROVE Coming(t)'
    <3>1. PICK k \in Places(t) : Ready(t, Own[t][k]) /\ (Own[t][k] \in found[t] \/ k >= i[t])
      BY Zenon, <1>0, <2>4 DEF Lasting, Coming
    <3>2. Own[t][k] \in found'[t] \/ k >= i'[t]
      BY <1>1, <1>3, <2>1, <3>1
    <3> QED
      BY Zenon, <2>3, <3>1, <3>2 DEF Coming
  <2>5. \A s \in found'[t] : s \in OwnSet(t) /\ Ready(t, s)'
    BY Zenon, <1>3, <2>1, <2>3
  <2>6. Lasting(t)'
    BY Zenon, <2>1, <2>4, <2>5 DEF Lasting
  <2> QED
    BY Zenon, <1>5, <1>7, <2>2, <2>6, InCallAlone DEF ThreadInv
<1> QED
  BY Zenon, <1>8, <1>9
-------------------------------------------------------------------------------
(***************************************************************************)
(* Steps of the tcpip thread                                                *)
(***************************************************************************)
\* The threads do not move, nor do their calls.
Still == UNCHANGED <<waiting, linked, pc, i, found, early>>

\* Steps that count nothing are no concern of the threads.
LEMMA UncountedKeeps ==
  ASSUME SelectInv, Still, ev' = ev, cb' = cb, tp # "check", tp' # "check"
  PROVE  CallTypes' /\ \A t \in Threads : ThreadInv(t)'
<1>1. CallTypes'
  BY Zenon DEF SelectInv, CallTypes, Still
<1>2. SUFFICES ASSUME NEW t \in Threads PROVE ThreadInv(t)'
  BY Zenon, <1>1
<1>3. ThreadInv(t)
  BY Zenon DEF SelectInv
<1>4. \A s : Ready(t, s)' = Ready(t, s)
  BY Zenon DEF Ready
<1>5. Locals(t)' /\ WaitingCount(t)' /\ Checked(t)'
  BY Zenon, <1>3 DEF ThreadInv, Locals, WaitingCount, Counted, Checked, Still
<1>6. Watched(t)'
  BY Zenon, <1>3, <1>4 DEF ThreadInv, Watched, Passed, Still
<1>7. Coming(t)' = Coming(t)
  BY Zenon, <1>4 DEF Coming, Still
<1>8. Lasting(t)'
  BY Zenon, <1>3, <1>4, <1>7 DEF ThreadInv, Lasting, Still
<1> QED
  BY Zenon, <1>5, <1>6, <1>8 DEF ThreadInv

\* The first callback is taken away.
LEMMA EventDoneFacts ==
  ASSUME EventTypes, tp # "idle", EventDone
  PROVE  /\ evt' \in Seq([sock : Sockets, kind : EvtKinds]) /\ tp' \in {"idle", "read"}
         /\ core' = (IF tp' = "idle" THEN "free" ELSE "tcpip")
         /\ tp' = "idle" <=> evt' = <<>>
<1>1. evt \in Seq([sock : Sockets, kind : EvtKinds]) /\ evt # <<>> /\ core = "tcpip"
  BY Zenon DEF EventTypes
<1>2. Tail(evt) \in Seq([sock : Sockets, kind : EvtKinds])
  BY <1>1
<1> QED
  BY Zenon, <1>1, <1>2 DEF EventDone

\* The callback is for a socket, and counts one of the kinds.
LEMMA EventFacts == ASSUME EventTypes, tp # "idle" PROVE sock \in Sockets /\ Event.kind \in EvtKinds
<1>1. evt \in Seq([sock : Sockets, kind : EvtKinds]) /\ evt # <<>>
  BY Zenon DEF EventTypes
<1>2. Head(evt) \in [sock : Sockets, kind : EvtKinds]
  BY Zenon, <1>1, HeadOf
<1> QED
  BY Zenon, <1>2 DEF sock, Event

\* A message, an acknowledgement or an abort comes in.
LEMMA NetworkKeeps == ASSUME SelectInv, Network PROVE SelectInv'
<1>1. PICK s \in Sockets : recv_udp(s) \/ recv_tcp(s) \/ sent_tcp(s) \/ err_tcp(s)
  BY Zenon DEF Network
<1> DEFINE Refused == UNCHANGED <<conn, ev, waiting, linked, cb, core, evt, tp, has, callVars>> /\ core = "free"
           Lists == {<<"recv">>, <<"send">>, <<"error", "recv", "send", "post">>}
<1>2. Refused \/ \E kinds \in Lists : TcpipCalls(s, kinds)
  <2>1. \A kind : Post(s, kind) => TcpipCalls(s, <<"recv">>) \/ Refused
    BY Zenon DEF Post
  <2> QED
    BY Zenon, <1>1, <2>1 DEF recv_udp, recv_tcp, sent_tcp, err_tcp
<1>3. ASSUME NEW kinds \in Lists, TcpipCalls(s, kinds) PROVE SelectInv'
  <2>1. /\ core = "free" /\ core' = "tcpip" /\ tp' = "read" /\ evt' = Signal(s, kinds)
        /\ UNCHANGED <<ev, waiting, linked, cb, has, pc, i, found, early>> /\ EventTypes
    BY Zenon, <1>3 DEF TcpipCalls, callVars, SelectInv
  <2>2. Signal(s, kinds) \in Seq([sock : Sockets, kind : EvtKinds]) /\ Signal(s, kinds) # <<>>
    <3>1. CASE kinds = <<"recv">>
      BY <3>1 DEF Signal, EvtKinds, Kinds
    <3>2. CASE kinds = <<"send">>
      BY <3>2 DEF Signal, EvtKinds, Kinds
    <3>3. CASE kinds = <<"error", "recv", "send", "post">>
      BY <3>3 DEF Signal, EvtKinds, Kinds
    <3> QED
      BY Zenon, <3>1, <3>2, <3>3
  <2>3. EventTypes'
    BY Zenon, <2>1, <2>2 DEF EventTypes
  <2>4. CallTypes' /\ \A t \in Threads : ThreadInv(t)'
    BY Zenon, <2>1, UncountedKeeps DEF EventTypes, Still
  <2> QED
    BY Zenon, <2>3, <2>4 DEF SelectInv
<1>4. CASE Refused
  <2>1. EventTypes /\ UNCHANGED <<ev, waiting, linked, cb, core, evt, tp, has, pc, i, found, early>> /\ core = "free"
    BY Zenon, <1>4 DEF SelectInv, callVars
  <2>2. EventTypes' /\ tp = "idle"
    BY Zenon, <2>1 DEF EventTypes
  <2>3. CallTypes' /\ \A t \in Threads : ThreadInv(t)'
    BY Zenon, <2>1, <2>2, UncountedKeeps DEF Still
  <2> QED
    BY Zenon, <2>2, <2>3 DEF SelectInv
<1> QED
  BY Zenon, <1>2, <1>3, <1>4

\* event_callback looks for the socket of the connection, and counts down when there is
\* none; err_tcp posts its error.
LEMMA ReadKeeps == ASSUME SelectInv, ErrPost \/ EventRead \/ EventRecheck PROVE SelectInv'
<1>1. /\ EventTypes /\ tp \in {"read", "recheck"}
      /\ UNCHANGED <<ev, waiting, linked, cb, has, pc, i, found, early>>
  BY Zenon DEF SelectInv, ErrPost, EventRead, EventRecheck, callVars
<1>2. \/ tp' \in {"recheck", "set"} /\ UNCHANGED <<core, evt>>
      \/ EventDone
  BY Zenon DEF ErrPost, EventRead, EventRecheck
<1>3. EventTypes' /\ tp' # "check"
  <2>1. CASE tp' \in {"recheck", "set"} /\ UNCHANGED <<core, evt>>
    BY Zenon, <1>1, <2>1 DEF EventTypes
  <2>2. CASE EventDone
    BY Zenon, <1>1, <2>2, EventDoneFacts DEF EventTypes
  <2> QED
    BY Zenon, <1>2, <2>1, <2>2
<1>4. CallTypes' /\ \A t \in Threads : ThreadInv(t)'
  BY Zenon, <1>1, <1>3, UncountedKeeps DEF Still
<1> QED
  BY Zenon, <1>3, <1>4 DEF SelectInv

\* What an event makes of a socket: what was ready stays so, and what becomes ready is
\* looked for.
LEMMA AppliedFacts ==
  ASSUME NEW e \in [recv : Int, send : BOOLEAN, err : BOOLEAN], NEW kind \in EvtKinds
  PROVE  LET f == Applied(e, kind)
         IN  /\ f \in [recv : Int, send : BOOLEAN, err : BOOLEAN]
             /\ (e.recv > 0 => f.recv > 0) /\ (e.send => f.send) /\ (e.err => f.err)
             /\ (f.recv > 0 => e.recv > 0 \/ CheckWaiters(e, kind))
             /\ (f.send => e.send \/ CheckWaiters(e, kind))
             /\ (f.err => e.err \/ CheckWaiters(e, kind))
<1>1. CASE kind = "recv"
  <2>1. /\ Applied(e, kind).recv = e.recv + 1 /\ (Applied(e, kind).send <=> e.send)
        /\ (Applied(e, kind).err <=> e.err)
    BY Zenon, <1>1 DEF Applied
  <2>2. Applied(e, kind) \in [recv : Int, send : BOOLEAN, err : BOOLEAN]
    <3> DEFINE r == IF kind = "recv" THEN e.recv + 1 ELSE e.recv
               b == e.send \/ kind = "send"
               c == e.err \/ kind = "error"
    <3>1. Applied(e, kind) = [e EXCEPT !.recv = r, !.send = b, !.err = c]
      BY Zenon DEF Applied
    <3>2. r \in Int /\ b \in BOOLEAN /\ c \in BOOLEAN
      OBVIOUS
    <3> HIDE DEF r, b, c
    <3> QED
      BY Zenon, <3>1, <3>2
  <2>3. e.recv \in Int /\ (CheckWaiters(e, kind) <=> e.recv + 1 <= 1)
    BY Zenon, <1>1 DEF CheckWaiters
  <2> QED
    BY <2>1, <2>2, <2>3
<1>2. CASE kind = "send"
  BY Zenon, <1>2 DEF Applied, CheckWaiters
<1>3. CASE kind = "error"
  BY Zenon, <1>3 DEF Applied, CheckWaiters
<1>4. CASE kind = "post"
  BY Zenon, <1>4 DEF Applied, CheckWaiters
<1> QED
  BY Zenon, <1>1, <1>2, <1>3, <1>4 DEF EvtKinds, Kinds

\* event_callback counts the event, and looks for waiters if somebody may wait for it.
LEMMA EventSetKeeps == ASSUME SelectInv, EventSet PROVE SelectInv'
<1>0. /\ EventTypes /\ CallTypes /\ tp = "set" /\ UNCHANGED <<waiting, linked, cb, pc, i, found, early>>
      /\ ev' = [ev EXCEPT ![sock] = Applied(ev[sock], Event.kind)]
  BY Zenon DEF SelectInv, EventSet, callVars
<1>1. sock \in Sockets /\ Event.kind \in EvtKinds
  BY Zenon, <1>0, EventFacts
<1>2. \/ /\ waiting[sock] > 0 /\ CheckWaiters(ev[sock], Event.kind)
         /\ tp' = "check" /\ has' = Active(ev'[sock]) /\ UNCHANGED <<core, evt>>
      \/ /\ ~(waiting[sock] > 0 /\ CheckWaiters(ev[sock], Event.kind))
         /\ EventDone /\ UNCHANGED has
  BY Zenon DEF EventSet
<1>3. ev[sock] \in [recv : Int, send : BOOLEAN, err : BOOLEAN]
  BY Zenon, <1>0, <1>1 DEF EventTypes
<1>4. /\ ev'[sock] = Applied(ev[sock], Event.kind)
      /\ \A s \in Sockets : s # sock => ev'[s] = ev[s]
  BY Zenon, <1>0, <1>1 DEF EventTypes
<1>5. EventTypes'
  <2>1. ev' \in [Sockets -> [recv : Int, send : BOOLEAN, err : BOOLEAN]]
    <3>1. Applied(ev[sock], Event.kind) \in [recv : Int, send : BOOLEAN, err : BOOLEAN]
      BY Zenon, <1>1, <1>3, AppliedFacts
    <3> QED
      BY Zenon, <1>0, <3>1 DEF EventTypes
  <2>2. CASE tp' = "check" /\ has' = Active(ev'[sock]) /\ UNCHANGED <<core, evt>>
    <3>1. has' \subseteq Kinds
      BY Zenon, <2>2 DEF Active, Kinds
    <3> QED
      BY Zenon, <1>0, <2>1, <2>2, <3>1 DEF EventTypes
  <2>3. CASE EventDone /\ UNCHANGED has
    BY Zenon, <1>0, <2>1, <2>3, EventDoneFacts DEF EventTypes
  <2> QED
    BY Zenon, <1>2, <2>2, <2>3
<1>6. SUFFICES ASSUME NEW t \in Threads PROVE ThreadInv(t)'
  BY Zenon, <1>0, <1>5 DEF SelectInv, CallTypes
<1>7. ThreadInv(t) /\ cb[t] \in Cbs
  BY Zenon, <1>0 DEF SelectInv, CallTypes
<1>8. \A s \in Sockets : Ready(t, s) => Ready(t, s)'
  <2> SUFFICES ASSUME NEW s \in Sockets, s = sock, Ready(t, s) PROVE Ready(t, s)'
    BY Zenon, <1>0, <1>4 DEF Ready
  <2> QED
    BY <1>0, <1>1, <1>3, <1>4, AppliedFacts DEF Ready
<1>9. \A s \in Sockets : Ready(t, s)' => Ready(t, s) \/ (s = sock /\ CheckWaiters(ev[sock], Event.kind))
  <2> SUFFICES ASSUME NEW s \in Sockets, s = sock, Ready(t, s)'
               PROVE  Ready(t, s) \/ CheckWaiters(ev[sock], Event.kind)
    BY Zenon, <1>0, <1>4 DEF Ready
  <2> QED
    BY <1>0, <1>1, <1>3, <1>4, AppliedFacts DEF Ready
<1>10. \A k \in Places(t) : Own[t][k] \in Sockets
  BY Zenon, OwnFacts
<1>11. Locals(t)' /\ WaitingCount(t)'
  BY Zenon, <1>0, <1>7 DEF ThreadInv, Locals, WaitingCount, Counted
<1>12. tp' = "check" => /\ waiting[sock] > 0 /\ has' = Active(ev'[sock]) /\ sock' = sock
  BY Zenon, <1>0, <1>2, EventDoneFacts DEF sock, Event
<1>13. Checked(t)'
  <2> SUFFICES ASSUME tp' = "check", sock \in OwnSet(t)
               PROVE  pc[t] \in Listed
    BY Zenon, <1>0, <1>12 DEF Checked
  <2>1. PICK k \in Places(t) : sock = Own[t][k]
    BY Zenon, OwnFacts
  <2>2. Counted(t, k)
    BY <1>7, <1>12, <2>1 DEF ThreadInv, WaitingCount
  <2> QED
    BY Zenon, <2>2 DEF Counted, Listed
<1>14. Watched(t)'
  <2>1. ASSUME NEW k \in Places(t), Passed(t, k), found[t] = {}, cb[t].sem = 0, Ready(t, Own[t][k])'
        PROVE  (tp = "check" /\ sock = Own[t][k])'
    <3>1. ~Ready(t, Own[t][k])
      BY Zenon, <1>0, <1>7, <2>1 DEF ThreadInv, Watched
    <3>2. Own[t][k] = sock /\ CheckWaiters(ev[sock], Event.kind)
      BY Zenon, <1>9, <1>10, <2>1, <3>1
    <3>3. Counted(t, k)
      BY Zenon, <2>1 DEF Passed, Counted
    <3>4. waiting[sock] > 0
      BY <1>7, <3>2, <3>3 DEF ThreadInv, WaitingCount
    <3> QED
      BY Zenon, <1>2, <1>12, <3>2, <3>4
  <2> QED
    BY Zenon, <1>0, <1>7, <2>1 DEF ThreadInv, Watched, Passed
<1>15. Coming(t) => Coming(t)'
  BY Zenon, <1>0, <1>8, <1>10 DEF Coming
<1>16. Lasting(t)'
  <2>1. \A s \in OwnSet(t) : s \in Sockets
    BY Zenon, OwnFacts
  <2> QED
    BY Zenon, <1>0, <1>7, <1>8, <1>10, <1>15, <2>1 DEF ThreadInv, Lasting
<1> QED
  BY Zenon, <1>11, <1>13, <1>14, <1>16 DEF ThreadInv

\* select_check_waiters wakes the calls that asked for one of the events.
LEMMA CheckKeeps == ASSUME SelectInv, select_check_waiters PROVE SelectInv'
<1>0. /\ EventTypes /\ CallTypes /\ tp = "check" /\ UNCHANGED <<ev, waiting, linked, pc, i, found, early>>
      /\ cb' = Woken(sock, has) /\ has' = {} /\ EventDone
  BY Zenon DEF SelectInv, select_check_waiters, callVars
<1>1. EventTypes' /\ tp' # "check"
  BY Zenon, <1>0, EventDoneFacts DEF EventTypes
<1>2. \A t \in Threads : cb'[t] = IF ShouldWake(t, sock, has) THEN [cb[t] EXCEPT !.signalled = TRUE, !.sem = 1]
                                 ELSE cb[t]
  BY Zenon, <1>0 DEF Woken
<1>3. CallTypes'
  <2>1. \A t \in Threads : cb'[t] \in Cbs
    BY Zenon, <1>0, <1>2, CbUpdates DEF CallTypes
  <2>2. cb' \in [Threads -> Cbs]
    BY Zenon, <1>0, <2>1 DEF Woken
  <2> QED
    BY Zenon, <1>0, <2>2 DEF CallTypes
<1>4. SUFFICES ASSUME NEW t \in Threads PROVE ThreadInv(t)'
  BY Zenon, <1>1, <1>3 DEF SelectInv
<1>5. ThreadInv(t) /\ cb[t] \in Cbs
  BY Zenon, <1>0 DEF SelectInv, CallTypes
<1>6. /\ cb'[t].poll = cb[t].poll /\ cb'[t].want = cb[t].want /\ cb'[t].forever = cb[t].forever
      /\ \/ ShouldWake(t, sock, has) /\ cb'[t].signalled /\ cb'[t].sem = 1
         \/ ~ShouldWake(t, sock, has) /\ cb'[t] = cb[t]
  BY Zenon, <1>2, <1>5 DEF Cbs
<1>7. \A s : Ready(t, s)' = Ready(t, s)
  BY Zenon, <1>0, <1>6, ReadyStays
<1>8. ShouldWake(t, sock, has) => t \in linked /\ ~cb[t].signalled /\ sock \in OwnSet(t)
  BY Zenon DEF ShouldWake
<1>9. t \in linked <=> pc[t] \in Listed
  BY Zenon, <1>5 DEF ThreadInv, Locals
<1>10. Locals(t)'
  BY Zenon, <1>0, <1>5, <1>6, <1>8, <1>9 DEF ThreadInv, Locals, Listed, Outside, Doings
<1>11. WaitingCount(t)' /\ Checked(t)'
  BY Zenon, <1>0, <1>1, <1>5 DEF ThreadInv, WaitingCount, Counted, Checked
<1>12. sock \in OwnSet(t) => /\ pc[t] \in Listed /\ has = Active(ev[sock])
                            /\ (Ready(t, sock) <=> cb[t].want \cap has # {} \/ (cb[t].poll /\ "error" \in has))
  <2> SUFFICES ASSUME sock \in OwnSet(t) PROVE /\ pc[t] \in Listed /\ has = Active(ev[sock])
                            /\ (Ready(t, sock) <=> cb[t].want \cap has # {} \/ (cb[t].poll /\ "error" \in has))
    BY Zenon
  <2>1. pc[t] \in Listed /\ has = Active(ev[sock])
    BY Zenon, <1>0, <1>5 DEF ThreadInv, Checked
  <2>2. /\ has \subseteq Kinds /\ ("recv" \in has <=> ev[sock].recv > 0)
        /\ ("send" \in has <=> ev[sock].send) /\ ("error" \in has <=> ev[sock].err)
    BY Zenon, <2>1 DEF Active, Kinds
  <2> QED
    BY Zenon, <2>1, <2>2 DEF Ready, Kinds
<1>13. Watched(t)'
  <2> SUFFICES ASSUME NEW k \in Places(t), Passed(t, k), found[t] = {}, cb'[t].sem = 0, Ready(t, Own[t][k])
               PROVE  FALSE
    BY Zenon, <1>0, <1>5, <1>6, <1>7 DEF ThreadInv, Watched, Passed
  <2>1. cb[t].sem = 0 /\ ~ShouldWake(t, sock, has)
    BY <1>6
  <2>2. sock = Own[t][k]
    BY Zenon, <1>5, <2>1 DEF ThreadInv, Watched
  <2>3. sock \in OwnSet(t)
    BY Zenon, <2>2, OwnFacts
  <2>4. t \in linked /\ pc[t] \in {"inc", "rescan", "wait"}
    BY Zenon, <1>9, <1>12, <2>3 DEF Passed
  <2>5. ~cb[t].signalled
    BY SMTT(20), <1>5, <2>1, <2>4 DEF ThreadInv, Locals
  <2> QED
    BY Zenon, <1>12, <2>1, <2>2, <2>3, <2>4, <2>5 DEF ShouldWake
<1>14. cb'[t].signalled /\ pc[t] \in {"link", "inc", "rescan", "wait", "dec", "unlink"}
         => \E k \in Places(t) : Ready(t, Own[t][k])
  <2>1. CASE ShouldWake(t, sock, has)
    <3>1. sock \in OwnSet(t) /\ Ready(t, sock)
      BY Zenon, <1>12, <2>1 DEF ShouldWake
    <3> QED
      BY <3>1, OwnFacts
  <2>2. CASE ~ShouldWake(t, sock, has)
    BY Zenon, <1>5, <1>6, <2>2 DEF ThreadInv, Lasting
  <2> QED
    BY Zenon, <2>1, <2>2
<1>15. Coming(t)' = Coming(t)
  BY Zenon, <1>0, <1>7 DEF Coming
<1>16. cb[t].forever /\ pc[t] \in {"dec", "unlink"} /\ found[t] = {} => cb'[t].signalled /\ cb'[t].sem = 0
  BY Zenon, <1>5, <1>6, <1>8 DEF ThreadInv, Lasting
<1>17. Lasting(t)'
  BY Zenon, <1>0, <1>5, <1>6, <1>7, <1>14, <1>15, <1>16 DEF ThreadInv, Lasting
<1> QED
  BY Zenon, <1>10, <1>11, <1>13, <1>17 DEF ThreadInv
-------------------------------------------------------------------------------
(***************************************************************************)
(* Theorems                                                                 *)
(***************************************************************************)
\* conn->socket is a number.
ConnType == conn \in [Sockets -> Int]
LEMMA ConnTypeInvariant == Spec => []ConnType
<1>1. Init => ConnType
  BY DEF Init, ConnType
<1>2. ConnType /\ [Next]_vars => ConnType'
  <2> SUFFICES ASSUME ConnType, [Next]_vars PROVE ConnType'
    BY Zenon
  <2>1. \/ conn' = conn
        \/ \E s \in Sockets : conn' = [conn EXCEPT ![s] = 0]
        \/ EventRecheck
    <3>1. CASE Network \/ (EventStep /\ ~EventRecheck) \/ UNCHANGED vars
      BY Zenon, <3>1 DEF Network, recv_udp, recv_tcp, Post, sent_tcp, err_tcp, TcpipCalls, vars, EventStep, ErrPost,
                         EventRead, EventSet, select_check_waiters
    <3>2. ASSUME NEW t \in Threads, Step(t) \/ Lock(t) \/ Call(t) PROVE conn' = conn
      BY Zenon, <3>2 DEF Step, Lock, Call, AcceptReplay, RecvMinus, RecvMore, RecvFin, ShutRead, FirstScan, Inc, Rescan,
                         Wait, Timeout, Dec, LastScan, lwip_link_select_cb, lwip_unlink_select_cb, netVars, recvVars
    <3>3. ASSUME NEW t \in Threads, NEW s \in OwnSet(t), lwip_accept(t, s) \/ lwip_recv(t, s) \/ WriteFull(t, s)
          PROVE  conn' = conn \/ (s \in Sockets /\ conn' = [conn EXCEPT ![s] = 0])
      BY Zenon, <3>3, OwnFacts DEF lwip_accept, lwip_recv, WriteFull, netVars, recvVars
    <3> QED
      BY Zenon, <3>1, <3>2, <3>3 DEF Next, Application
  <2>2. CASE EventRecheck
    BY <2>2 DEF EventRecheck, ConnType
  <2> QED
    BY <2>1, <2>2 DEF ConnType
<1> QED
  BY <1>1, <1>2, PTL DEF Spec

\* A step of one thread keeps all that holds of it, and leaves the others alone.
LEMMA ThreadAlone ==
  ASSUME SelectInv, ConnType, NEW t \in Threads, Step(t) \/ Lock(t) \/ Application(t)
  PROVE  EventTypes' /\ CallTypes' /\ ThreadInv(t)' /\ Alone(t)
<1>1. CASE Step(t)
  BY Zenon, <1>1, ReplayKeeps, RecvStepKeeps, FirstScanKeeps, IncKeeps, RescanKeeps, WaitKeeps, DecKeeps, LastScanKeeps
     DEF Step
<1>2. CASE Lock(t)
  BY Zenon, <1>2, LinkKeeps, UnlinkKeeps DEF Lock
<1>3. CASE Application(t)
  <2>1. \A s \in OwnSet(t) : conn[s] \in Int
    BY Zenon, OwnFacts DEF ConnType
  <2> QED
    BY Zenon, <1>3, <2>1, CallKeeps, AcceptKeeps, RecvKeeps DEF Application
<1> QED
  BY Zenon, <1>1, <1>2, <1>3

\* So all that holds of any of them goes on to hold.
LEMMA ThreadKeeps ==
  ASSUME SelectInv, ConnType, NEW t \in Threads, Step(t) \/ Lock(t) \/ Application(t)
  PROVE  SelectInv'
<1>1. EventTypes' /\ CallTypes' /\ ThreadInv(t)' /\ Alone(t)
  BY Zenon, ThreadAlone
<1>2. \A u \in Threads \ {t} : ThreadInv(u)'
  BY Zenon, <1>1, SameKeeps DEF Alone, SelectInv
<1> QED
  BY Zenon, <1>1, <1>2 DEF SelectInv

\* Nothing but steps of the threads and of the tcpip thread.
LEMMA StutterKeeps == ASSUME SelectInv, UNCHANGED vars PROVE SelectInv'
<1>1. EventTypes' /\ CallTypes'
  BY Zenon DEF SelectInv, EventTypes, CallTypes, vars
<1>2. \A t \in Threads : Same(t)
  BY Zenon DEF vars, Same
<1> QED
  BY Zenon, <1>1, <1>2, SameKeeps DEF SelectInv

\* The inductive invariant of events and the calls that wait for them (sockets.c).
THEOREM SelectInvariant == Spec => []SelectInv
<1>1. Init => SelectInv
  <2> SUFFICES ASSUME Init PROVE SelectInv
    BY Zenon
  <2>1. EventTypes
    <3>1. [Quiet EXCEPT !.send = TRUE] \in [recv : Int, send : BOOLEAN, err : BOOLEAN]
      <4>1. Quiet \in [recv : Int, send : BOOLEAN, err : BOOLEAN]
        BY DEF Quiet
      <4> QED
        BY Zenon, <4>1
    <3>2. evt \in Seq([sock : Sockets, kind : EvtKinds])
      BY DEF Init
    <3>3. ev \in [Sockets -> [recv : Int, send : BOOLEAN, err : BOOLEAN]]
      <4>1. ev = [s \in Sockets |-> [Quiet EXCEPT !.send = TRUE]]
        BY Zenon DEF Init
      <4> QED
        BY Zenon, <3>1, <4>1
    <3>4. evt = <<>> /\ tp = "idle" /\ core = "free" /\ has = {} /\ linked = {}
      BY Zenon DEF Init
    <3>5. waiting \in [Sockets -> Int]
      BY DEF Init
    <3> QED
      BY Zenon, <3>2, <3>3, <3>4, <3>5 DEF EventTypes
  <2>2. CallTypes
    BY NoCallType DEF Init, CallTypes, Outside, Doings
  <2>3. ASSUME NEW t \in Threads PROVE ThreadInv(t)
    <3>1. /\ pc[t] = "idle" /\ i[t] = 1 /\ cb[t] = NoCall /\ early[t] = <<>> /\ linked = {} /\ tp = "idle"
          /\ \A k \in Places(t) : waiting[Own[t][k]] = 0
          /\ 1 \in Places(t)
      BY Zenon, OwnFacts DEF Init
    <3>2. Locals(t)
      BY <3>1 DEF Locals, Listed, Outside, Doings
    <3>3. WaitingCount(t) /\ Checked(t) /\ Watched(t)
      BY Zenon, <3>1 DEF WaitingCount, Counted, Checked, Watched, Passed
    <3>4. Lasting(t)
      BY Zenon, <3>1 DEF Lasting, Calling, Listed
    <3> QED
      BY Zenon, <3>2, <3>3, <3>4 DEF ThreadInv
  <2> QED
    BY Zenon, <2>1, <2>2, <2>3 DEF SelectInv
<1>2. SelectInv /\ ConnType /\ [Next]_vars => SelectInv'
  <2> SUFFICES ASSUME SelectInv, ConnType, [Next]_vars PROVE SelectInv'
    BY Zenon
  <2>1. CASE EventStep
    BY Zenon, <2>1, ReadKeeps, EventSetKeeps, CheckKeeps DEF EventStep
  <2>2. CASE Network
    BY Zenon, <2>2, NetworkKeeps
  <2>3. CASE \E t \in Threads : Step(t) \/ Lock(t) \/ Application(t)
    BY Zenon, <2>3, ThreadKeeps
  <2>4. CASE UNCHANGED vars
    BY Zenon, <2>4, StutterKeeps
  <2> QED
    BY Zenon, <2>1, <2>2, <2>3, <2>4 DEF Next
<1> QED
  BY <1>1, <1>2, ConnTypeInvariant, PTL DEF Spec

\* No call of lwip_select or lwip_poll sleeps beside an event that it asked for.
THEOREM NoMissedEventCorrect == Spec => []NoMissedEvent
<1>1. SelectInv => NoMissedEvent
  <2> SUFFICES ASSUME SelectInv, NEW t \in Threads, pc[t] = "wait", cb[t].sem = 0,
                      NEW s \in OwnSet(t), Ready(t, s)
               PROVE  tp = "check" /\ sock = s
    BY Zenon DEF NoMissedEvent
  <2>1. PICK k \in Places(t) : s = Own[t][k]
    BY Zenon, OwnFacts
  <2>2. Passed(t, k) /\ found[t] = {}
    BY Zenon DEF SelectInv, ThreadInv, Watched, Passed
  <2> QED
    BY Zenon, <2>1, <2>2 DEF SelectInv, ThreadInv, Watched
<1> QED
  BY <1>1, SelectInvariant, PTL

\* A call without a timeout that returns has found something: at once, ...
LEMMA FirstScanReturns ==
  ASSUME SelectInv, NEW t \in Threads, FirstScan(t), cb[t].forever, cb'[t] # cb[t]
  PROVE  found'[t] # {}
<1>1. PICK next \in AfterScan(t) : IF LastOf(t) /\ next = "idle" THEN Returns(t) ELSE UNCHANGED cb
  BY Zenon DEF FirstScan
<1>2. Scanned(t) # {}
  BY Zenon, <1>1 DEF AfterScan
<1> QED
  BY Zenon, <1>2 DEF FirstScan, Scan, SelectInv, CallTypes

\* ... or when lwip_poll leaves the list, ...
LEMMA UnlinkReturns ==
  ASSUME SelectInv, NEW t \in Threads, lwip_unlink_select_cb(t), cb[t].forever, cb'[t] # cb[t]
  PROVE  found'[t] # {}
<1>1. Lasting(t) /\ pc[t] = "unlink"
  BY Zenon DEF SelectInv, ThreadInv, lwip_unlink_select_cb
<1>2. cb[t].poll /\ found' = found
  BY Zenon, <1>1 DEF lwip_unlink_select_cb, Lasting
<1> QED
  BY Zenon, <1>1, <1>2 DEF Lasting

\* ... or when lwip_select has scanned a last time.
LEMMA LastScanReturns ==
  ASSUME SelectInv, NEW t \in Threads, LastScan(t), cb[t].forever, cb'[t] # cb[t]
  PROVE  found'[t] # {}
<1>1. /\ CallTypes /\ Locals(t) /\ Lasting(t) /\ pc[t] = "last" /\ pc[t] \in Calling /\ LastOf(t)
      /\ found'[t] = Scanned(t)
  BY Zenon DEF SelectInv, ThreadInv, CallTypes, LastScan, Scan, Calling
<1>2. PICK k \in Places(t) : Ready(t, Own[t][k]) /\ (Own[t][k] \in found[t] \/ k >= i[t])
  BY Zenon, <1>1 DEF Lasting, Coming
<1>3. k <= i[t] /\ k \in Int /\ i[t] \in Int
  BY Zenon, <1>1, PlaceFacts DEF LastOf
<1>4. k = i[t] => Own[t][k] = Cur(t)
  BY Zenon DEF Cur
<1>5. found[t] \subseteq Scanned(t) /\ (Ready(t, Cur(t)) => Cur(t) \in Scanned(t))
  BY Zenon, <1>1, ScanFacts
<1> QED
  BY <1>1, <1>2, <1>3, <1>4, <1>5

\* No other step ends a call.
LEMMA OnlyReturns ==
  ASSUME SelectInv, ConnType, Next, NEW t \in Threads, cb[t] # NoCall, cb'[t] = NoCall
  PROVE  FirstScan(t) \/ lwip_unlink_select_cb(t) \/ LastScan(t)
<1>1. cb[t] \in Cbs /\ Locals(t) /\ DOMAIN cb = Threads
  BY Zenon DEF SelectInv, CallTypes, ThreadInv
<1>2. CASE EventStep \/ Network
  <2>1. cb' = cb \/ cb' = Woken(sock, has)
    BY Zenon, <1>2 DEF EventStep, ErrPost, EventRead, EventRecheck, EventSet, select_check_waiters, Network,
                recv_udp, recv_tcp, Post, sent_tcp, err_tcp, TcpipCalls
  <2>2. cb'[t] = cb[t] \/ cb'[t] = [cb[t] EXCEPT !.signalled = TRUE, !.sem = 1]
    BY Zenon, <2>1 DEF Woken
  <2>3. [cb[t] EXCEPT !.signalled = TRUE, !.sem = 1].sem = 1
    BY Zenon, <1>1 DEF Cbs
  <2>4. NoCall.sem # 1
    BY Zenon, NoCallType
  <2>5. [cb[t] EXCEPT !.signalled = TRUE, !.sem = 1] # NoCall
    BY Zenon, <2>3, <2>4
  <2> QED
    BY Zenon, <2>2, <2>5
<1>3. ASSUME NEW u \in Threads, Step(u) \/ Lock(u) \/ Application(u)
      PROVE  FirstScan(t) \/ lwip_unlink_select_cb(t) \/ LastScan(t)
  <2>1. u = t
    BY Zenon, <1>3, ThreadAlone DEF Alone, Same
  <2>2. CASE Wait(t)
    <3>1. cb[t].signalled /\ cb'[t] = [cb[t] EXCEPT !.sem = 0]
      BY Zenon, <1>1, <2>2 DEF Wait, Locals
    <3> QED
      BY <1>1, <3>1 DEF NoCall, Cbs
  <2>3. CASE Call(t)
    BY Zenon, <1>1, <2>3 DEF Call, Locals, Outside, Doings
  <2>4. cb' = cb \/ Wait(t) \/ Call(t) \/ FirstScan(t) \/ lwip_unlink_select_cb(t) \/ LastScan(t)
    BY Zenon, <1>3, <2>1 DEF Step, Lock, Application, AcceptReplay, RecvMinus, RecvMore, RecvFin, ShutRead,
                      recvVars, Inc, Rescan, Timeout, Dec, lwip_link_select_cb, lwip_accept, lwip_recv, WriteFull
  <2> QED
    BY Zenon, <2>2, <2>3, <2>4
<1> QED
  BY Zenon, <1>2, <1>3 DEF Next

\* A call without a timeout returns with a socket that is ready.
THEOREM ReturnsReadyCorrect == Spec => ReturnsReady
<1>1. SelectInv /\ ConnType /\ [Next]_vars
        => [\A t \in Threads : cb[t].forever /\ cb[t] # NoCall /\ cb'[t] = NoCall => found'[t] # {}]_vars
  <2> SUFFICES ASSUME SelectInv, ConnType, Next, NEW t \in Threads,
                      cb[t].forever, cb[t] # NoCall, cb'[t] = NoCall
               PROVE  found'[t] # {}
    BY Zenon
  <2>1. FirstScan(t) \/ lwip_unlink_select_cb(t) \/ LastScan(t)
    BY Zenon, OnlyReturns
  <2> QED
    BY Zenon, <2>1, FirstScanReturns, UnlinkReturns, LastScanReturns
<1> QED
  BY <1>1, ConnTypeInvariant, SelectInvariant, PTL DEF Spec, ReturnsReady
-------------------------------------------------------------------------------
(***************************************************************************)
(* Every message is counted once                                            *)
(***************************************************************************)
Mails == [data : 0..MboxSize, fin : BOOLEAN, err : BOOLEAN]
Ports == {"open", "fin", "pending", "shut"}

\* A callback is made once, and for a connection that has its socket by then.
CountTypes ==
  /\ mbox \in [Sockets -> Mails] /\ rx \in [Sockets -> Ports] /\ gone \in [Sockets -> BOOLEAN]
  /\ \A m, n \in DOMAIN evt : evt[m] = evt[n] => m = n
  /\ tp = "set" => conn[sock] = 0

\* The FIN of a stream is in the mailbox or was taken out of it, and nothing comes after.
Drained(s) == rx[s] = "fin" /\ mbox[s].data = 0 /\ ~mbox[s].fin
Ending(s) ==
  /\ conn[s] <= 0
  /\ s \notin Streams => rx[s] = "open"
  /\ mbox[s].fin => rx[s] = "fin"
  /\ rx[s] \in {"pending", "shut"} => mbox[s].data = 0 /\ ~mbox[s].fin

\* What a socket was counted for and keeps, and what it counted before it was one.
Held(s) == mbox[s].data + Num(mbox[s].fin) + Num(rx[s] \in {"pending", "shut"})
Before(s) == IF conn[s] < 0 THEN -1 - conn[s] ELSE 0
Exact(s) ==
  ev[s].recv + Before(s) + Num(Due(s, "recv")) + Replays(s, "recv")
    = Held(s) + Replays(s, "minus") + Replays(s, "fin") + Num(gone[s])
Good(s) == Ending(s) /\ Exact(s)

\* What lwip_accept and lwip_recv have still to count is of one kind.
Replaying(t) ==
  /\ pc[t] \notin {"replay"} \cup Doings => early[t] = <<>>
  /\ pc[t] = "replay" /\ early[t] # <<>> => Head(early[t]).kind = "recv"
  /\ pc[t] \in Doings => Head(early[t]).kind = pc[t]
  /\ pc[t] \in {"fin", "shut"} => Drained(Target(t))

CountInv == CountTypes /\ (\A s \in Sockets : Good(s)) /\ \A t \in Threads : Replaying(t)

\* Who owns a socket.
LEMMA OwnerOf == ASSUME NEW t \in Threads, NEW s \in OwnSet(t) PROVE Owner(s) = t
<1>1. \A u \in Threads : s \in OwnSet(u) => u = t
  BY Zenon, OwnFacts
<1> QED
  BY Zenon, <1>1 DEF Owner

LEMMA OwnerFacts == ASSUME NEW s \in Sockets PROVE Owner(s) \in Threads /\ s \in OwnSet(Owner(s))
<1>1. PICK t \in Threads : s \in OwnSet(t)
  BY Zenon DEF Sockets
<1> QED
  BY Zenon, <1>1 DEF Owner

\* What is counted are numbers.
LEMMA NumType == ASSUME NEW b PROVE Num(b) \in Int /\ (b => Num(b) = 1) /\ (~b => Num(b) = 0)
BY DEF Num

LEMMA Numbers ==
  ASSUME SelectInv, ConnType, CountInv, NEW s \in Sockets
  PROVE  /\ ev[s].recv \in Int /\ Before(s) \in Int /\ Held(s) \in Int /\ mbox[s].data \in Int
         /\ \A k : Replays(s, k) \in Int
         /\ Num(Due(s, "recv")) \in Int /\ Num(gone[s]) \in Int
<1>1. ev[s] \in [recv : Int, send : BOOLEAN, err : BOOLEAN] /\ conn[s] \in Int /\ mbox[s] \in Mails
  BY Zenon DEF SelectInv, EventTypes, ConnType, CountInv, CountTypes
<1>2. mbox[s].data \in Int
  BY <1>1, BoundAssumption DEF Mails
<1>3. early[Owner(s)] \in Seq(Tasks(Owner(s)))
  BY Zenon, OwnerFacts DEF SelectInv, ThreadInv, Locals
<1>4. Len(early[Owner(s)]) \in Int
  BY <1>3
<1>5. \A k : Replays(s, k) \in Int
  BY <1>4 DEF Replays
<1>6. \A b : Num(b) \in Int
  BY Zenon, NumType
<1>7. Held(s) \in Int
  BY <1>2, <1>6 DEF Held
<1>8. Before(s) \in Int
  BY <1>1 DEF Before
<1> QED
  BY Zenon, <1>1, <1>2, <1>5, <1>6, <1>7, <1>8

\* A sequence without its first element.
LEMMA TailFacts ==
  ASSUME NEW S, NEW q \in Seq(S), q # <<>>
  PROVE  /\ Len(q) \in Nat \ {0} /\ DOMAIN q = 1..Len(q) /\ DOMAIN Tail(q) = 1..(Len(q) - 1)
         /\ Head(q) = q[1] /\ \A n \in 1..(Len(q) - 1) : Tail(q)[n] = q[n + 1]
OBVIOUS

\* The callbacks that are due after the first one is made, or its waiters are looked for.
LEMMA DueTaken ==
  ASSUME EventTypes, CountTypes, tp \notin {"idle", "check"},
         EventDone \/ (tp' = "check" /\ evt' = evt), NEW s, NEW k
  PROVE  Due(s, k)' <=> Due(s, k) /\ [sock |-> s, kind |-> k] # Event
<1> DEFINE x == [sock |-> s, kind |-> k]
<1>1. evt \in Seq([sock : Sockets, kind : EvtKinds]) /\ evt # <<>> /\ tp # "check"
  BY Zenon DEF EventTypes
<1>2. /\ Len(evt) \in Nat \ {0} /\ DOMAIN evt = 1..Len(evt) /\ DOMAIN Tail(evt) = 1..(Len(evt) - 1)
      /\ Head(evt) = evt[1] /\ \A n \in 1..(Len(evt) - 1) : Tail(evt)[n] = evt[n + 1]
  BY Zenon, <1>1, TailFacts
<1>3. \A m, n \in DOMAIN evt : evt[m] = evt[n] => m = n
  BY Zenon DEF CountTypes
<1>4. Event = evt[1] /\ 1 \in DOMAIN evt
  BY <1>2 DEF Event
<1>5. Due(s, k) <=> \E n \in DOMAIN evt : evt[n] = x
  BY Zenon, <1>1 DEF Due
<1>6. CASE tp' = "check" /\ evt' = evt
  <2>1. Due(s, k)' <=> \E n \in DOMAIN evt : evt[n] = x /\ n # 1
    BY Zenon, <1>6 DEF Due
  <2> HIDE DEF x
  <2> QED
    BY Zenon, <1>3, <1>4, <1>5, <2>1 DEF x
<1>7. CASE EventDone
  <2>1. tp' # "check" /\ evt' = Tail(evt)
    BY Zenon, <1>1, <1>7, EventDoneFacts DEF EventDone
  <2>2. Due(s, k)' <=> \E n \in DOMAIN Tail(evt) : Tail(evt)[n] = x
    BY Zenon, <2>1 DEF Due
  <2> HIDE DEF x
  <2>3. ASSUME NEW n \in DOMAIN Tail(evt), Tail(evt)[n] = x
        PROVE  (\E m \in DOMAIN evt : evt[m] = x) /\ x # evt[1]
    <3>1. n + 1 \in DOMAIN evt /\ n + 1 # 1 /\ evt[n + 1] = x
      BY <1>2, <2>3
    <3> QED
      BY Zenon, <1>3, <1>4, <3>1
  <2>4. ASSUME NEW n \in DOMAIN evt, evt[n] = x, x # evt[1]
        PROVE  \E m \in DOMAIN Tail(evt) : Tail(evt)[m] = x
    <3>1. n # 1
      BY Zenon, <2>4
    <3>2. n - 1 \in DOMAIN Tail(evt) /\ Tail(evt)[n - 1] = evt[(n - 1) + 1] /\ (n - 1) + 1 = n
      BY <1>2, <2>4, <3>1
    <3> QED
      BY Zenon, <2>4, <3>2
  <2> QED
    BY Zenon, <1>4, <1>5, <2>2, <2>3, <2>4 DEF x
<1> QED
  BY Zenon, <1>6, <1>7

\* They are not others when their waiters have been looked for.
LEMMA DueKept ==
  ASSUME EventTypes, tp = "check", EventDone, NEW s, NEW k
  PROVE  Due(s, k)' <=> Due(s, k)
<1> DEFINE x == [sock |-> s, kind |-> k]
<1>1. evt \in Seq([sock : Sockets, kind : EvtKinds]) /\ evt # <<>>
  BY Zenon DEF EventTypes
<1>2. /\ Len(evt) \in Nat \ {0} /\ DOMAIN evt = 1..Len(evt) /\ DOMAIN Tail(evt) = 1..(Len(evt) - 1)
      /\ \A n \in 1..(Len(evt) - 1) : Tail(evt)[n] = evt[n + 1]
  BY Zenon, <1>1, TailFacts
<1>3. tp' # "check" /\ evt' = Tail(evt)
  BY Zenon, EventDoneFacts DEF EventDone
<1>4. Due(s, k) <=> \E n \in DOMAIN evt : evt[n] = x /\ n # 1
  BY Zenon DEF Due
<1>5. Due(s, k)' <=> \E n \in DOMAIN Tail(evt) : Tail(evt)[n] = x
  BY Zenon, <1>3 DEF Due
<1> HIDE DEF x
<1>6. ASSUME NEW n \in DOMAIN Tail(evt), Tail(evt)[n] = x PROVE \E m \in DOMAIN evt : evt[m] = x /\ m # 1
  <2>1. n + 1 \in DOMAIN evt /\ n + 1 # 1 /\ evt[n + 1] = x
    BY <1>2, <1>6
  <2> QED
    BY Zenon, <2>1
<1>7. ASSUME NEW n \in DOMAIN evt, evt[n] = x, n # 1 PROVE \E m \in DOMAIN Tail(evt) : Tail(evt)[m] = x
  <2>1. n - 1 \in DOMAIN Tail(evt) /\ Tail(evt)[n - 1] = evt[(n - 1) + 1] /\ (n - 1) + 1 = n
    BY <1>2, <1>7
  <2> QED
    BY Zenon, <1>7, <2>1
<1> QED
  BY Zenon, <1>4, <1>5, <1>6, <1>7

\* Callbacks stay different, and of connections that have a socket, as they are made.
LEMMA TailKeeps ==
  ASSUME EventTypes, CountTypes, tp # "idle", EventDone
  PROVE  /\ \A m, n \in DOMAIN evt' : evt'[m] = evt'[n] => m = n
         /\ \A n \in DOMAIN evt' : \E m \in DOMAIN evt : evt'[n] = evt[m]
<1>1. evt \in Seq([sock : Sockets, kind : EvtKinds]) /\ evt # <<>>
  BY Zenon DEF EventTypes
<1>2. /\ Len(evt) \in Nat \ {0} /\ DOMAIN evt = 1..Len(evt) /\ DOMAIN Tail(evt) = 1..(Len(evt) - 1)
      /\ \A n \in 1..(Len(evt) - 1) : Tail(evt)[n] = evt[n + 1]
  BY Zenon, <1>1, TailFacts
<1>3. evt' = Tail(evt)
  BY Zenon DEF EventDone
<1>4. \A m, n \in DOMAIN evt : evt[m] = evt[n] => m = n
  BY Zenon DEF CountTypes
<1>5. \A n \in DOMAIN Tail(evt) : n \in Int /\ n + 1 \in DOMAIN evt /\ Tail(evt)[n] = evt[n + 1]
  BY <1>2
<1>6. ASSUME NEW m \in DOMAIN Tail(evt), NEW n \in DOMAIN Tail(evt), Tail(evt)[m] = Tail(evt)[n] PROVE m = n
  <2>1. m + 1 = n + 1
    BY Zenon, <1>4, <1>5, <1>6
  <2> QED
    BY <1>5, <2>1
<1> QED
  BY Zenon, <1>3, <1>5, <1>6

\* What is counted for s is as it was.
Steady(s) ==
  /\ ev'[s].recv = ev[s].recv
  /\ conn'[s] = conn[s] /\ rx'[s] = rx[s] /\ gone'[s] = gone[s]
  /\ mbox'[s].data = mbox[s].data /\ mbox'[s].fin = mbox[s].fin
  /\ \A k : Replays(s, k)' = Replays(s, k)
  /\ Due(s, "recv")' <=> Due(s, "recv")
LEMMA SteadyGood == ASSUME NEW s, Good(s), Steady(s) PROVE Good(s)'
<1>1. Num(Due(s, "recv"))' = Num(Due(s, "recv"))
  BY Zenon DEF Steady, Num
<1>2. Held(s)' = Held(s) /\ Before(s)' = Before(s) /\ Num(gone[s])' = Num(gone[s])
  BY Zenon DEF Steady, Held, Before
<1>3. Exact(s)'
  <2>1. /\ Replays(s, "recv")' = Replays(s, "recv") /\ Replays(s, "minus")' = Replays(s, "minus")
        /\ Replays(s, "fin")' = Replays(s, "fin") /\ ev'[s].recv = ev[s].recv
    BY Zenon DEF Steady
  <2> QED
    BY Zenon, <1>1, <1>2, <2>1 DEF Good, Exact
<1>4. Ending(s)'
  BY Zenon DEF Good, Ending, Steady
<1> QED
  BY Zenon, <1>3, <1>4 DEF Good

\* A thread that stays where it is, while streams that are read stay so.
LEMMA ReplayingKept ==
  ASSUME SelectInv, CountInv, NEW t \in Threads, pc'[t] = pc[t], early'[t] = early[t],
         \A s \in OwnSet(t) : Drained(s) => Drained(s)'
  PROVE  Replaying(t)'
<1>1. pc[t] \in {"fin", "shut"} => Drained(Target(t)) /\ pc[t] \in Doings
  BY Zenon DEF CountInv, Replaying, Doings
<1>2. PICK s : s = Target(t)
  BY Zenon
<1>3. Target(t)' = s
  BY Zenon, <1>2 DEF Target
<1>4. pc[t] \in {"fin", "shut"} => Drained(s)'
  BY Zenon, <1>1, <1>2, TargetFacts
<1>5. pc'[t] \in {"fin", "shut"} => Drained(Target(t))'
  BY Zenon, <1>3, <1>4 DEF Drained
<1> QED
  BY Zenon, <1>5 DEF CountInv, Replaying

\* Steps that receive, count and count off nothing.
LEMMA NothingCounted ==
  ASSUME CountInv, UNCHANGED <<mbox, rx, gone, conn, ev, evt, tp, early>>,
         \A t \in Threads : \/ pc'[t] = pc[t]
                            \/ pc[t] \notin {"replay"} \cup Doings /\ pc'[t] \notin {"replay"} \cup Doings
  PROVE  CountInv'
<1>1. CountTypes'
  BY Zenon DEF CountInv, CountTypes, sock, Event
<1>2. \A t \in Threads : Replaying(t)'
  BY Zenon DEF CountInv, Replaying, Drained, Target, Doings
<1>3. ASSUME NEW s \in Sockets PROVE Good(s)'
  <2>1. Steady(s)
    BY Zenon DEF Steady, Due, Replays
  <2> QED
    BY Zenon, <2>1, SteadyGood DEF CountInv
<1> QED
  BY Zenon, <1>1, <1>2, <1>3 DEF CountInv

\* The callbacks that recv_udp, recv_tcp, sent_tcp and err_tcp make.
Lists == {<<"recv">>, <<"send">>, <<"error", "recv", "send", "post">>}
Has(q, x) == \E n \in DOMAIN q : q[n] = x
LEMMA CallbackFacts ==
  ASSUME NEW s, NEW kinds \in Lists
  PROVE  /\ \A m, n \in DOMAIN Signal(s, kinds) : Signal(s, kinds)[m] = Signal(s, kinds)[n] => m = n
         /\ \A r, k : Has(Signal(s, kinds), [sock |-> r, kind |-> k]) <=> r = s /\ Has(kinds, k)
<1> DEFINE e == Signal(s, kinds)
<1>1. DOMAIN e = DOMAIN kinds /\ \A n \in DOMAIN kinds : e[n] = [sock |-> s, kind |-> kinds[n]]
  BY Zenon DEF Signal
<1>2. \A m, n \in DOMAIN kinds : kinds[m] = kinds[n] => m = n
  BY DEF Lists
<1>3. \A r, k, j : [sock |-> s, kind |-> j] = [sock |-> r, kind |-> k] <=> r = s /\ k = j
  BY Zenon
<1> HIDE DEF e
<1>4. \A m, n \in DOMAIN e : e[m] = e[n] => m = n
  BY <1>1, <1>2, <1>3
<1>5. \A r, k : Has(e, [sock |-> r, kind |-> k]) <=> r = s /\ Has(kinds, k)
  BY <1>1, <1>3 DEF Has
<1> QED
  BY Zenon, <1>4, <1>5 DEF e

\* What is due when the tcpip thread begins its callbacks for s.
LEMMA CallsDue ==
  ASSUME SelectInv, NEW s \in Sockets, NEW kinds \in Lists, TcpipCalls(s, kinds)
  PROVE  \A r : ~Due(r, "recv") /\ (Due(r, "recv")' <=> r = s /\ Has(kinds, "recv"))
<1>1. evt = <<>> /\ tp' = "read" /\ evt' = Signal(s, kinds)
  BY Zenon DEF SelectInv, EventTypes, TcpipCalls
<1>2. DOMAIN evt = {}
  BY <1>1
<1>3. \A r : Due(r, "recv")' <=> Has(Signal(s, kinds), [sock |-> r, kind |-> "recv"])
  BY Zenon, <1>1 DEF Due, Has
<1>4. \A r : Has(Signal(s, kinds), [sock |-> r, kind |-> "recv"]) <=> r = s /\ Has(kinds, "recv")
  BY Zenon, CallbackFacts
<1>5. \A r : ~Due(r, "recv")
  BY Zenon, <1>2 DEF Due
<1> QED
  BY Zenon, <1>3, <1>4, <1>5

\* What comes in for s is no concern of the other sockets.
LEMMA CallsCount ==
  ASSUME SelectInv, CountInv, NEW s \in Sockets, NEW kinds \in Lists, TcpipCalls(s, kinds),
         mbox' \in [Sockets -> Mails], rx' \in [Sockets -> Ports], gone' \in [Sockets -> BOOLEAN],
         \A r \in Sockets \ {s} : mbox'[r] = mbox[r] /\ rx'[r] = rx[r] /\ gone'[r] = gone[r],
         Drained(s) => Drained(s)', Good(s)'
  PROVE  CountInv'
<1>1. tp' = "read" /\ evt' = Signal(s, kinds) /\ UNCHANGED <<conn, ev, pc, early>>
  BY Zenon DEF TcpipCalls, callVars
<1>2. CountTypes'
  <2>1. \A m, n \in DOMAIN evt' : evt'[m] = evt'[n] => m = n
    BY Zenon, <1>1, CallbackFacts
  <2> QED
    BY Zenon, <1>1, <2>1 DEF CountTypes
<1>3. ASSUME NEW t \in Threads PROVE Replaying(t)'
  <2>1. \A r \in OwnSet(t) : Drained(r) => Drained(r)'
    BY Zenon, OwnFacts DEF Drained
  <2> QED
    BY Zenon, <1>1, <2>1, ReplayingKept
<1>4. ASSUME NEW r \in Sockets, r # s PROVE Good(r)'
  <2>1. Due(r, "recv")' <=> Due(r, "recv")
    BY Zenon, <1>4, CallsDue
  <2>2. Steady(r)
    BY Zenon, <1>1, <1>4, <2>1 DEF Steady, Replays
  <2> QED
    BY Zenon, <2>2, SteadyGood DEF CountInv
<1> QED
  BY Zenon, <1>2, <1>3, <1>4 DEF CountInv

\* sys_mbox_trypost puts a message into a mailbox that has room.
LEMMA PostFacts ==
  ASSUME CountTypes, NEW s \in Sockets, NEW kind, HasRoom(s), Post(s, kind)
  PROVE  /\ mbox' \in [Sockets -> Mails] /\ \A r \in Sockets \ {s} : mbox'[r] = mbox[r]
         /\ mbox'[s].data = (IF kind = "data" THEN mbox[s].data + 1 ELSE mbox[s].data)
         /\ mbox'[s].fin <=> mbox[s].fin \/ kind = "closed"
<1> DEFINE d == IF kind = "data" THEN mbox[s].data + 1 ELSE mbox[s].data
           f == mbox[s].fin \/ kind = "closed"
<1>1. mbox \in [Sockets -> Mails] /\ mbox[s] \in Mails
  BY Zenon DEF CountTypes
<1>2. d \in 0..MboxSize /\ f \in BOOLEAN
  <2>1. mbox[s].data \in 0..MboxSize
    BY Zenon, <1>1 DEF Mails
  <2>2. Num(mbox[s].fin) >= 0 /\ Num(mbox[s].err) >= 0 /\ Num(mbox[s].fin) \in Int /\ Num(mbox[s].err) \in Int
    BY DEF Num
  <2>3. mbox[s].data + Num(mbox[s].fin) + Num(mbox[s].err) < MboxSize
    BY Zenon DEF HasRoom
  <2>4. d \in 0..MboxSize
    BY <2>1, <2>2, <2>3, BoundAssumption
  <2> QED
    BY Zenon, <2>4
<1>3. mbox' = [mbox EXCEPT ![s].data = IF kind = "data" THEN @ + 1 ELSE @, ![s].fin = @ \/ kind = "closed"]
  BY Zenon DEF Post
<1>4. mbox' = [mbox EXCEPT ![s] = [mbox[s] EXCEPT !.data = d, !.fin = f]]
  BY Zenon, <1>1, <1>3 DEF Mails
<1> HIDE DEF d, f
<1>5. [mbox[s] EXCEPT !.data = d, !.fin = f] \in Mails
  BY Zenon, <1>1, <1>2 DEF Mails
<1>6. mbox'[s] = [mbox[s] EXCEPT !.data = d, !.fin = f]
  BY Zenon, <1>1, <1>4
<1>7. mbox'[s].data = d /\ mbox'[s].fin = f
  BY Zenon, <1>1, <1>6 DEF Mails
<1>8. mbox' \in [Sockets -> Mails] /\ \A r \in Sockets \ {s} : mbox'[r] = mbox[r]
  BY Zenon, <1>1, <1>4, <1>5
<1> QED
  BY Zenon, <1>7, <1>8 DEF d, f

\* The tcpip thread begins its callbacks for s: what the sum of s becomes.
LEMMA CallsExact ==
  ASSUME SelectInv, ConnType, CountInv, NEW s \in Sockets, NEW kinds \in Lists, TcpipCalls(s, kinds),
         Held(s)' \in Int, Held(s)' + Num(gone[s])' = Held(s) + Num(gone[s]) + Num(Has(kinds, "recv"))
  PROVE  Exact(s)'
<1>1. UNCHANGED <<conn, ev, early>>
  BY Zenon DEF TcpipCalls, callVars
<1>2. /\ ev'[s].recv = ev[s].recv /\ Before(s)' = Before(s)
      /\ Replays(s, "recv")' = Replays(s, "recv") /\ Replays(s, "minus")' = Replays(s, "minus")
      /\ Replays(s, "fin")' = Replays(s, "fin")
  BY Zenon, <1>1 DEF Before, Replays
<1>3. Num(Due(s, "recv")) = 0 /\ Num(Due(s, "recv"))' = Num(Has(kinds, "recv"))
  <2>1. ~Due(s, "recv") /\ (Due(s, "recv")' <=> Has(kinds, "recv"))
    BY Zenon, CallsDue
  <2> QED
    BY Zenon, <2>1 DEF Num
<1>4. /\ ev[s].recv \in Int /\ Before(s) \in Int /\ Held(s) \in Int /\ Num(gone[s]) \in Int
      /\ Replays(s, "recv") \in Int /\ Replays(s, "minus") \in Int /\ Replays(s, "fin") \in Int
  BY Zenon, Numbers
<1>5. Num(Has(kinds, "recv")) \in Int /\ Num(gone[s])' \in Int
  BY DEF Num
<1>6. Exact(s)
  BY Zenon DEF CountInv, Good
<1> QED
  BY <1>2, <1>3, <1>4, <1>5, <1>6 DEF Exact

\* Data, or the FIN of a stream that is open, comes into the mailbox, ...
LEMMA PostCounts ==
  ASSUME SelectInv, ConnType, CountInv, NEW s \in Sockets, NEW kind \in {"data", "closed"}, Post(s, kind),
         rx[s] = "open", kind = "closed" => s \in Streams, gone' = gone,
         rx' = [rx EXCEPT ![s] = IF kind = "closed" THEN "fin" ELSE rx[s]], HasRoom(s)
  PROVE  CountInv'
<1>1. /\ mbox' \in [Sockets -> Mails] /\ \A r \in Sockets \ {s} : mbox'[r] = mbox[r]
      /\ mbox'[s].data = (IF kind = "data" THEN mbox[s].data + 1 ELSE mbox[s].data)
      /\ mbox'[s].fin <=> mbox[s].fin \/ kind = "closed"
  BY Zenon, PostFacts DEF CountInv
<1>2. /\ rx' \in [Sockets -> Ports] /\ \A r \in Sockets \ {s} : rx'[r] = rx[r]
      /\ rx'[s] = IF kind = "closed" THEN "fin" ELSE "open"
  BY Zenon DEF CountInv, CountTypes, Ports
<1>3. Ending(s) /\ ~mbox[s].fin /\ mbox[s].data \in Int
  BY Zenon, Numbers DEF CountInv, Good, Ending
<1>4. <<"recv">> \in Lists /\ TcpipCalls(s, <<"recv">>) /\ Has(<<"recv">>, "recv")
  <2>1. Has(<<"recv">>, "recv")
    BY DEF Has
  <2> QED
    BY Zenon, <2>1 DEF Post, Lists
<1>5. Held(s)' = Held(s) + 1
  <2>1. Num(rx[s] \in {"pending", "shut"}) = 0 /\ Num(rx[s] \in {"pending", "shut"})' = 0 /\ Num(mbox[s].fin) = 0
    BY Zenon, <1>2, <1>3 DEF Num
  <2>2. CASE kind = "data"
    <3>1. Num(mbox[s].fin)' = 0 /\ mbox'[s].data = mbox[s].data + 1
      BY Zenon, <1>1, <1>3, <2>2 DEF Num
    <3> QED
      BY <1>3, <2>1, <3>1 DEF Held
  <2>3. CASE kind = "closed"
    <3>1. Num(mbox[s].fin)' = 1 /\ mbox'[s].data = mbox[s].data
      BY Zenon, <1>1, <2>3 DEF Num
    <3> QED
      BY <1>3, <2>1, <3>1 DEF Held
  <2> QED
    BY Zenon, <2>2, <2>3
<1>6. Exact(s)'
  <2>1. /\ Num(gone[s])' = Num(gone[s]) /\ Num(Has(<<"recv">>, "recv")) = 1
        /\ Num(gone[s]) \in Int /\ Held(s) \in Int
    BY Zenon, <1>4, Numbers DEF Num
  <2>2. Held(s)' \in Int /\ Held(s)' + Num(gone[s])' = Held(s) + Num(gone[s]) + Num(Has(<<"recv">>, "recv"))
    BY <1>5, <2>1
  <2> QED
    BY Zenon, <1>4, <2>2, CallsExact
<1>7. Ending(s)'
  <2>1. conn' = conn
    BY Zenon, <1>4 DEF TcpipCalls
  <2> QED
    BY Zenon, <1>1, <1>2, <1>3, <2>1 DEF Ending
<1>8. ~Drained(s)
  BY Zenon DEF Drained
<1> QED
  BY Zenon, <1>1, <1>2, <1>4, <1>6, <1>7, <1>8, CallsCount DEF Good, CountInv, CountTypes

\* ... or is refused by a full one.
LEMMA RefusedCounts ==
  ASSUME SelectInv, CountInv, NEW s \in Sockets, NEW kind \in {"data", "closed"}, Post(s, kind),
         rx[s] = "open", kind = "closed" => s \in Streams, gone' = gone,
         rx' = [rx EXCEPT ![s] = IF kind = "closed" THEN "fin" ELSE rx[s]], ~HasRoom(s)
  PROVE  CountInv'
<1>1. UNCHANGED <<mbox, conn, ev, evt, tp, pc, early>> /\ CountTypes
  BY Zenon DEF Post, callVars, CountInv
<1>2. /\ rx' \in [Sockets -> Ports] /\ \A r \in Sockets \ {s} : rx'[r] = rx[r]
      /\ rx'[s] = IF kind = "closed" THEN "fin" ELSE "open"
  BY Zenon, <1>1 DEF CountTypes, Ports
<1>3. CountTypes'
  BY Zenon, <1>1, <1>2 DEF CountTypes, sock, Event
<1>4. ASSUME NEW t \in Threads PROVE Replaying(t)'
  <2>1. \A r \in OwnSet(t) : Drained(r) => Drained(r)'
    BY Zenon, <1>1, <1>2, OwnFacts DEF Drained
  <2> QED
    BY Zenon, <1>1, <2>1, ReplayingKept
<1>5. ASSUME NEW r \in Sockets, r # s PROVE Good(r)'
  <2>1. Steady(r)
    BY Zenon, <1>1, <1>2, <1>5 DEF Steady, Due, Replays
  <2> QED
    BY Zenon, <2>1, SteadyGood DEF CountInv
<1>6. Good(s)'
  <2>1. Good(s) /\ ~mbox[s].fin
    BY Zenon DEF CountInv, Good, Ending
  <2>2. Ending(s)'
    BY Zenon, <1>1, <1>2, <2>1 DEF Good, Ending
  <2>3. Num(rx[s] \in {"pending", "shut"})' = Num(rx[s] \in {"pending", "shut"})
    BY Zenon, <1>2 DEF Num
  <2>4. Held(s)' = Held(s)
    BY Zenon, <1>1, <2>3 DEF Held
  <2>5. Num(Due(s, "recv"))' = Num(Due(s, "recv"))
    BY Zenon, <1>1 DEF Num, Due
  <2>6. Exact(s)'
    BY Zenon, <1>1, <2>1, <2>4, <2>5 DEF Good, Exact, Before, Replays
  <2> QED
    BY Zenon, <2>2, <2>6 DEF Good
<1> QED
  BY Zenon, <1>3, <1>4, <1>5, <1>6 DEF CountInv

\* A message, an acknowledgement or an abort comes in.
LEMMA NetworkCounts == ASSUME SelectInv, ConnType, CountInv, Network PROVE CountInv'
<1>1. PICK s \in Sockets : recv_udp(s) \/ recv_tcp(s) \/ sent_tcp(s) \/ err_tcp(s)
  BY Zenon DEF Network
<1>2. CountTypes /\ Ending(s)
  BY Zenon DEF CountInv, Good
<1>3. CASE recv_udp(s)
  <2>1. rx[s] = "open" /\ Post(s, "data") /\ gone' = gone /\ rx' = rx
    BY Zenon, <1>2, <1>3 DEF recv_udp, Ending
  <2>2. rx' = [rx EXCEPT ![s] = IF "data" = "closed" THEN "fin" ELSE rx[s]]
    BY Zenon, <1>2, <2>1 DEF CountTypes
  <2> QED
    BY Zenon, <2>1, <2>2, PostCounts, RefusedCounts
<1>4. CASE recv_tcp(s)
  <2>1. PICK kind \in {"data", "closed"} :
          Post(s, kind) /\ rx' = [rx EXCEPT ![s] = IF kind = "closed" THEN "fin" ELSE rx[s]]
    BY Zenon, <1>4 DEF recv_tcp
  <2>2. rx[s] = "open" /\ s \in Streams /\ gone' = gone
    BY Zenon, <1>4 DEF recv_tcp
  <2> QED
    BY Zenon, <2>1, <2>2, PostCounts, RefusedCounts
<1>5. CASE sent_tcp(s)
  <2>1. /\ <<"send">> \in Lists /\ TcpipCalls(s, <<"send">>) /\ UNCHANGED <<mbox, rx, gone, conn>>
        /\ ~Has(<<"send">>, "recv")
    <3>1. ~Has(<<"send">>, "recv")
      BY DEF Has
    <3> QED
      BY Zenon, <1>5, <3>1 DEF sent_tcp, Lists, TcpipCalls
  <2>2. Held(s)' = Held(s) /\ Num(gone[s])' = Num(gone[s]) /\ Num(Has(<<"send">>, "recv")) = 0
    BY Zenon, <2>1 DEF Held, Num
  <2>3. Held(s)' \in Int /\ Held(s)' + Num(gone[s])' = Held(s) + Num(gone[s]) + Num(Has(<<"send">>, "recv"))
    <3>1. Held(s) \in Int /\ Num(gone[s]) \in Int
      BY Zenon, Numbers
    <3> QED
      BY <2>2, <3>1
  <2>4. Good(s)'
    BY Zenon, <1>2, <2>1, <2>3, CallsExact DEF Good, Ending
  <2> QED
    BY Zenon, <1>2, <2>1, <2>4, CallsCount DEF CountTypes, Drained
<1>6. CASE err_tcp(s)
  <2> DEFINE kinds == <<"error", "recv", "send", "post">>
  <2>1. /\ kinds \in Lists /\ TcpipCalls(s, kinds) /\ UNCHANGED <<mbox, rx, conn>> /\ Has(kinds, "recv")
        /\ ~gone[s] /\ gone' = [gone EXCEPT ![s] = TRUE]
    <3>1. kinds[2] = "recv" /\ 2 \in DOMAIN kinds
      OBVIOUS
    <3>2. Has(kinds, "recv")
      BY Zenon, <3>1 DEF Has
    <3> QED
      BY Zenon, <1>6, <3>2 DEF err_tcp, Lists, TcpipCalls
  <2> HIDE DEF kinds
  <2>2. gone' \in [Sockets -> BOOLEAN] /\ gone'[s] /\ \A r \in Sockets \ {s} : gone'[r] = gone[r]
    BY Zenon, <1>2, <2>1 DEF CountTypes
  <2>3. /\ Held(s)' = Held(s) /\ Num(gone[s])' = 1 /\ Num(gone[s]) = 0 /\ Num(Has(kinds, "recv")) = 1
        /\ Held(s) \in Int
    BY Zenon, <2>1, <2>2, Numbers DEF Held, Num
  <2>4. Held(s)' \in Int /\ Held(s)' + Num(gone[s])' = Held(s) + Num(gone[s]) + Num(Has(kinds, "recv"))
    BY <2>3
  <2>5. Good(s)'
    BY Zenon, <1>2, <2>1, <2>4, CallsExact DEF Good, Ending
  <2> QED
    BY Zenon, <1>2, <2>1, <2>2, <2>5, CallsCount DEF CountTypes, Drained
<1> QED
  BY Zenon, <1>1, <1>3, <1>4, <1>5, <1>6

\* The callback that is being made.
LEMMA EventShape ==
  ASSUME EventTypes, tp # "idle"
  PROVE  /\ Event \in [sock : Sockets, kind : EvtKinds] /\ 1 \in DOMAIN evt /\ evt[1] = Event
         /\ \A r, k : [sock |-> r, kind |-> k] = Event <=> r = sock /\ k = Event.kind
<1>1. evt \in Seq([sock : Sockets, kind : EvtKinds]) /\ evt # <<>>
  BY Zenon DEF EventTypes
<1>2. Event \in [sock : Sockets, kind : EvtKinds]
  BY Zenon, <1>1, HeadOf DEF Event
<1>3. \A r, k : [sock |-> r, kind |-> k] = Event <=> r = sock /\ k = Event.kind
  BY <1>2 DEF sock
<1> QED
  BY <1>1, <1>2, <1>3 DEF Event

\* A step of event_callback leaves what is in the mailboxes, but for an error, and what
\* the owners have to count.
Callback ==
  /\ UNCHANGED <<rx, gone, pc, early>> /\ mbox' \in [Sockets -> Mails]
  /\ \A s \in Sockets : mbox'[s].data = mbox[s].data /\ mbox'[s].fin = mbox[s].fin
LEMMA CallbackStill ==
  ASSUME SelectInv, CountInv, Callback
  PROVE  /\ rx' \in [Sockets -> Ports] /\ gone' \in [Sockets -> BOOLEAN] /\ \A t \in Threads : Replaying(t)'
         /\ \A s \in Sockets : Held(s)' = Held(s) /\ \A k : Replays(s, k)' = Replays(s, k)
<1>1. ASSUME NEW t \in Threads PROVE Replaying(t)'
  <2>1. \A r \in OwnSet(t) : Drained(r) => Drained(r)'
    BY Zenon, OwnFacts DEF Drained, Callback
  <2> QED
    BY Zenon, <2>1, ReplayingKept DEF Callback
<1>2. ASSUME NEW s \in Sockets PROVE Held(s)' = Held(s) /\ \A k : Replays(s, k)' = Replays(s, k)
  BY Zenon DEF Held, Replays, Callback
<1> QED
  BY Zenon, <1>1, <1>2 DEF Callback, CountInv, CountTypes

\* What is not counted now stays as it is.
LEMMA CallbackSteady ==
  ASSUME SelectInv, CountInv, Callback, NEW s \in Sockets, ev'[s].recv = ev[s].recv, conn'[s] = conn[s],
         Due(s, "recv")' <=> Due(s, "recv")
  PROVE  Good(s)'
<1>1. Steady(s)
  BY Zenon, CallbackStill DEF Steady, Callback
<1> QED
  BY Zenon, <1>1, SteadyGood DEF CountInv

\* conn->socket is read, the first time or again, and has a number.
LEMMA FoundCounts ==
  ASSUME SelectInv, ConnType, CountInv, tp \in {"read", "recheck"}, tp' \in {"recheck", "set"},
         tp' = "set" => ~(conn[sock] < 0), Callback, UNCHANGED <<conn, ev, evt>>
  PROVE  CountInv'
<1>1. EventTypes /\ sock \in Sockets
  BY Zenon, EventFacts DEF SelectInv
<1>2. conn[sock] \in Int /\ conn[sock] <= 0
  BY Zenon, <1>1 DEF ConnType, CountInv, Good, Ending
<1>3. tp' = "set" => conn'[sock'] = 0
  BY <1>2 DEF sock, Event
<1>4. CountTypes'
  BY Zenon, <1>3, CallbackStill DEF CountTypes, CountInv, Callback
<1>5. ASSUME NEW s \in Sockets PROVE Good(s)'
  <2>1. Due(s, "recv")' <=> Due(s, "recv")
    BY Zenon DEF Due
  <2> QED
    BY Zenon, <2>1, CallbackSteady
<1> QED
  BY Zenon, <1>4, <1>5, CallbackStill DEF CountInv

\* A callback is done: the next ones stay different.
LEMMA DoneCounts ==
  ASSUME SelectInv, CountInv, tp # "idle", EventDone, Callback, \A s \in Sockets : Good(s)'
  PROVE  CountInv'
<1>1. EventTypes /\ CountTypes
  BY Zenon DEF SelectInv, CountInv
<1>2. tp' # "set" /\ \A m, n \in DOMAIN evt' : evt'[m] = evt'[n] => m = n
  BY Zenon, <1>1, TailKeeps, EventDoneFacts
<1> QED
  BY Zenon, <1>2, CallbackStill DEF CountInv, CountTypes, Callback

\* err_tcp posts its error, with no event.
LEMMA ErrPostCounts == ASSUME SelectInv, CountInv, ErrPost PROVE CountInv'
<1>1. /\ EventTypes /\ CountTypes /\ tp # "idle" /\ tp # "check" /\ EventDone /\ sock \in Sockets
      /\ Event.kind = "post" /\ UNCHANGED <<rx, gone, conn, ev, pc, early>>
  BY Zenon, EventFacts DEF SelectInv, CountInv, ErrPost, callVars
<1>2. PICK c \in Sockets : c = sock
  BY Zenon, <1>1
<1>3. PICK b \in BOOLEAN : mbox' = [mbox EXCEPT ![c] = [mbox[c] EXCEPT !.err = b]]
  <2>1. (rx[c] # "shut" /\ HasRoom(c)) \in BOOLEAN
    BY Zenon
  <2> QED
    BY Zenon, <1>2, <2>1 DEF ErrPost
<1>4. mbox \in [Sockets -> Mails] /\ mbox[c] \in Mails /\ [mbox[c] EXCEPT !.err = b] \in Mails
  BY Zenon, <1>1 DEF CountTypes, Mails
<1>5. mbox' \in [Sockets -> Mails] /\ \A s \in Sockets : mbox'[s] = IF s = c THEN [mbox[c] EXCEPT !.err = b] ELSE mbox[s]
  BY Zenon, <1>3, <1>4
<1>6. [mbox[c] EXCEPT !.err = b].data = mbox[c].data /\ [mbox[c] EXCEPT !.err = b].fin = mbox[c].fin
  BY Zenon, <1>4 DEF Mails
<1>7. Callback
  BY Zenon, <1>1, <1>5, <1>6 DEF Callback
<1>8. ASSUME NEW s \in Sockets PROVE Good(s)'
  <2>1. Due(s, "recv")' <=> Due(s, "recv") /\ [sock |-> s, kind |-> "recv"] # Event
    BY Zenon, <1>1, DueTaken
  <2>2. [sock |-> s, kind |-> "recv"] # Event
    BY <1>1
  <2> QED
    BY Zenon, <1>1, <1>7, <2>1, <2>2, CallbackSteady
<1> QED
  BY Zenon, <1>1, <1>7, <1>8, DoneCounts

\* A message of a connection without a socket is counted in conn->socket.
LEMMA EarlyCounts ==
  ASSUME SelectInv, ConnType, CountInv, tp = "recheck", conn[sock] < 0,
         conn' = [conn EXCEPT ![sock] = IF Event.kind = "recv" THEN conn[sock] - 1 ELSE conn[sock]],
         EventDone, Callback, UNCHANGED ev
  PROVE  CountInv'
<1>1. EventTypes /\ CountTypes /\ sock \in Sockets /\ tp \notin {"idle", "check"}
  BY Zenon, EventFacts DEF SelectInv, CountInv
<1>2. PICK c \in Sockets : c = sock
  BY Zenon, <1>1
<1>3. /\ 1 \in DOMAIN evt /\ evt[1] = Event
      /\ \A r : [sock |-> r, kind |-> "recv"] = Event <=> r = c /\ Event.kind = "recv"
  <2>1. /\ 1 \in DOMAIN evt /\ evt[1] = Event
        /\ \A r, k : [sock |-> r, kind |-> k] = Event <=> r = sock /\ k = Event.kind
    BY Zenon, <1>1, EventShape
  <2> QED
    BY Zenon, <1>2, <2>1
<1>4. ASSUME NEW r PROVE Due(r, "recv")' <=> Due(r, "recv") /\ ~(r = c /\ Event.kind = "recv")
  <2>1. Due(r, "recv")' <=> Due(r, "recv") /\ [sock |-> r, kind |-> "recv"] # Event
    BY Zenon, <1>1, DueTaken
  <2> QED
    BY Zenon, <1>3, <2>1
<1>5. /\ conn[c] \in Int /\ conn[c] < 0 /\ conn'[c] = (IF Event.kind = "recv" THEN conn[c] - 1 ELSE conn[c])
      /\ \A r \in Sockets : r # c => conn'[r] = conn[r]
  BY Zenon, <1>2 DEF ConnType
<1>6. ASSUME NEW s \in Sockets, s # c \/ Event.kind # "recv" PROVE Good(s)'
  BY Zenon, <1>4, <1>5, <1>6, CallbackSteady
<1>7. ASSUME Event.kind = "recv" PROVE Good(c)'
  <2>1. Due(c, "recv") /\ ~Due(c, "recv")' /\ Good(c)
    BY Zenon, <1>1, <1>3, <1>4, <1>7 DEF Due, CountInv
  <2>2. Num(Due(c, "recv")) = 1 /\ Num(Due(c, "recv"))' = 0
    BY Zenon, <2>1 DEF Num
  <2>3. conn'[c] <= 0 /\ Before(c)' = Before(c) + 1 /\ Before(c) \in Int
    BY <1>5, <1>7 DEF Before
  <2>4. /\ ev'[c] = ev[c] /\ Held(c)' = Held(c) /\ Num(gone[c])' = Num(gone[c])
        /\ Replays(c, "recv")' = Replays(c, "recv") /\ Replays(c, "minus")' = Replays(c, "minus")
        /\ Replays(c, "fin")' = Replays(c, "fin")
    BY Zenon, CallbackStill DEF Callback
  <2>5. ev[c].recv \in Int /\ Replays(c, "recv") \in Int
    BY Zenon, Numbers
  <2>6. Exact(c)'
    BY <2>1, <2>2, <2>3, <2>4, <2>5 DEF Good, Exact
  <2>7. Ending(c)'
    BY Zenon, <2>1, <2>3 DEF Good, Ending, Callback
  <2> QED
    BY Zenon, <2>6, <2>7 DEF Good
<1> QED
  BY Zenon, <1>1, <1>6, <1>7, DoneCounts

\* The event is counted in the socket.
LEMMA EventSetCounts == ASSUME SelectInv, ConnType, CountInv, EventSet PROVE CountInv'
<1>1. /\ EventTypes /\ CountTypes /\ sock \in Sockets /\ tp = "set" /\ tp \notin {"idle", "check"}
      /\ Event.kind \in EvtKinds
  BY Zenon, EventFacts DEF SelectInv, CountInv, EventSet
<1>2. PICK c \in Sockets, kind \in EvtKinds : c = sock /\ kind = Event.kind
  BY Zenon, <1>1
<1>3. /\ conn' = conn /\ ev' = [ev EXCEPT ![c] = Applied(ev[c], kind)] /\ Callback
      /\ EventDone \/ (tp' = "check" /\ evt' = evt)
  BY Zenon, <1>1, <1>2 DEF EventSet, callVars, Callback, CountTypes
<1>4. /\ 1 \in DOMAIN evt /\ evt[1] = Event
      /\ \A r : [sock |-> r, kind |-> "recv"] = Event <=> r = c /\ kind = "recv"
  <2>1. /\ 1 \in DOMAIN evt /\ evt[1] = Event
        /\ \A r, k : [sock |-> r, kind |-> k] = Event <=> r = sock /\ k = Event.kind
    BY Zenon, <1>1, EventShape
  <2> QED
    BY Zenon, <1>2, <2>1
<1>5. ASSUME NEW r PROVE Due(r, "recv")' <=> Due(r, "recv") /\ ~(r = c /\ kind = "recv")
  <2>1. Due(r, "recv")' <=> Due(r, "recv") /\ [sock |-> r, kind |-> "recv"] # Event
    BY Zenon, <1>1, <1>3, DueTaken
  <2> QED
    BY Zenon, <1>4, <2>1
<1>6. /\ ev[c] \in [recv : Int, send : BOOLEAN, err : BOOLEAN]
      /\ ev'[c] = Applied(ev[c], kind) /\ \A r \in Sockets : r # c => ev'[r] = ev[r]
  BY Zenon, <1>1, <1>3 DEF EventTypes
<1>7. ev'[c].recv = IF kind = "recv" THEN ev[c].recv + 1 ELSE ev[c].recv
  BY Zenon, <1>6 DEF Applied
<1>8. ASSUME NEW s \in Sockets, s # c \/ kind # "recv" PROVE Good(s)'
  <2>1. ev'[s].recv = ev[s].recv
    BY Zenon, <1>6, <1>7, <1>8
  <2> QED
    BY Zenon, <1>3, <1>5, <1>8, <2>1, CallbackSteady
<1>9. ASSUME kind = "recv" PROVE Good(c)'
  <2>1. Due(c, "recv") /\ ~Due(c, "recv")' /\ Good(c)
    BY Zenon, <1>1, <1>4, <1>5, <1>9 DEF Due, CountInv
  <2>2. Num(Due(c, "recv")) = 1 /\ Num(Due(c, "recv"))' = 0
    BY Zenon, <2>1 DEF Num
  <2>3. /\ Before(c)' = Before(c) /\ Held(c)' = Held(c) /\ Num(gone[c])' = Num(gone[c])
        /\ Replays(c, "recv")' = Replays(c, "recv") /\ Replays(c, "minus")' = Replays(c, "minus")
        /\ Replays(c, "fin")' = Replays(c, "fin")
    BY Zenon, <1>3, CallbackStill DEF Callback, Before
  <2>4. ev[c].recv \in Int /\ Replays(c, "recv") \in Int /\ Before(c) \in Int
    BY Zenon, Numbers
  <2>5. Exact(c)'
    BY <1>7, <1>9, <2>1, <2>2, <2>3, <2>4 DEF Good, Exact
  <2>6. Ending(c)'
    BY Zenon, <1>3, <2>1 DEF Good, Ending, Callback
  <2> QED
    BY Zenon, <2>5, <2>6 DEF Good
<1>10. \A s \in Sockets : Good(s)'
  BY Zenon, <1>8, <1>9
<1>11. CASE EventDone
  BY Zenon, <1>1, <1>3, <1>10, <1>11, DoneCounts
<1>12. CASE tp' = "check" /\ evt' = evt
  <2>1. CountTypes'
    BY Zenon, <1>1, <1>3, <1>12, CallbackStill DEF CountTypes, Callback
  <2> QED
    BY Zenon, <1>3, <1>10, <2>1, CallbackStill DEF CountInv
<1> QED
  BY Zenon, <1>3, <1>11, <1>12

\* select_check_waiters counts nothing.
LEMMA CheckCounts == ASSUME SelectInv, CountInv, select_check_waiters PROVE CountInv'
<1>1. EventTypes /\ CountTypes /\ tp = "check" /\ EventDone /\ conn' = conn /\ ev' = ev /\ Callback
  BY Zenon DEF SelectInv, CountInv, CountTypes, select_check_waiters, callVars, Callback
<1>2. \A s \in Sockets : Due(s, "recv")' <=> Due(s, "recv")
  BY Zenon, <1>1, DueKept
<1>3. \A s \in Sockets : Good(s)'
  BY Zenon, <1>1, <1>2, CallbackSteady
<1> QED
  BY Zenon, <1>1, <1>3, DoneCounts

LEMMA EventCounts == ASSUME SelectInv, ConnType, CountInv, EventStep PROVE CountInv'
<1>1. UNCHANGED <<mbox, rx, gone, pc, early>> => Callback
  BY Zenon DEF Callback, CountInv, CountTypes
<1>2. CASE EventRead
  BY Zenon, <1>1, <1>2, FoundCounts DEF EventRead, callVars
<1>3. CASE EventRecheck
  <2>1. CASE conn[sock] < 0
    BY Zenon, <1>1, <1>3, <2>1, EarlyCounts DEF EventRecheck, callVars
  <2>2. CASE ~(conn[sock] < 0)
    BY Zenon, <1>1, <1>3, <2>2, FoundCounts DEF EventRecheck, callVars
  <2> QED
    BY Zenon, <2>1, <2>2
<1> QED
  BY Zenon, <1>2, <1>3, ErrPostCounts, EventSetCounts, CheckCounts DEF EventStep

\* A step of t that counts for its socket c only.
CountsFor(t, c) ==
  /\ UNCHANGED <<evt, tp, gone>>
  /\ \A u \in Threads \ {t} : pc'[u] = pc[u] /\ early'[u] = early[u]
  /\ \A s \in Sockets \ {c} : ev'[s] = ev[s] /\ conn'[s] = conn[s] /\ mbox'[s] = mbox[s] /\ rx'[s] = rx[s]
  /\ early[t] = <<>> \/ Head(early[t]).sock = c
  /\ early'[t] = <<>> \/ Head(early'[t]).sock = c

LEMMA OwnerCounts ==
  ASSUME SelectInv, CountInv, NEW t \in Threads, NEW c \in OwnSet(t), CountsFor(t, c),
         mbox' \in [Sockets -> Mails], rx' \in [Sockets -> Ports], conn[c] = 0 => conn'[c] = 0,
         Replaying(t)', Good(c)'
  PROVE  CountInv'
<1>1. ASSUME NEW u \in Threads \ {t} PROVE Replaying(u)'
  <2>1. \A s \in OwnSet(u) : s \in Sockets \ {c}
    BY Zenon, OthersSockets
  <2>2. \A s \in OwnSet(u) : Drained(s) => Drained(s)'
    BY Zenon, <2>1 DEF Drained, CountsFor
  <2> QED
    BY Zenon, <2>2, ReplayingKept DEF CountsFor
<1>2. CountTypes'
  <2>1. tp = "set" => conn[sock] = 0 /\ sock' = sock /\ sock \in Sockets
    BY Zenon, EventFacts DEF SelectInv, CountInv, CountTypes, CountsFor, sock, Event
  <2>2. tp = "set" => conn'[sock] = 0
    BY Zenon, <2>1 DEF CountsFor
  <2>3. tp' = "set" => conn'[sock'] = 0
    BY Zenon, <2>1, <2>2 DEF CountsFor
  <2> QED
    BY Zenon, <2>3 DEF CountInv, CountTypes, CountsFor
<1>3. ASSUME NEW s \in Sockets, s # c PROVE Good(s)'
  <2>1. Due(s, "recv")' <=> Due(s, "recv")
    BY Zenon DEF Due, CountsFor
  <2>2. ASSUME NEW k PROVE Replays(s, k)' = Replays(s, k)
    <3>1. [sock |-> s, kind |-> k].sock # c
      BY Zenon, <1>3
    <3>2. CASE Owner(s) = t
      <4>1. Replays(s, k) = 0
        BY Zenon, <3>1, <3>2 DEF Replays, CountsFor
      <4>2. Replays(s, k)' = 0
        BY Zenon, <3>1, <3>2 DEF Replays, CountsFor
      <4> QED
        BY Zenon, <4>1, <4>2
    <3>3. CASE Owner(s) # t
      BY Zenon, <3>3, OwnerFacts DEF Replays, CountsFor
    <3> QED
      BY Zenon, <3>2, <3>3
  <2>3. Steady(s)
    BY Zenon, <1>3, <2>1, <2>2 DEF Steady, CountsFor
  <2> QED
    BY Zenon, <2>3, SteadyGood DEF CountInv
<1> QED
  BY Zenon, <1>1, <1>2, <1>3 DEF CountInv

\* What the owner of c has to count for it: nothing, or events of one kind.
LEMMA ReplaysNone ==
  ASSUME NEW t \in Threads, NEW c \in OwnSet(t), NEW k
  PROVE  /\ early[t] = <<>> => Replays(c, k) = 0
         /\ early'[t] = <<>> => Replays(c, k)' = 0
<1>1. Owner(c) = t
  BY Zenon, OwnerOf
<1> QED
  BY Zenon, <1>1 DEF Replays

LEMMA ReplaysSome ==
  ASSUME NEW t \in Threads, NEW c \in OwnSet(t), NEW k, NEW j
  PROVE  /\ early[t] # <<>> /\ Head(early[t]) = [sock |-> c, kind |-> k]
               => Replays(c, j) = IF j = k THEN Len(early[t]) ELSE 0
         /\ early'[t] # <<>> /\ Head(early'[t]) = [sock |-> c, kind |-> k]
               => Replays(c, j)' = IF j = k THEN Len(early'[t]) ELSE 0
<1>1. Owner(c) = t
  BY Zenon, OwnerOf
<1>2. [sock |-> c, kind |-> k] = [sock |-> c, kind |-> j] <=> j = k
  BY Zenon
<1>3. early[t] # <<>> /\ Head(early[t]) = [sock |-> c, kind |-> k]
        => Replays(c, j) = IF j = k THEN Len(early[t]) ELSE 0
  BY Zenon, <1>1, <1>2 DEF Replays
<1>4. early'[t] # <<>> /\ Head(early'[t]) = [sock |-> c, kind |-> k]
        => Replays(c, j)' = IF j = k THEN Len(early'[t]) ELSE 0
  BY Zenon, <1>1, <1>2 DEF Replays
<1> QED
  BY Zenon, <1>3, <1>4

\* What is due does not change with the steps of a thread.
LEMMA DueStill == ASSUME UNCHANGED <<evt, tp>>, NEW s PROVE Num(Due(s, "recv"))' = Num(Due(s, "recv"))
<1>1. Due(s, "recv")' <=> Due(s, "recv")
  BY Zenon DEF Due
<1> QED
  BY Zenon, <1>1 DEF Num

\* A message, or a FIN, that lwip_recv has fetched and not yet counted off, ...
Owes(l) == Num(l \in {"minus", "fin"})
Works(t, c) == pc[t] = "idle" \/ (pc[t] \in Doings /\ Target(t) = c)
LEMMA OwesFacts ==
  ASSUME SelectInv, CountInv, NEW t \in Threads, NEW c \in OwnSet(t), Works(t, c)
  PROVE  /\ Replays(c, "recv") = 0 /\ Replays(c, "minus") + Replays(c, "fin") = Owes(pc[t])
         /\ early[t] = <<>> \/ Head(early[t]).sock = c
<1>1. CASE pc[t] = "idle"
  <2>1. early[t] = <<>>
    BY Zenon, <1>1 DEF CountInv, Replaying, Doings
  <2>2. Replays(c, "recv") = 0 /\ Replays(c, "minus") = 0 /\ Replays(c, "fin") = 0 /\ Owes(pc[t]) = 0
    BY Zenon, <1>1, <2>1, ReplaysNone DEF Owes, Num
  <2> QED
    BY <2>1, <2>2
<1>2. CASE pc[t] \in Doings /\ Target(t) = c
  <2>1. /\ early[t] \in Seq(Tasks(t)) /\ Len(early[t]) = 1 /\ early[t] # <<>> /\ Head(early[t]) = early[t][1]
        /\ Head(early[t]).kind = pc[t]
    BY Zenon, <1>2, TargetFacts DEF SelectInv, ThreadInv, Locals, CountInv, Replaying
  <2>2. Head(early[t]) \in Tasks(t)
    BY Zenon, <2>1, HeadOf
  <2>3. Head(early[t]).sock = c
    BY Zenon, <1>2, <2>1 DEF Target
  <2>4. Head(early[t]) = [sock |-> c, kind |-> pc[t]]
    BY Zenon, <2>1, <2>2, <2>3 DEF Tasks
  <2>5. ASSUME NEW j PROVE Replays(c, j) = IF j = pc[t] THEN 1 ELSE 0
    <3>1. early[t] # <<>> /\ Head(early[t]) = [sock |-> c, kind |-> pc[t]]
      BY Zenon, <2>1, <2>4
    <3>2. Replays(c, j) = IF j = pc[t] THEN Len(early[t]) ELSE 0
      BY Zenon, <3>1, ReplaysSome
    <3> QED
      BY Zenon, <2>1, <3>2
  <2>6. /\ Replays(c, "recv") = (IF "recv" = pc[t] THEN 1 ELSE 0)
        /\ Replays(c, "minus") = (IF "minus" = pc[t] THEN 1 ELSE 0)
        /\ Replays(c, "fin") = (IF "fin" = pc[t] THEN 1 ELSE 0)
    BY Zenon, <2>5
  <2>7. pc[t] # "recv"
    BY Zenon, <1>2 DEF Doings
  <2> QED
    BY <2>3, <2>6, <2>7 DEF Owes, Num
<1> QED
  BY Zenon, <1>1, <1>2 DEF Works

\* ... before and after a step.
LEMMA DoingOwes ==
  ASSUME SelectInv, NEW t \in Threads, NEW c \in OwnSet(t), NEW l \in {"idle"} \cup Doings, Doing(t, c, l)
  PROVE  /\ Replays(c, "recv")' = 0 /\ Replays(c, "minus")' + Replays(c, "fin")' = Owes(l)
         /\ Replays(c, "minus")' \in Int /\ Replays(c, "fin")' \in Int
         /\ early'[t] = <<>> \/ Head(early'[t]).sock = c
         /\ pc'[t] = l /\ (l = "idle" => early'[t] = <<>>)
         /\ (l \in Doings => Head(early'[t]).kind = l /\ Target(t)' = c)
<1>1. /\ pc'[t] = l /\ early'[t] = IF l = "idle" THEN <<>> ELSE Signal(c, <<l>>)
  BY Zenon DEF SelectInv, CallTypes, Doing, Goto
<1>2. CASE l = "idle"
  <2>1. early'[t] = <<>> /\ l \notin Doings
    BY Zenon, <1>1, <1>2 DEF Doings
  <2>2. Replays(c, "recv")' = 0 /\ Replays(c, "minus")' = 0 /\ Replays(c, "fin")' = 0 /\ Owes(l) = 0
    BY Zenon, <1>2, <2>1, ReplaysNone DEF Owes, Num
  <2> QED
    BY <1>1, <2>1, <2>2
<1>3. CASE l # "idle"
  <2>1. early'[t] = <<[sock |-> c, kind |-> l]>>
    BY <1>1, <1>3 DEF Signal
  <2>2. /\ early'[t] # <<>> /\ Len(early'[t]) = 1 /\ Head(early'[t]) = [sock |-> c, kind |-> l]
        /\ early'[t][1] = [sock |-> c, kind |-> l]
    BY <2>1
  <2>3. Head(early'[t]).sock = c /\ Head(early'[t]).kind = l /\ Target(t)' = c
    BY <2>2 DEF Target
  <2>4. ASSUME NEW j PROVE Replays(c, j)' = IF j = l THEN 1 ELSE 0
    <3>1. early'[t] # <<>> /\ Head(early'[t]) = [sock |-> c, kind |-> l]
      BY Zenon, <2>2
    <3>2. Replays(c, j)' = IF j = l THEN Len(early'[t]) ELSE 0
      BY Zenon, <3>1, ReplaysSome
    <3> QED
      BY Zenon, <2>2, <3>2
  <2>5. /\ Replays(c, "recv")' = (IF "recv" = l THEN 1 ELSE 0)
        /\ Replays(c, "minus")' = (IF "minus" = l THEN 1 ELSE 0)
        /\ Replays(c, "fin")' = (IF "fin" = l THEN 1 ELSE 0)
    BY Zenon, <2>4
  <2>6. l # "recv"
    BY Zenon DEF Doings
  <2>7. Replays(c, "recv")' = 0 /\ Replays(c, "minus")' + Replays(c, "fin")' = Owes(l)
    BY <2>5, <2>6 DEF Owes, Num
  <2>8. Replays(c, "minus")' \in Int /\ Replays(c, "fin")' \in Int
    BY <2>5
  <2> QED
    BY Zenon, <1>1, <1>3, <2>3, <2>7, <2>8
<1> QED
  BY Zenon, <1>2, <1>3

\* What is fetched and what is counted off go together.
LEMMA StillExact ==
  ASSUME NEW c, Exact(c), Replays(c, "recv") = 0, Replays(c, "recv")' = 0,
         Before(c)' = Before(c), Num(gone[c])' = Num(gone[c]), Num(Due(c, "recv"))' = Num(Due(c, "recv")),
         ev[c].recv \in Int, Before(c) \in Int, Held(c) \in Int, Num(gone[c]) \in Int,
         Replays(c, "minus") \in Int, Replays(c, "fin") \in Int, Num(Due(c, "recv")) \in Int,
         Replays(c, "minus")' \in Int, Replays(c, "fin")' \in Int, ev'[c].recv \in Int, Held(c)' \in Int,
         ev'[c].recv + Held(c) + (Replays(c, "minus") + Replays(c, "fin"))
           = ev[c].recv + Held(c)' + (Replays(c, "minus")' + Replays(c, "fin")')
  PROVE  Exact(c)'
<1>1. PICK e \in Int, b \in Int, d \in Int, g \in Int :
        e = ev[c].recv /\ b = Before(c) /\ d = Num(Due(c, "recv")) /\ g = Num(gone[c])
  BY Zenon
<1>2. PICK h \in Int, m \in Int, f \in Int :
        h = Held(c) /\ m = Replays(c, "minus") /\ f = Replays(c, "fin")
  BY Zenon
<1>3. PICK y \in Int, k \in Int, n \in Int, x \in Int :
        y = ev'[c].recv /\ k = Held(c)' /\ n = Replays(c, "minus")' /\ x = Replays(c, "fin")'
  BY Zenon
<1>4. e + b + d + 0 = h + m + f + g /\ y + h + (m + f) = e + k + (n + x)
  BY Zenon, <1>1, <1>2, <1>3 DEF Exact
<1>5. y + b + d + 0 = k + n + x + g
  BY ONLY <1>4, e \in Int, b \in Int, d \in Int, g \in Int, h \in Int, m \in Int, f \in Int,
          y \in Int, k \in Int, n \in Int, x \in Int
<1> QED
  BY Zenon, <1>1, <1>3, <1>5 DEF Exact

\* A step of lwip_recv on c: what it fetches and what it counts go together.
LEMMA DoingCounts ==
  ASSUME SelectInv, ConnType, CountInv, NEW t \in Threads, NEW c \in OwnSet(t), NEW l \in {"idle"} \cup Doings,
         Works(t, c), Doing(t, c, l), UNCHANGED recvVars,
         \A s \in Sockets \ {c} : ev'[s] = ev[s] /\ mbox'[s] = mbox[s] /\ rx'[s] = rx[s],
         mbox' \in [Sockets -> Mails], rx' \in [Sockets -> Ports],
         Ending(c)', l \in {"fin", "shut"} => Drained(c)', ev'[c].recv \in Int, Held(c)' \in Int,
         ev'[c].recv + Held(c) + Owes(pc[t]) = ev[c].recv + Held(c)' + Owes(l)
  PROVE  CountInv'
<1>1. /\ Replays(c, "recv") = 0 /\ Replays(c, "minus") + Replays(c, "fin") = Owes(pc[t])
      /\ early[t] = <<>> \/ Head(early[t]).sock = c
  BY Zenon, OwesFacts
<1>2. /\ Replays(c, "recv")' = 0 /\ Replays(c, "minus")' + Replays(c, "fin")' = Owes(l)
      /\ Replays(c, "minus")' \in Int /\ Replays(c, "fin")' \in Int
      /\ early'[t] = <<>> \/ Head(early'[t]).sock = c
      /\ pc'[t] = l /\ (l = "idle" => early'[t] = <<>>)
      /\ (l \in Doings => Head(early'[t]).kind = l /\ Target(t)' = c)
  BY Zenon, DoingOwes
<1>3. UNCHANGED <<evt, tp, gone, conn>> /\ \A u \in Threads \ {t} : pc'[u] = pc[u] /\ early'[u] = early[u]
  BY Zenon DEF recvVars, Doing, Goto, SelectInv, CallTypes
<1>4. CountsFor(t, c)
  BY Zenon, <1>1, <1>2, <1>3 DEF CountsFor
<1>5. Replaying(t)'
  <2>1. l \in {"fin", "shut"} => Drained(Target(t))'
    <3>1. l \in {"fin", "shut"} => l \in Doings
      BY Zenon DEF Doings
    <3> QED
      BY Zenon, <1>2, <3>1 DEF Drained
  <2>2. l # "replay"
    BY Zenon DEF Doings
  <2> QED
    BY Zenon, <1>2, <2>1, <2>2 DEF Replaying
<1>6. Exact(c)'
  <2>1. /\ Before(c)' = Before(c) /\ Num(gone[c])' = Num(gone[c]) /\ Num(Due(c, "recv"))' = Num(Due(c, "recv"))
    BY Zenon, <1>3, DueStill DEF Before
  <2>2. /\ ev[c].recv \in Int /\ Before(c) \in Int /\ Held(c) \in Int /\ Num(gone[c]) \in Int
        /\ Replays(c, "minus") \in Int /\ Replays(c, "fin") \in Int /\ Num(Due(c, "recv")) \in Int /\ Exact(c)
    BY Zenon, OwnFacts, Numbers DEF CountInv, Good
  <2> QED
    BY Zenon, <1>1, <1>2, <2>1, <2>2, StillExact
<1> QED
  BY Zenon, <1>3, <1>4, <1>5, <1>6, OwnerCounts DEF Good

\* A mailbox changes.
LEMMA MailChanges ==
  ASSUME CountTypes, NEW c \in Sockets, NEW m \in Mails, mbox' = [mbox EXCEPT ![c] = m]
  PROVE  mbox' \in [Sockets -> Mails] /\ mbox'[c] = m /\ \A s \in Sockets \ {c} : mbox'[s] = mbox[s]
BY Zenon DEF CountTypes

\* The next message is fetched: data, a FIN, or an error.
LEMMA FetchCounts ==
  ASSUME SelectInv, ConnType, CountInv, NEW t \in Threads, NEW c \in OwnSet(t), NEW nofin \in BOOLEAN,
         Fetch(t, c, nofin), UNCHANGED ev, UNCHANGED recvVars, Works(t, c), pc[t] \in {"idle", "more"}
  PROVE  CountInv'
<1>1. /\ c \in Sockets /\ CountTypes /\ Ending(c) /\ mbox[c] \in Mails /\ conn' = conn
      /\ ev[c].recv \in Int /\ mbox[c].data \in Int /\ Owes(pc[t]) = 0
  BY Zenon, OwnFacts, Numbers DEF CountInv, CountTypes, Good, recvVars, Owes, Num
<1>2. Num(TRUE) = 1 /\ Num(FALSE) = 0 /\ Owes("minus") = 1 /\ Owes("fin") = 1 /\ Owes("idle") = 0
  BY Zenon DEF Num, Owes
<1>3. ASSUME mbox[c].data > 0, mbox' = [mbox EXCEPT ![c].data = @ - 1], Doing(t, c, "minus"), rx' = rx
      PROVE  CountInv'
  <2> DEFINE m == [mbox[c] EXCEPT !.data = mbox[c].data - 1]
  <2>1. m \in Mails /\ m.data = mbox[c].data - 1 /\ m.fin = mbox[c].fin
    <3>1. mbox[c].data - 1 \in 0..MboxSize
      BY <1>1, <1>3, BoundAssumption DEF Mails
    <3> QED
      BY Zenon, <1>1, <3>1 DEF Mails
  <2>2. mbox' = [mbox EXCEPT ![c] = m]
    BY Zenon, <1>3
  <2> HIDE DEF m
  <2>3. mbox' \in [Sockets -> Mails] /\ mbox'[c] = m /\ \A s \in Sockets \ {c} : mbox'[s] = mbox[s]
    BY Zenon, <1>1, <2>1, <2>2, MailChanges
  <2>4. rx[c] \notin {"pending", "shut"}
    BY <1>1, <1>3 DEF Ending
  <2>5. Ending(c)'
    BY Zenon, <1>1, <1>3, <2>1, <2>3, <2>4 DEF Ending
  <2>6. /\ mbox'[c].data = mbox[c].data - 1 /\ Num(mbox[c].fin)' = Num(mbox[c].fin)
        /\ Num(rx[c] \in {"pending", "shut"}) = 0 /\ Num(rx[c] \in {"pending", "shut"})' = 0
    BY Zenon, <1>3, <2>1, <2>3, <2>4 DEF Num
  <2>7. Held(c)' = Held(c) - 1 /\ Held(c) \in Int
    <3>1. Num(mbox[c].fin) \in Int
      BY Zenon, NumType
    <3> QED
      BY <1>1, <2>6, <3>1 DEF Held
  <2>8. Held(c)' \in Int /\ ev'[c].recv + Held(c) + Owes(pc[t]) = ev[c].recv + Held(c)' + Owes("minus")
    BY <1>1, <1>2, <2>7
  <2>9. "minus" \in {"idle"} \cup Doings /\ "minus" \notin {"fin", "shut"} /\ rx' \in [Sockets -> Ports]
    BY Zenon, <1>1, <1>3 DEF Doings, CountTypes
  <2> QED
    BY Zenon, <1>1, <1>3, <2>3, <2>5, <2>8, <2>9, DoingCounts
<1>4. ASSUME mbox[c].data = 0, mbox[c].fin, mbox' = [mbox EXCEPT ![c].fin = FALSE],
             rx' = [rx EXCEPT ![c] = IF nofin THEN "pending" ELSE @], Doing(t, c, IF nofin THEN "idle" ELSE "fin")
      PROVE  CountInv'
  <2> DEFINE m == [mbox[c] EXCEPT !.fin = FALSE]
             l == IF nofin THEN "idle" ELSE "fin"
  <2>1. m \in Mails /\ m.data = 0 /\ m.fin = FALSE
    BY Zenon, <1>1, <1>4 DEF Mails
  <2>2. mbox' = [mbox EXCEPT ![c] = m]
    BY Zenon, <1>4
  <2> HIDE DEF m
  <2>3. mbox' \in [Sockets -> Mails] /\ mbox'[c] = m /\ \A s \in Sockets \ {c} : mbox'[s] = mbox[s]
    BY Zenon, <1>1, <2>1, <2>2, MailChanges
  <2>4. rx[c] = "fin" /\ c \in Streams
    BY Zenon, <1>1, <1>4 DEF Ending
  <2>5. /\ rx' \in [Sockets -> Ports] /\ rx'[c] = (IF nofin THEN "pending" ELSE "fin")
        /\ \A s \in Sockets \ {c} : rx'[s] = rx[s]
    BY Zenon, <1>1, <1>4, <2>4 DEF CountTypes, Ports
  <2>6. Ending(c)' /\ (l \in {"fin", "shut"} => Drained(c)')
    <3>1. Ending(c)'
      BY Zenon, <1>1, <2>1, <2>3, <2>4, <2>5 DEF Ending
    <3>2. l \in {"fin", "shut"} => Drained(c)'
      BY Zenon, <2>1, <2>3, <2>5 DEF Drained
    <3> QED
      BY Zenon, <3>1, <3>2
  <2>7. Held(c) = 1
    <3>1. mbox[c].data = 0 /\ Num(mbox[c].fin) = 1 /\ Num(rx[c] \in {"pending", "shut"}) = 0
      BY Zenon, <1>4, <2>4 DEF Num
    <3> QED
      BY <3>1 DEF Held
  <2>8. Held(c)' = Num(nofin)
    <3>1. Num(mbox[c].fin)' = 0 /\ mbox'[c].data = 0
      BY Zenon, <2>1, <2>3 DEF Num
    <3>2. CASE nofin
      <4>1. Num(rx[c] \in {"pending", "shut"})' = 1 /\ Num(nofin) = 1
        BY Zenon, <2>5, <3>2 DEF Num
      <4> QED
        BY <3>1, <4>1 DEF Held
    <3>3. CASE ~nofin
      <4>1. Num(rx[c] \in {"pending", "shut"})' = 0 /\ Num(nofin) = 0
        BY Zenon, <2>5, <3>3 DEF Num
      <4> QED
        BY <3>1, <4>1 DEF Held
    <3> QED
      BY Zenon, <3>2, <3>3
  <2>9. Held(c)' \in Int /\ ev'[c].recv + Held(c) + Owes(pc[t]) = ev[c].recv + Held(c)' + Owes(l)
    <3>1. Num(nofin) + Owes(l) = 1 /\ Num(nofin) \in Int /\ Owes(l) \in Int
      BY <1>2 DEF Num
    <3> HIDE DEF l
    <3> QED
      BY <1>1, <1>2, <2>7, <2>8, <3>1
  <2>10. l \in {"idle"} \cup Doings
    BY Zenon DEF Doings
  <2> HIDE DEF l
  <2> QED
    BY Zenon, <1>1, <1>4, <2>3, <2>5, <2>6, <2>9, <2>10, DoingCounts DEF l
<1>5. ASSUME mbox[c].data = 0, ~mbox[c].fin, mbox' = [mbox EXCEPT ![c].err = FALSE], Doing(t, c, "idle"), rx' = rx
      PROVE  CountInv'
  <2> DEFINE m == [mbox[c] EXCEPT !.err = FALSE]
  <2>1. m \in Mails /\ m.data = mbox[c].data /\ m.fin = mbox[c].fin
    BY Zenon, <1>1 DEF Mails
  <2>2. mbox' = [mbox EXCEPT ![c] = m]
    BY Zenon, <1>5
  <2> HIDE DEF m
  <2>3. mbox' \in [Sockets -> Mails] /\ mbox'[c] = m /\ \A s \in Sockets \ {c} : mbox'[s] = mbox[s]
    BY Zenon, <1>1, <2>1, <2>2, MailChanges
  <2>4. Ending(c)'
    BY Zenon, <1>1, <1>5, <2>1, <2>3 DEF Ending
  <2>5. Held(c)' = Held(c)
    BY Zenon, <1>5, <2>1, <2>3 DEF Held
  <2>6. Held(c)' \in Int /\ ev'[c].recv + Held(c) + Owes(pc[t]) = ev[c].recv + Held(c)' + Owes("idle")
    BY Zenon, <1>1, <1>2, <2>5, Numbers
  <2>7. "idle" \in {"idle"} \cup Doings /\ "idle" \notin {"fin", "shut"} /\ rx' \in [Sockets -> Ports]
    BY Zenon, <1>1, <1>5 DEF CountTypes
  <2> QED
    BY Zenon, <1>1, <1>5, <2>3, <2>4, <2>6, <2>7, DoingCounts
<1> QED
  BY Zenon, <1>3, <1>4, <1>5 DEF Fetch


\* A step of lwip_recv that leaves the mailbox as it is.
LEMMA OffCounts ==
  ASSUME SelectInv, ConnType, CountInv, NEW t \in Threads, NEW c \in OwnSet(t), NEW l \in {"idle"} \cup Doings,
         Works(t, c), Doing(t, c, l), UNCHANGED recvVars, UNCHANGED <<mbox, rx>>,
         \A s \in Sockets \ {c} : ev'[s] = ev[s], l \in {"fin", "shut"} => Drained(c), ev'[c].recv \in Int,
         ev'[c].recv + Owes(pc[t]) = ev[c].recv + Owes(l)
  PROVE  CountInv'
<1>1. c \in Sockets /\ CountTypes /\ Ending(c) /\ conn' = conn /\ ev[c].recv \in Int /\ Held(c) \in Int
  BY Zenon, OwnFacts, Numbers DEF CountInv, Good, recvVars
<1>2. Ending(c)' /\ Held(c)' = Held(c) /\ (l \in {"fin", "shut"} => Drained(c)')
  BY Zenon, <1>1 DEF Ending, Held, Drained
<1>3. PICK o \in Int, p \in Int, h \in Int, e \in Int, y \in Int :
        o = Owes(pc[t]) /\ p = Owes(l) /\ h = Held(c) /\ e = ev[c].recv /\ y = ev'[c].recv
  BY Zenon, <1>1, NumType DEF Owes
<1>4. y + o = e + p
  BY Zenon, <1>3
<1>5. y + h + o = e + h + p
  BY ONLY <1>4, o \in Int, p \in Int, h \in Int, e \in Int, y \in Int
<1>6. Held(c)' \in Int /\ ev'[c].recv + Held(c) + Owes(pc[t]) = ev[c].recv + Held(c)' + Owes(l)
  BY Zenon, <1>2, <1>3, <1>5
<1>7. mbox' \in [Sockets -> Mails] /\ rx' \in [Sockets -> Ports]
  BY Zenon, <1>1 DEF CountTypes
<1> QED
  BY Zenon, <1>2, <1>6, <1>7, DoingCounts

\* lwip_recv begins with a message, or with the FIN that was kept.
LEMMA RecvCounts ==
  ASSUME SelectInv, ConnType, CountInv, NEW t \in Threads, NEW c \in OwnSet(t), lwip_recv(t, c)
  PROVE  CountInv'
<1>1. pc[t] = "idle" /\ ev' = ev /\ UNCHANGED recvVars /\ Works(t, c)
  BY Zenon DEF lwip_recv, Works
<1>2. CASE Fetch(t, c, FALSE)
  <2>1. PICK nofin \in BOOLEAN : Fetch(t, c, nofin)
    BY Zenon, <1>2
  <2> QED
    BY Zenon, <1>1, <2>1, FetchCounts
<1>3. CASE rx[c] = "pending" /\ rx' = [rx EXCEPT ![c] = "fin"] /\ Doing(t, c, "fin") /\ mbox' = mbox
  <2>1. c \in Sockets /\ CountTypes /\ Ending(c) /\ conn' = conn /\ ev[c].recv \in Int
    BY Zenon, <1>1, OwnFacts, Numbers DEF CountInv, Good, recvVars
  <2>2. /\ rx' \in [Sockets -> Ports] /\ mbox' \in [Sockets -> Mails] /\ rx'[c] = "fin"
        /\ \A s \in Sockets \ {c} : rx'[s] = rx[s]
    BY Zenon, <1>3, <2>1 DEF CountTypes, Ports
  <2>3. c \in Streams /\ mbox[c].data = 0 /\ ~mbox[c].fin
    BY Zenon, <1>3, <2>1 DEF Ending
  <2>4. Ending(c)' /\ Drained(c)'
    BY Zenon, <1>3, <2>1, <2>2, <2>3 DEF Ending, Drained
  <2>5. Held(c) = 1 /\ Held(c)' = 0
    <3>1. Num(mbox[c].fin) = 0 /\ Num(rx[c] \in {"pending", "shut"}) = 1
      BY Zenon, <1>3, <2>3 DEF Num
    <3>2. mbox'[c].data = 0 /\ Num(mbox[c].fin)' = 0 /\ Num(rx[c] \in {"pending", "shut"})' = 0
      BY Zenon, <1>3, <2>2, <2>3 DEF Num
    <3>3. Held(c) = 1
      BY <2>3, <3>1 DEF Held
    <3>4. Held(c)' = 0
      BY <3>2 DEF Held
    <3> QED
      BY Zenon, <3>3, <3>4
  <2>6. Owes(pc[t]) = 0 /\ Owes("fin") = 1
    BY Zenon, <1>1 DEF Owes, Num
  <2>7. ev'[c].recv \in Int /\ Held(c)' \in Int
        /\ ev'[c].recv + Held(c) + Owes(pc[t]) = ev[c].recv + Held(c)' + Owes("fin")
    BY <1>1, <2>1, <2>5, <2>6
  <2>8. "fin" \in {"idle"} \cup Doings
    BY Zenon DEF Doings
  <2> QED
    BY Zenon, <1>1, <1>3, <2>2, <2>4, <2>7, <2>8, DoingCounts
<1> QED
  BY Zenon, <1>2, <1>3 DEF lwip_recv

\* rcvevent of one socket changes.
LEMMA EventChanges ==
  ASSUME SelectInv, NEW c \in Sockets, NEW n \in Int, ev' = [ev EXCEPT ![c].recv = n]
  PROVE  ev'[c].recv = n /\ \A s \in Sockets \ {c} : ev'[s] = ev[s]
BY Zenon DEF SelectInv, EventTypes

\* Data that was fetched is counted off, ...
LEMMA RecvMinusCounts ==
  ASSUME SelectInv, ConnType, CountInv, NEW t \in Threads, RecvMinus(t) PROVE CountInv'
<1>1. pc[t] = "minus" /\ pc[t] \in Doings /\ UNCHANGED recvVars /\ UNCHANGED <<mbox, rx>>
  BY Zenon DEF RecvMinus, Doings
<1>2. PICK c \in OwnSet(t) : c = Target(t)
  BY Zenon, <1>1, TargetFacts
<1>3. c \in Sockets /\ ev[c].recv \in Int /\ ev' = [ev EXCEPT ![c].recv = ev[c].recv - 1] /\ Works(t, c)
  BY Zenon, <1>1, <1>2, OwnFacts, Numbers DEF RecvMinus, Works
<1>4. PICK n \in Int : n = ev[c].recv - 1
  BY <1>3
<1>5. ev'[c].recv = n /\ \A s \in Sockets \ {c} : ev'[s] = ev[s]
  BY Zenon, <1>3, <1>4, EventChanges
<1>6. PICK l \in {"idle", "more"} : Doing(t, c, l)
  BY Zenon, <1>2 DEF RecvMinus
<1>7. l \in {"idle"} \cup Doings /\ l \notin {"fin", "shut"} /\ Owes(l) = 0 /\ Owes(pc[t]) = 1
  BY Zenon, <1>1, <1>6 DEF Doings, Owes, Num
<1>8. ev'[c].recv + Owes(pc[t]) = ev[c].recv + Owes(l)
  BY <1>3, <1>4, <1>5, <1>7
<1> QED
  BY Zenon, <1>1, <1>3, <1>4, <1>5, <1>6, <1>7, <1>8, OffCounts

\* ... and so is a FIN, ...
LEMMA RecvFinCounts ==
  ASSUME SelectInv, ConnType, CountInv, NEW t \in Threads, RecvFin(t) PROVE CountInv'
<1>1. pc[t] = "fin" /\ pc[t] \in Doings /\ UNCHANGED recvVars /\ UNCHANGED <<mbox, rx>>
  BY Zenon DEF RecvFin, Doings
<1>2. PICK c \in OwnSet(t) : c = Target(t)
  BY Zenon, <1>1, TargetFacts
<1>3. /\ c \in Sockets /\ ev[c].recv \in Int /\ ev' = [ev EXCEPT ![c].recv = ev[c].recv - 1] /\ Works(t, c)
      /\ Drained(c)
  BY Zenon, <1>1, <1>2, OwnFacts, Numbers DEF RecvFin, Works, CountInv, Replaying
<1>4. PICK n \in Int : n = ev[c].recv - 1
  BY <1>3
<1>5. ev'[c].recv = n /\ \A s \in Sockets \ {c} : ev'[s] = ev[s]
  BY Zenon, <1>3, <1>4, EventChanges
<1>6. PICK l \in {"idle", "shut"} : Doing(t, c, l)
  BY Zenon, <1>2 DEF RecvFin
<1>7. l \in {"idle"} \cup Doings /\ Owes(l) = 0 /\ Owes(pc[t]) = 1
  BY Zenon, <1>1, <1>6 DEF Doings, Owes, Num
<1>8. ev'[c].recv + Owes(pc[t]) = ev[c].recv + Owes(l)
  BY <1>3, <1>4, <1>5, <1>7
<1> QED
  BY Zenon, <1>1, <1>3, <1>4, <1>5, <1>6, <1>7, <1>8, OffCounts

\* ... a call that has room left looks for another message, ...
LEMMA RecvMoreCounts ==
  ASSUME SelectInv, ConnType, CountInv, NEW t \in Threads, RecvMore(t) PROVE CountInv'
<1>1. pc[t] = "more" /\ pc[t] \in Doings /\ UNCHANGED recvVars /\ ev' = ev
  BY Zenon DEF RecvMore, Doings
<1>2. PICK c \in OwnSet(t) : c = Target(t)
  BY Zenon, <1>1, TargetFacts
<1>3. c \in Sockets /\ ev[c].recv \in Int /\ Works(t, c)
  BY Zenon, <1>1, <1>2, OwnFacts, Numbers DEF Works
<1>4. CASE Fetch(t, Target(t), TRUE)
  <2>1. PICK nofin \in BOOLEAN : Fetch(t, c, nofin)
    BY Zenon, <1>2, <1>4
  <2> QED
    BY Zenon, <1>1, <1>3, <2>1, FetchCounts
<1>5. CASE Doing(t, Target(t), "idle") /\ UNCHANGED <<mbox, rx>>
  <2>1. Doing(t, c, "idle") /\ UNCHANGED <<mbox, rx>> /\ "idle" \in {"idle"} \cup Doings
    BY Zenon, <1>2, <1>5
  <2>2. Owes(pc[t]) = 0 /\ Owes("idle") = 0 /\ "idle" \notin {"fin", "shut"}
    BY Zenon, <1>1 DEF Owes, Num
  <2>3. /\ ev'[c].recv \in Int /\ ev'[c].recv + Owes(pc[t]) = ev[c].recv + Owes("idle")
        /\ \A s \in Sockets \ {c} : ev'[s] = ev[s]
    BY Zenon, <1>1, <1>3, <2>2
  <2> QED
    BY Zenon, <1>1, <1>3, <2>1, <2>2, <2>3, OffCounts
<1> QED
  BY Zenon, <1>4, <1>5 DEF RecvMore

\* ... and a stream that is read to its end is counted once more, for good.
LEMMA ShutReadCounts ==
  ASSUME SelectInv, ConnType, CountInv, NEW t \in Threads, ShutRead(t) PROVE CountInv'
<1>1. pc[t] = "shut" /\ pc[t] \in Doings /\ UNCHANGED recvVars
  BY Zenon DEF ShutRead, Doings
<1>2. PICK c \in OwnSet(t) : c = Target(t)
  BY Zenon, <1>1, TargetFacts
<1>3. /\ c \in Sockets /\ ev[c].recv \in Int /\ Works(t, c) /\ Drained(c) /\ Doing(t, c, "idle")
      /\ CountTypes /\ Ending(c) /\ conn' = conn
  BY Zenon, <1>1, <1>2, OwnFacts, Numbers DEF Works, ShutRead, CountInv, Replaying, Good, recvVars
<1>4. Owes(pc[t]) = 0 /\ Owes("idle") = 0 /\ "idle" \notin {"fin", "shut"} /\ "idle" \in {"idle"} \cup Doings
  BY Zenon, <1>1 DEF Owes, Num
<1>5. CASE UNCHANGED <<mbox, rx, ev>>
  <2>1. /\ ev'[c].recv \in Int /\ ev'[c].recv + Owes(pc[t]) = ev[c].recv + Owes("idle")
        /\ \A s \in Sockets \ {c} : ev'[s] = ev[s]
    BY Zenon, <1>3, <1>4, <1>5
  <2> QED
    BY Zenon, <1>1, <1>3, <1>4, <1>5, <2>1, OffCounts
<1>6. CASE /\ mbox' = [mbox EXCEPT ![c] = NoMessage] /\ rx' = [rx EXCEPT ![c] = "shut"]
           /\ ev' = [ev EXCEPT ![c].recv = ev[c].recv + 1]
  <2>1. NoMessage \in Mails /\ NoMessage.data = 0 /\ NoMessage.fin = FALSE
    BY BoundAssumption DEF NoMessage, Mails
  <2>2. /\ mbox' \in [Sockets -> Mails] /\ mbox'[c].data = 0 /\ ~mbox'[c].fin
        /\ \A s \in Sockets \ {c} : mbox'[s] = mbox[s]
    BY Zenon, <1>3, <1>6, <2>1, MailChanges
  <2>3. rx' \in [Sockets -> Ports] /\ rx'[c] = "shut" /\ \A s \in Sockets \ {c} : rx'[s] = rx[s]
    BY Zenon, <1>3, <1>6 DEF CountTypes, Ports
  <2>4. PICK n \in Int : n = ev[c].recv + 1
    BY <1>3
  <2>5. ev'[c].recv = n /\ \A s \in Sockets \ {c} : ev'[s] = ev[s]
    BY Zenon, <1>3, <1>6, <2>4, EventChanges
  <2>6. Ending(c)'
    BY Zenon, <1>3, <2>2, <2>3 DEF Ending, Drained
  <2>7. Held(c) = 0 /\ Held(c)' = 1
    <3>1. mbox[c].data = 0 /\ Num(mbox[c].fin) = 0 /\ Num(rx[c] \in {"pending", "shut"}) = 0
      BY Zenon, <1>3 DEF Num, Drained
    <3>2. mbox'[c].data = 0 /\ Num(mbox[c].fin)' = 0 /\ Num(rx[c] \in {"pending", "shut"})' = 1
      BY Zenon, <2>2, <2>3 DEF Num
    <3>3. Held(c) = 0
      BY <3>1 DEF Held
    <3>4. Held(c)' = 1
      BY <3>2 DEF Held
    <3> QED
      BY Zenon, <3>3, <3>4
  <2>8. Held(c)' \in Int /\ ev'[c].recv + Held(c) + Owes(pc[t]) = ev[c].recv + Held(c)' + Owes("idle")
    BY <1>3, <1>4, <2>4, <2>5, <2>7
  <2> QED
    BY Zenon, <1>1, <1>3, <1>4, <2>2, <2>3, <2>4, <2>5, <2>6, <2>8, DoingCounts
<1> QED
  BY Zenon, <1>2, <1>5, <1>6 DEF ShutRead

\* lwip_accept takes over what conn->socket counted.
LEMMA AcceptCounts ==
  ASSUME SelectInv, ConnType, CountInv, NEW t \in Threads, NEW c \in OwnSet(t), lwip_accept(t, c)
  PROVE  CountInv'
<1> DEFINE n == -1 - conn[c]
           e == Signal(c, [k \in 1..n |-> "recv"])
<1>1. /\ c \in Sockets /\ pc[t] = "idle" /\ conn[c] < 0 /\ early' = [early EXCEPT ![t] = e]
      /\ conn' = [conn EXCEPT ![c] = 0] /\ pc' = [pc EXCEPT ![t] = "replay"]
      /\ UNCHANGED <<mbox, rx, gone, ev, evt, tp>> /\ CallTypes /\ CountTypes /\ Good(c)
  BY Zenon, OwnFacts DEF lwip_accept, Goto, SelectInv, CountInv
<1>2. conn[c] \in Int /\ n \in Nat
  <2>1. conn[c] \in Int
    BY Zenon, <1>1 DEF ConnType
  <2> QED
    BY <1>1, <2>1
<1>3. (e = <<>> <=> n = 0) /\ Len(e) = n /\ (e # <<>> => Head(e) = [sock |-> c, kind |-> "recv"])
  <2> HIDE DEF n
  <2>1. e = [k \in 1..n |-> [sock |-> c, kind |-> "recv"]]
    BY Zenon DEF Signal
  <2>2. [k \in 1..n |-> [sock |-> c, kind |-> "recv"]] \in Seq({[sock |-> c, kind |-> "recv"]})
    BY Zenon, <1>2, Repeated
  <2> HIDE DEF e
  <2>3. Len(e) = n /\ e \in Seq({[sock |-> c, kind |-> "recv"]})
    BY <1>2, <2>1, <2>2
  <2>4. e # <<>> => Head(e) \in {[sock |-> c, kind |-> "recv"]}
    BY Zenon, <2>3, HeadOf
  <2>5. e = <<>> <=> n = 0
    BY <1>2, <2>3
  <2> QED
    BY Zenon, <2>3, <2>4, <2>5
<1>4. Before(c) = n
  BY Zenon, <1>1 DEF Before
<1> HIDE DEF n, e
<1>5. early[t] = <<>> /\ early'[t] = e /\ pc'[t] = "replay" /\ conn'[c] = 0
  BY Zenon, <1>1 DEF CountInv, Replaying, CallTypes, ConnType, Doings
<1>6. CountsFor(t, c)
  <2>1. e = <<>> \/ Head(e).sock = c
    BY <1>3
  <2> QED
    BY Zenon, <1>1, <1>5, <2>1 DEF CountsFor, CallTypes, ConnType
<1>7. Replaying(t)'
  <2>1. e # <<>> => Head(e).kind = "recv"
    BY <1>3
  <2> QED
    BY Zenon, <1>5, <2>1 DEF Replaying, Doings
<1>8. Ending(c)' /\ Before(c)' = 0
  <2>1. conn'[c] <= 0 /\ ~(conn'[c] < 0)
    BY <1>5
  <2> QED
    BY Zenon, <1>1, <2>1 DEF Good, Ending, Before
<1>9. /\ Replays(c, "recv") = 0 /\ Replays(c, "minus") = 0 /\ Replays(c, "fin") = 0
      /\ Replays(c, "recv")' = n /\ Replays(c, "minus")' = 0 /\ Replays(c, "fin")' = 0
  <2>1. Replays(c, "recv") = 0 /\ Replays(c, "minus") = 0 /\ Replays(c, "fin") = 0
    BY Zenon, <1>5, ReplaysNone
  <2>2. CASE e = <<>>
    BY Zenon, <1>3, <1>5, <2>1, <2>2, ReplaysNone
  <2>3. CASE e # <<>>
    <3>1. ASSUME NEW j PROVE Replays(c, j)' = IF j = "recv" THEN Len(e) ELSE 0
      <4>1. early'[t] # <<>> /\ Head(early'[t]) = [sock |-> c, kind |-> "recv"]
        BY Zenon, <1>3, <1>5, <2>3
      <4>2. Replays(c, j)' = IF j = "recv" THEN Len(early'[t]) ELSE 0
        BY Zenon, <4>1, ReplaysSome
      <4> QED
        BY Zenon, <1>5, <4>2
    <3> QED
      BY Zenon, <1>3, <2>1, <3>1
  <2> QED
    BY Zenon, <2>2, <2>3
<1>10. Exact(c)'
  <2>1. /\ Num(Due(c, "recv"))' = Num(Due(c, "recv")) /\ Num(gone[c])' = Num(gone[c])
        /\ ev'[c].recv = ev[c].recv /\ Held(c)' = Held(c)
    BY Zenon, <1>1, DueStill DEF Held
  <2>2. PICK x \in Int, d \in Int, h \in Int, g \in Int :
          x = ev[c].recv /\ d = Num(Due(c, "recv")) /\ h = Held(c) /\ g = Num(gone[c])
    BY Zenon, <1>1, Numbers
  <2>3. x + n + d + 0 = h + 0 + 0 + g
    BY Zenon, <1>1, <1>4, <1>9, <2>2 DEF Good, Exact
  <2>4. x + 0 + d + n = h + 0 + 0 + g
    BY ONLY <2>3, x \in Int, d \in Int, h \in Int, g \in Int, <1>2
  <2> QED
    BY Zenon, <1>8, <1>9, <2>1, <2>2, <2>4 DEF Exact
<1> QED
  BY Zenon, <1>1, <1>5, <1>6, <1>7, <1>8, <1>10, OwnerCounts DEF CountTypes, Good

\* ... and counts it in the socket.
LEMMA ReplayCounts ==
  ASSUME SelectInv, ConnType, CountInv, NEW t \in Threads, AcceptReplay(t) PROVE CountInv'
<1>1. /\ pc[t] = "replay" /\ early' = [early EXCEPT ![t] = <<>>] /\ pc' = [pc EXCEPT ![t] = "idle"]
      /\ UNCHANGED <<mbox, rx, gone, conn, evt, tp>> /\ CallTypes /\ EventTypes /\ CountTypes
      /\ early[t] \in Seq(Tasks(t))
  BY Zenon DEF AcceptReplay, Goto, netVars, SelectInv, CountInv, ThreadInv, Locals
<1>2. early'[t] = <<>> /\ pc'[t] = "idle" /\ \A u \in Threads \ {t} : pc'[u] = pc[u] /\ early'[u] = early[u]
  BY Zenon, <1>1 DEF CallTypes
<1>3. Replaying(t)'
  BY Zenon, <1>2 DEF Replaying, Doings
<1>4. CASE early[t] = <<>>
  <2>1. PICK c \in OwnSet(t) : c = Own[t][1]
    BY Zenon, OwnFacts
  <2>2. ev' = ev /\ c \in Sockets /\ early'[t] = early[t]
    BY Zenon, <1>2, <1>4, OwnFacts DEF AcceptReplay
  <2>3. CountsFor(t, c)
    BY Zenon, <1>1, <1>2, <1>4, <2>2 DEF CountsFor
  <2>4. \A u \in Threads : early'[u] = early[u]
    BY Zenon, <1>2, <2>2
  <2>5. Steady(c)
    <3>1. early'[Owner(c)] = early[Owner(c)]
      BY Zenon, <2>2, <2>4, OwnerFacts
    <3>2. \A k : Replays(c, k)' = Replays(c, k)
      BY Zenon, <3>1 DEF Replays
    <3>3. Due(c, "recv")' <=> Due(c, "recv")
      BY Zenon, <1>1 DEF Due
    <3> QED
      BY Zenon, <1>1, <2>2, <3>2, <3>3 DEF Steady
  <2>6. Good(c)'
    BY Zenon, <2>2, <2>5, SteadyGood DEF CountInv
  <2> QED
    BY Zenon, <1>1, <1>3, <2>3, <2>6, OwnerCounts DEF CountTypes
<1>5. CASE early[t] # <<>>
  <2>1. PICK c \in OwnSet(t) : c = Head(early[t]).sock /\ Head(early[t]) = [sock |-> c, kind |-> "recv"]
    <3>1. Head(early[t]) \in Tasks(t) /\ Head(early[t]).kind = "recv"
      BY Zenon, <1>1, <1>5, HeadOf DEF CountInv, Replaying
    <3> QED
      BY Zenon, <3>1 DEF Tasks
  <2> DEFINE n == Len(early[t])
  <2>2. n \in Nat /\ c \in Sockets
    <3>1. n \in Nat
      BY <1>1
    <3> QED
      BY Zenon, <3>1, OwnFacts
  <2>3. ev' = [ev EXCEPT ![c].recv = ev[c].recv + n]
    BY Zenon, <1>5, <2>1 DEF AcceptReplay
  <2>4. /\ Replays(c, "recv") = n /\ Replays(c, "minus") = 0 /\ Replays(c, "fin") = 0
        /\ Replays(c, "recv")' = 0 /\ Replays(c, "minus")' = 0 /\ Replays(c, "fin")' = 0
    <3>1. ASSUME NEW j PROVE Replays(c, j) = IF j = "recv" THEN n ELSE 0
      <4>1. early[t] # <<>> /\ Head(early[t]) = [sock |-> c, kind |-> "recv"]
        BY Zenon, <1>5, <2>1
      <4> QED
        BY Zenon, <4>1, ReplaysSome
    <3> QED
      BY Zenon, <1>2, <3>1, ReplaysNone
  <2> HIDE DEF n
  <2>5. PICK x \in Int, b \in Int, d \in Int, h \in Int, g \in Int :
          x = ev[c].recv /\ b = Before(c) /\ d = Num(Due(c, "recv")) /\ h = Held(c) /\ g = Num(gone[c])
    BY Zenon, <2>2, Numbers
  <2>6. PICK y \in Int : y = x + n
    BY <2>2
  <2>7. ev'[c].recv = y /\ \A s \in Sockets \ {c} : ev'[s] = ev[s]
    BY Zenon, <2>2, <2>3, <2>5, <2>6, EventChanges
  <2>8. CountsFor(t, c)
    BY Zenon, <1>1, <1>2, <2>1, <2>7 DEF CountsFor
  <2>9. Ending(c)' /\ Exact(c)
    BY Zenon, <1>1, <2>2 DEF CountInv, Good, Ending
  <2>10. Exact(c)'
    <3>1. x + b + d + n = h + 0 + 0 + g
      BY Zenon, <2>4, <2>5, <2>9 DEF Exact
    <3>2. y + b + d + 0 = h + 0 + 0 + g
      BY ONLY <3>1, <2>6, x \in Int, b \in Int, d \in Int, h \in Int, g \in Int, <2>2
    <3>3. /\ Num(Due(c, "recv"))' = Num(Due(c, "recv")) /\ Num(gone[c])' = Num(gone[c])
          /\ Before(c)' = Before(c) /\ Held(c)' = Held(c)
      BY Zenon, <1>1, DueStill DEF Held, Before
    <3> QED
      BY Zenon, <2>4, <2>5, <2>7, <3>2, <3>3 DEF Exact
  <2> QED
    BY Zenon, <1>1, <1>3, <2>8, <2>9, <2>10, OwnerCounts DEF CountTypes, Good
<1> QED
  BY Zenon, <1>4, <1>5

\* A write that would block counts no message.
LEMMA WriteCounts ==
  ASSUME SelectInv, ConnType, CountInv, NEW t \in Threads, NEW c \in OwnSet(t), WriteFull(t, c)
  PROVE  CountInv'
<1>1. /\ c \in Sockets /\ ev' = [ev EXCEPT ![c] = [ev[c] EXCEPT !.send = FALSE]] /\ EventTypes
      /\ UNCHANGED <<mbox, rx, gone, conn, evt, tp, pc, early>> /\ CountTypes
  BY Zenon, OwnFacts DEF WriteFull, netVars, callVars, SelectInv, CountInv
<1>2. \A s \in Sockets : ev'[s].recv = ev[s].recv
  BY Zenon, <1>1 DEF EventTypes
<1>3. CountTypes' /\ \A u \in Threads : Replaying(u)'
  BY Zenon, <1>1 DEF CountInv, CountTypes, Replaying, sock, Event, Drained, Target
<1>4. ASSUME NEW s \in Sockets PROVE Good(s)'
  <2>1. Steady(s)
    BY Zenon, <1>1, <1>2 DEF Steady, Due, Replays
  <2> QED
    BY Zenon, <2>1, SteadyGood DEF CountInv
<1> QED
  BY Zenon, <1>3, <1>4 DEF CountInv

LEMMA ThreadCounts ==
  ASSUME SelectInv, ConnType, CountInv, NEW t \in Threads, Step(t) \/ Lock(t) \/ Application(t)
  PROVE  CountInv'
<1>1. CASE AcceptReplay(t) \/ RecvMinus(t) \/ RecvMore(t) \/ RecvFin(t) \/ ShutRead(t)
  BY Zenon, <1>1, ReplayCounts, RecvMinusCounts, RecvMoreCounts, RecvFinCounts, ShutReadCounts
<1>2. CASE \E s \in OwnSet(t) : lwip_accept(t, s) \/ lwip_recv(t, s) \/ WriteFull(t, s)
  BY Zenon, <1>2, AcceptCounts, RecvCounts, WriteCounts
<1>3. CASE \/ FirstScan(t) \/ Inc(t) \/ Rescan(t) \/ Wait(t) \/ Timeout(t) \/ Dec(t) \/ LastScan(t)
           \/ Lock(t) \/ Call(t)
  <2> DEFINE Busy == {"replay"} \cup Doings
  <2>1. UNCHANGED <<mbox, rx, gone, conn, ev, evt, tp, early>>
    BY Zenon, <1>3 DEF FirstScan, Inc, Rescan, Wait, Timeout, Dec, LastScan, Lock, lwip_link_select_cb,
                       lwip_unlink_select_cb, Call, netVars
  <2>2. pc[t] \notin Busy
    BY Zenon, <1>3 DEF FirstScan, Inc, Rescan, Wait, Timeout, Dec, LastScan, Lock, lwip_link_select_cb,
                       lwip_unlink_select_cb, Call, Doings
  <2>3. pc \in [Threads -> Outside \cup Calling]
    BY Zenon DEF SelectInv, CallTypes
  <2>4. PICK l : l \notin Busy /\ pc' = [pc EXCEPT ![t] = l]
    <3>1. CASE FirstScan(t)
      <4>1. PICK next \in AfterScan(t) : pc' = [pc EXCEPT ![t] = IF LastOf(t) THEN next ELSE pc[t]]
        BY Zenon, <3>1 DEF FirstScan, Loop
      <4>2. next \notin Busy
        BY Zenon, <4>1 DEF AfterScan, Doings
      <4> QED
        BY Zenon, <2>2, <4>1, <4>2
    <3>2. CASE Inc(t)
      BY Zenon, <2>2, <3>2 DEF Inc, Loop, Doings
    <3>3. CASE Rescan(t) \/ Dec(t) \/ LastScan(t)
      BY Zenon, <2>2, <3>3 DEF Rescan, Dec, LastScan, Loop, Doings
    <3>4. CASE Wait(t) \/ Timeout(t) \/ Lock(t) \/ Call(t)
      BY Zenon, <3>4 DEF Wait, Timeout, Lock, lwip_link_select_cb, lwip_unlink_select_cb, Call, Goto, Doings
    <3> QED
      BY Zenon, <1>3, <3>1, <3>2, <3>3, <3>4
  <2>5. \A u \in Threads : pc'[u] = pc[u] \/ (pc[u] \notin Busy /\ pc'[u] \notin Busy)
    BY Zenon, <2>2, <2>3, <2>4
  <2> QED
    BY Zenon, <2>1, <2>5, NothingCounted
<1> QED
  BY Zenon, <1>1, <1>2, <1>3 DEF Step, Application

LEMMA CountInit == ASSUME Init PROVE CountInv
<1>1. CountTypes
  <2>1. NoMessage \in Mails /\ DOMAIN evt = {}
    BY BoundAssumption DEF Init, NoMessage, Mails
  <2> QED
    BY Zenon, <2>1 DEF Init, CountTypes, Ports
<1>2. \A t \in Threads : Replaying(t)
  BY Zenon DEF Init, Replaying, Doings
<1>3. ASSUME NEW s \in Sockets PROVE Good(s)
  <2>1. DOMAIN evt = {}
    BY DEF Init
  <2>2. Num(Due(s, "recv")) = 0
    BY Zenon, <2>1 DEF Due, Num
  <2>3. early[Owner(s)] = <<>>
    BY Zenon, OwnerFacts DEF Init
  <2>4. Replays(s, "recv") = 0 /\ Replays(s, "minus") = 0 /\ Replays(s, "fin") = 0
    BY Zenon, <2>3 DEF Replays
  <2>5. /\ ev[s].recv = 0 /\ conn[s] \in {-1, 0} /\ mbox[s].data = 0 /\ ~mbox[s].fin
        /\ rx[s] = "open" /\ ~gone[s]
    BY Zenon DEF Init, Quiet, NoMessage
  <2>6. Num(mbox[s].fin) = 0 /\ Num(rx[s] \in {"pending", "shut"}) = 0 /\ Num(gone[s]) = 0
    BY Zenon, <2>5 DEF Num
  <2>7. conn[s] <= 0 /\ Before(s) = 0
    BY <2>5 DEF Before
  <2>8. Held(s) = 0
    BY <2>5, <2>6 DEF Held
  <2>9. Exact(s)
    BY Zenon, <2>2, <2>4, <2>5, <2>6, <2>7, <2>8 DEF Exact
  <2>10. Ending(s)
    BY Zenon, <2>5, <2>7 DEF Ending
  <2> QED
    BY Zenon, <2>9, <2>10 DEF Good
<1> QED
  BY Zenon, <1>1, <1>2, <1>3 DEF CountInv

\* Every message, and every end of a stream, is counted once, in rcvevent or in
\* conn->socket, whenever it came and however it is read.
THEOREM EventsCountedCorrect == Spec => []EventsCounted
<1>1. Init => CountInv
  BY Zenon, CountInit
<1>2. SelectInv /\ ConnType /\ CountInv /\ [Next]_vars => CountInv'
  <2>1. ASSUME SelectInv, ConnType, CountInv, Next PROVE CountInv'
    BY Zenon, <2>1, EventCounts, NetworkCounts, ThreadCounts DEF Next
  <2>2. ASSUME CountInv, UNCHANGED vars PROVE CountInv'
    BY Zenon, <2>2, NothingCounted DEF vars
  <2> QED
    BY Zenon, <2>1, <2>2
<1>3. SelectInv /\ ConnType /\ CountInv => EventsCounted
  <2> SUFFICES ASSUME SelectInv, ConnType, CountInv PROVE EventsCounted
    BY Zenon
  <2>1. waiting \in [Sockets -> 0..1]
    <3>1. ASSUME NEW s \in Sockets PROVE waiting[s] \in 0..1
      <4>1. Owner(s) \in Threads /\ s \in OwnSet(Owner(s))
        BY Zenon, OwnerFacts
      <4>2. PICK k \in Places(Owner(s)) : s = Own[Owner(s)][k]
        BY Zenon, <4>1, OwnFacts
      <4>3. waiting[s] = 1 \/ waiting[s] = 0
        BY Zenon, <4>1, <4>2 DEF SelectInv, ThreadInv, WaitingCount
      <4> QED
        BY <4>3
    <3> QED
      BY Zenon, <3>1 DEF SelectInv, EventTypes
  <2>2. TypeOK
    <3>1. core \in {"free", "tcpip"}
      BY Zenon DEF SelectInv, EventTypes
    <3> QED
      BY Zenon, <2>1, <3>1 DEF SelectInv, EventTypes, ConnType, CountInv, CountTypes, TypeOK, Mails, Ports
  <2>3. ASSUME NEW s \in Sockets
        PROVE  ev[s].recv + (IF conn[s] < 0 THEN -1 - conn[s] ELSE 0) + Num(Due(s, "recv")) + Replays(s, "recv")
                 = mbox[s].data + Num(mbox[s].fin) + Replays(s, "minus") + Replays(s, "fin") + Ends(s)
    <3>1. PICK b \in Int, d \in Int, r \in Int, m \in Int, f \in Int :
            /\ b = Before(s) /\ d = Num(Due(s, "recv")) /\ r = Replays(s, "recv")
            /\ m = Replays(s, "minus") /\ f = Replays(s, "fin")
      BY Zenon, Numbers
    <3>2. PICK e \in Int, a \in Int, n \in Int, x \in Int, g \in Int :
            /\ e = ev[s].recv /\ a = mbox[s].data /\ n = Num(mbox[s].fin)
            /\ x = Num(rx[s] \in {"pending", "shut"}) /\ g = Num(gone[s])
      BY Zenon, Numbers, NumType
    <3>3. e + b + d + r = (a + n + x) + m + f + g
      BY Zenon, <3>1, <3>2 DEF CountInv, Good, Exact, Held
    <3>4. e + b + d + r = a + n + m + f + (x + g)
      BY ONLY <3>3, e \in Int, b \in Int, d \in Int, r \in Int, a \in Int, n \in Int, x \in Int,
              m \in Int, f \in Int, g \in Int
    <3> QED
      BY Zenon, <3>1, <3>2, <3>4 DEF Before, Ends
  <2> QED
    BY Zenon, <2>2, <2>3 DEF EventsCounted
<1>4. Spec => []CountInv
  BY <1>1, <1>2, SelectInvariant, ConnTypeInvariant, PTL DEF Spec
<1> QED
  BY <1>3, <1>4, SelectInvariant, ConnTypeInvariant, PTL
===============================================================================
