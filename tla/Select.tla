-------------------------------- MODULE Select --------------------------------
(***************************************************************************)
(* Events of sockets (sockets.c): the tcpip thread counts them with            *)
(* event_callback, the threads that own the sockets wait for them with        *)
(* lwip_select and lwip_poll, and accept a connection whose first data may     *)
(* come before it has a socket.  SYS_ARCH_PROTECT makes a region one step,     *)
(* and the list of waiting calls changes under the core lock.                *)
(***************************************************************************)
EXTENDS Integers, Sequences

CONSTANTS Threads,
          Own,          \* Own[t]: the sockets that t selects on, in the order of their numbers
          Streams,      \* the sockets of TCP connections, the others are of UDP
          Accepted,     \* those of them that lwip_accept makes, of connections that are already open
          MboxSize,     \* bound: messages in the mailbox of a connection
          Patient,      \* the threads whose calls may have no timeout
          Wants         \* sets of events that calls ask for, of "recv", "send", "error"

OwnSet(t) == {Own[t][k] : k \in DOMAIN Own[t]}

\* A thread has sockets, each of them once, that no other thread uses.
ASSUME OwnAssumption ==
  \A t \in Threads :
    /\ Own[t] \in Seq(OwnSet(t)) /\ Own[t] # <<>>
    /\ \A j, k \in DOMAIN Own[t] : Own[t][j] = Own[t][k] => j = k
    /\ \A u \in Threads : OwnSet(t) \cap OwnSet(u) # {} => t = u
ASSUME BoundAssumption == MboxSize \in Nat /\ Wants \subseteq SUBSET {"recv", "send", "error"}

VARIABLES
  mbox,         \* mbox[s]: recvmbox of s: messages with data, then netconn_closed, then an error
  rx,           \* rx[s]: whether the peer's FIN came, waits for the next call, or was read
  gone,         \* gone[s]: pcb.tcp is NULL, the connection was aborted
  conn,         \* conn[s]: conn->socket, 0 for the number of s, below 0 before it has one
  ev,           \* ev[s]: rcvevent, sendevent and errevent
  waiting,      \* waiting[s]: select_waiting
  linked,       \* threads whose select_cb is in select_cb_list
  cb,           \* cb[t]: the select_cb of t, with sem_signalled and its semaphore
  core,         \* holder of the core lock, or "free"
  evt,          \* callbacks that the tcpip thread has to make, each [sock, kind]
  tp,           \* where the tcpip thread is in event_callback
  has,          \* the events that it saved for select_check_waiters
  pc, i,        \* where t is, and the index of its loop over its sockets
  found,        \* found[t]: the sockets that the scan of t found ready, and returned
  early         \* early[t]: what lwip_accept replays, or what lwip_recv has to do next

netVars == <<mbox, rx, gone, conn, core, evt, tp, has>>
callVars == <<pc, i, found, early>>
vars == <<mbox, rx, gone, conn, ev, waiting, linked, cb, core, evt, tp, has, pc, i, found, early>>

Sockets == UNION {OwnSet(t) : t \in Threads}
Owner(s) == CHOOSE t \in Threads : s \in OwnSet(t)
NoCall == [poll |-> FALSE, want |-> {}, forever |-> TRUE, signalled |-> FALSE, sem |-> 0]
Quiet == [recv |-> 0, send |-> FALSE, err |-> FALSE]

NoMessage == [data |-> 0, fin |-> FALSE, err |-> FALSE]
Num(b) == IF b THEN 1 ELSE 0

Init ==
  /\ mbox = [s \in Sockets |-> NoMessage]
  /\ rx = [s \in Sockets |-> "open"] /\ gone = [s \in Sockets |-> FALSE]
  /\ conn = [s \in Sockets |-> IF s \in Accepted THEN -1 ELSE 0]
  /\ ev = [s \in Sockets |-> [Quiet EXCEPT !.send = TRUE]]
  /\ waiting = [s \in Sockets |-> 0]
  /\ linked = {} /\ cb = [t \in Threads |-> NoCall]
  /\ core = "free" /\ evt = <<>> /\ tp = "idle" /\ has = {}
  /\ pc = [t \in Threads |-> "idle"] /\ i = [t \in Threads |-> 1]
  /\ found = [t \in Threads |-> {}] /\ early = [t \in Threads |-> <<>>]

(***************************************************************************)
(* The tcpip thread: recv_udp, recv_tcp, sent_tcp and err_tcp                 *)
(***************************************************************************)
Signal(s, kinds) == [k \in DOMAIN kinds |-> [sock |-> s, kind |-> kinds[k]]]

TcpipCalls(s, kinds) ==
  /\ core = "free"
  /\ core' = "tcpip" /\ tp' = "read" /\ evt' = Signal(s, kinds)
  /\ UNCHANGED <<conn, ev, waiting, linked, cb, has, callVars>>

HasRoom(s) == mbox[s].data + Num(mbox[s].fin) + Num(mbox[s].err) < MboxSize

\* sys_mbox_trypost and its event; what a full mailbox refuses is presented again
\* later if it is data of a stream, and lost if it is a datagram or a FIN.
Post(s, kind) ==
  IF HasRoom(s)
    THEN /\ mbox' = [mbox EXCEPT ![s].data = IF kind = "data" THEN @ + 1 ELSE @,
                                 ![s].fin = @ \/ kind = "closed"]
         /\ TcpipCalls(s, <<"recv">>)
    ELSE core = "free" /\ UNCHANGED <<mbox, conn, ev, waiting, linked, cb, core, evt, tp, has, callVars>>

recv_udp(s) == s \notin Streams /\ Post(s, "data") /\ UNCHANGED <<rx, gone>>

\* Called with data and, once, with a FIN.
recv_tcp(s) ==
  /\ s \in Streams /\ rx[s] = "open" /\ ~gone[s]
  /\ \E kind \in {"data", "closed"} :
       Post(s, kind) /\ rx' = [rx EXCEPT ![s] = IF kind = "closed" THEN "fin" ELSE @]
  /\ UNCHANGED gone

sent_tcp(s) ==
  /\ s \in Streams /\ ~gone[s] /\ ~ev[s].send
  /\ TcpipCalls(s, <<"send">>)
  /\ UNCHANGED <<mbox, rx, gone>>

\* Registered by setup_tcp, for a connection that waits to be accepted too.
err_tcp(s) ==
  /\ s \in Streams /\ ~gone[s]
  /\ gone' = [gone EXCEPT ![s] = TRUE]
  /\ TcpipCalls(s, <<"error", "recv", "send", "post">>)
  /\ UNCHANGED <<mbox, rx>>

(***************************************************************************)
(* event_callback                                                           *)
(***************************************************************************)
Event == Head(evt)
sock == Event.sock

\* The end of a callback: the next one, or the tcpip thread gives up the core lock.
EventDone ==
  /\ evt' = Tail(evt)
  /\ tp' = IF Tail(evt) = <<>> THEN "idle" ELSE "read"
  /\ core' = IF Tail(evt) = <<>> THEN "free" ELSE core

\* After its callbacks err_tcp posts an error, which no event goes with.
ErrPost ==
  /\ tp = "read" /\ Event.kind = "post"
  /\ mbox' = [mbox EXCEPT ![sock].err = rx[sock] # "shut" /\ HasRoom(sock)]
  /\ EventDone
  /\ UNCHANGED <<rx, gone, conn, ev, waiting, linked, cb, has, callVars>>

\* conn->socket is read without protection first.
EventRead ==
  /\ tp = "read" /\ Event.kind # "post"
  /\ tp' = IF conn[sock] < 0 THEN "recheck" ELSE "set"
  /\ UNCHANGED <<mbox, rx, gone, conn, ev, waiting, linked, cb, core, evt, has, callVars>>

\* Mutant: the socket number is not read again under protection.
EventRecheck_Stale ==
  /\ tp = "recheck"
  /\ conn' = [conn EXCEPT ![sock] = IF @ < 0 /\ Event.kind = "recv" THEN @ - 1 ELSE @]
  /\ EventDone
  /\ UNCHANGED <<mbox, rx, gone, ev, waiting, linked, cb, has, callVars>>

\* Without a socket only data is counted, other events are dropped.
EventRecheck ==
  /\ tp = "recheck"
  /\ IF conn[sock] < 0
       THEN conn' = [conn EXCEPT ![sock] = IF Event.kind = "recv" THEN @ - 1 ELSE @] /\ EventDone
       ELSE tp' = "set" /\ UNCHANGED <<conn, core, evt>>
  /\ UNCHANGED <<mbox, rx, gone, ev, waiting, linked, cb, has, callVars>>

\* The events of a socket after one of them, and whether waiters are looked for.
Applied(e, kind) ==
  [e EXCEPT !.recv = IF kind = "recv" THEN @ + 1 ELSE @,
            !.send = @ \/ kind = "send",
            !.err  = @ \/ kind = "error"]

\* Mutant: waiters are looked for only when data is left from before.
CheckWaiters_Later(e, kind) ==
  CASE kind = "recv" -> e.recv + 1 > 1
    [] kind = "send" -> ~e.send
    [] OTHER -> TRUE

CheckWaiters(e, kind) ==
  CASE kind = "recv" -> e.recv + 1 <= 1
    [] kind = "send" -> ~e.send
    [] OTHER -> TRUE

Active(e) == {k \in {"recv", "send", "error"} :
                CASE k = "recv" -> e.recv > 0 [] k = "send" -> e.send [] OTHER -> e.err}

EventSet ==
  /\ tp = "set"
  /\ ev' = [ev EXCEPT ![sock] = Applied(@, Event.kind)]
  /\ IF waiting[sock] > 0 /\ CheckWaiters(ev[sock], Event.kind)
       THEN tp' = "check" /\ has' = Active(ev'[sock]) /\ UNCHANGED <<core, evt>>
       ELSE EventDone /\ UNCHANGED has
  /\ UNCHANGED <<mbox, rx, gone, conn, waiting, linked, cb, callVars>>

\* Mutant: any event of its sockets wakes a call.
ShouldWake_Any(t, s, kinds) ==
  t \in linked /\ ~cb[t].signalled /\ s \in OwnSet(t) /\ kinds # {}

\* select_check_waiters: a call asks for the events of cb.want; poll always has errors.
ShouldWake(t, s, kinds) ==
  /\ t \in linked /\ ~cb[t].signalled /\ s \in OwnSet(t)
  /\ \/ cb[t].want \cap kinds # {}
     \/ cb[t].poll /\ "error" \in kinds

Woken(s, kinds) ==
  [t \in Threads |-> IF ShouldWake(t, s, kinds) THEN [cb[t] EXCEPT !.signalled = TRUE, !.sem = 1]
                     ELSE cb[t]]

select_check_waiters ==
  /\ tp = "check"
  /\ cb' = Woken(sock, has) /\ has' = {}
  /\ EventDone
  /\ UNCHANGED <<mbox, rx, gone, conn, ev, waiting, linked, callVars>>

(***************************************************************************)
(* The owner of a socket: lwip_accept and lwip_recv                           *)
(***************************************************************************)
Goto(t, l) == pc' = [pc EXCEPT ![t] = l]

lwip_accept(t, s) ==
  /\ pc[t] = "idle" /\ conn[s] < 0
  /\ early' = [early EXCEPT ![t] = Signal(s, [k \in 1..(-1 - conn[s]) |-> "recv"])]
  /\ conn' = [conn EXCEPT ![s] = 0]
  /\ Goto(t, "replay")
  /\ UNCHANGED <<mbox, rx, gone, ev, waiting, linked, cb, core, evt, tp, has, i, found>>

\* The callbacks for the data that came before; nobody waits for the socket yet.
AcceptReplay(t) ==
  /\ pc[t] = "replay" /\ core = "free"
  /\ ev' = IF early[t] = <<>> THEN ev
           ELSE [ev EXCEPT ![Head(early[t]).sock].recv = @ + Len(early[t])]
  /\ early' = [early EXCEPT ![t] = <<>>]
  /\ Goto(t, "idle")
  /\ UNCHANGED <<netVars, waiting, linked, cb, i, found>>

Doing(t, s, l) ==
  /\ Goto(t, l)
  /\ early' = [early EXCEPT ![t] = IF l = "idle" THEN <<>> ELSE Signal(s, <<l>>)]

\* netconn_recv_data fetches the next message, netconn_recv_data_tcp looks at it: data is
\* counted off, a FIN too unless nofin asks to keep it for the next call, an error is not.
Fetch(t, s, nofin) ==
  \/ /\ mbox[s].data > 0
     /\ mbox' = [mbox EXCEPT ![s].data = @ - 1]
     /\ Doing(t, s, "minus") /\ UNCHANGED rx
  \/ /\ mbox[s].data = 0 /\ mbox[s].fin
     /\ mbox' = [mbox EXCEPT ![s].fin = FALSE]
     /\ rx' = [rx EXCEPT ![s] = IF nofin THEN "pending" ELSE @]
     /\ Doing(t, s, IF nofin THEN "idle" ELSE "fin")
  \/ /\ mbox[s].data = 0 /\ ~mbox[s].fin /\ mbox[s].err
     /\ mbox' = [mbox EXCEPT ![s].err = FALSE]
     /\ Doing(t, s, "idle") /\ UNCHANGED rx

recvVars == <<gone, conn, waiting, linked, cb, core, evt, tp, has, i, found>>

\* A call takes each message it fetches whole: sock->lastdata stays empty.
lwip_recv(t, s) ==
  /\ pc[t] = "idle" /\ conn[s] = 0
  /\ \/ rx[s] # "pending" /\ Fetch(t, s, FALSE)
     \/ /\ rx[s] = "pending" /\ rx' = [rx EXCEPT ![s] = "fin"]
        /\ Doing(t, s, "fin") /\ UNCHANGED mbox
  /\ UNCHANGED <<ev, recvVars>>

Target(t) == early[t][1].sock

\* The data is counted off; a call on a stream that has room left takes more.
RecvMinus(t) ==
  /\ pc[t] = "minus"
  /\ ev' = [ev EXCEPT ![Target(t)].recv = @ - 1]
  /\ \E l \in {"idle"} \cup (IF Target(t) \in Streams THEN {"more"} ELSE {}) :
       Doing(t, Target(t), l)
  /\ UNCHANGED <<mbox, rx, recvVars>>

RecvMore(t) ==
  /\ pc[t] = "more"
  /\ \/ Fetch(t, Target(t), TRUE)
     \/ mbox[Target(t)] = NoMessage /\ Doing(t, Target(t), "idle") /\ UNCHANGED <<mbox, rx>>
  /\ UNCHANGED <<ev, recvVars>>

\* handle_fin
RecvFin(t) ==
  /\ pc[t] = "fin"
  /\ ev' = [ev EXCEPT ![Target(t)].recv = @ - 1]
  /\ Doing(t, Target(t), IF gone[Target(t)] THEN "idle" ELSE "shut")
  /\ UNCHANGED <<mbox, rx, recvVars>>

\* lwip_netconn_do_close frees the mailbox of a stream that is read to its end, and
\* an event makes the socket readable for good.
ShutRead(t) ==
  LET s == Target(t)
  IN /\ pc[t] = "shut" /\ core = "free"
     /\ IF gone[s] THEN UNCHANGED <<mbox, rx, ev>>
        ELSE /\ mbox' = [mbox EXCEPT ![s] = NoMessage]
             /\ rx' = [rx EXCEPT ![s] = "shut"]
             /\ ev' = [ev EXCEPT ![s].recv = @ + 1]
     /\ Doing(t, s, "idle")
     /\ UNCHANGED recvVars

\* lwip_netconn_do_writemore: a write that would block makes the socket unwritable.
WriteFull(t, s) ==
  /\ pc[t] = "idle" /\ conn[s] = 0 /\ core = "free" /\ s \in Streams /\ ~gone[s] /\ ev[s].send
  /\ ev' = [ev EXCEPT ![s].send = FALSE]
  /\ UNCHANGED <<netVars, waiting, linked, cb, callVars>>

(***************************************************************************)
(* lwip_select and lwip_poll: scan, link, count in and scan again, wait,       *)
(* count out, unlink.  Each step of a loop looks at one socket.              *)
(***************************************************************************)
Cur(t) == Own[t][i[t]]
LastOf(t) == i[t] = Len(Own[t])
Opened(t) == \A s \in OwnSet(t) : conn[s] = 0

Ready(t, s) ==
  \/ "recv" \in cb[t].want /\ ev[s].recv > 0
  \/ "send" \in cb[t].want /\ ev[s].send
  \/ (cb[t].poll \/ "error" \in cb[t].want) /\ ev[s].err

Loop(t, next) ==
  /\ i' = [i EXCEPT ![t] = IF LastOf(t) THEN 1 ELSE @ + 1]
  /\ pc' = [pc EXCEPT ![t] = IF LastOf(t) THEN next ELSE @]

Scanned(t) == IF Ready(t, Cur(t)) THEN found[t] \cup {Cur(t)} ELSE found[t]
Scan(t) == found' = [found EXCEPT ![t] = Scanned(t)]

Call(t) ==
  /\ pc[t] = "idle" /\ Opened(t)
  /\ \E poll, forever \in BOOLEAN, want \in Wants :
       /\ forever => t \in Patient
       /\ cb' = [cb EXCEPT ![t] = [NoCall EXCEPT !.poll = poll, !.want = want, !.forever = forever]]
  /\ Goto(t, "scan")
  /\ found' = [found EXCEPT ![t] = {}]
  /\ UNCHANGED <<netVars, ev, waiting, linked, i, early>>

Returns(t) == cb' = [cb EXCEPT ![t] = NoCall]

\* With nothing found, a call whose timeout is 0 returns at once.
AfterScan(t) ==
  IF Scanned(t) # {} THEN {"idle"} ELSE {"link"} \cup (IF cb[t].forever THEN {} ELSE {"idle"})

FirstScan(t) ==
  /\ pc[t] = "scan"
  /\ Scan(t)
  /\ \E next \in AfterScan(t) :
       /\ Loop(t, next)
       /\ IF LastOf(t) /\ next = "idle" THEN Returns(t) ELSE UNCHANGED cb
  /\ UNCHANGED <<netVars, ev, waiting, linked, early>>

lwip_link_select_cb(t) ==
  /\ pc[t] = "link" /\ core = "free"
  /\ linked' = linked \cup {t}
  /\ Goto(t, "inc")
  /\ UNCHANGED <<netVars, ev, waiting, cb, i, found, early>>

\* lwip_poll counts and scans in one region, lwip_select scans in a loop of its own.
Inc(t) ==
  /\ pc[t] = "inc"
  /\ waiting' = [waiting EXCEPT ![Cur(t)] = @ + 1]
  /\ IF cb[t].poll
       THEN Scan(t) /\ Loop(t, IF Scanned(t) # {} THEN "dec" ELSE "wait")
       ELSE Loop(t, "rescan") /\ UNCHANGED found
  /\ UNCHANGED <<netVars, ev, linked, cb, early>>

\* Mutant: no second scan.
Rescan_Skipped(t) ==
  /\ pc[t] = "rescan"
  /\ Goto(t, "wait")
  /\ UNCHANGED <<netVars, ev, waiting, linked, cb, i, found, early>>

Rescan(t) ==
  /\ pc[t] = "rescan"
  /\ Scan(t)
  /\ Loop(t, IF Scanned(t) # {} THEN "dec" ELSE "wait")
  /\ UNCHANGED <<netVars, ev, waiting, linked, cb, early>>

\* sys_arch_sem_wait ends with the semaphore or, if the call has one, the timeout.
Wait(t) ==
  /\ pc[t] = "wait" /\ cb[t].sem = 1
  /\ cb' = [cb EXCEPT ![t].sem = 0]
  /\ Goto(t, "dec")
  /\ UNCHANGED <<netVars, ev, waiting, linked, i, found, early>>

Timeout(t) ==
  /\ pc[t] = "wait" /\ cb[t].sem = 0 /\ ~cb[t].forever
  /\ Goto(t, "dec")
  /\ UNCHANGED <<netVars, ev, waiting, linked, cb, i, found, early>>

Dec(t) ==
  /\ pc[t] = "dec"
  /\ waiting' = [waiting EXCEPT ![Cur(t)] = @ - 1]
  /\ IF cb[t].poll THEN Scan(t) ELSE UNCHANGED found
  /\ Loop(t, "unlink")
  /\ UNCHANGED <<netVars, ev, linked, cb, early>>

\* A select that did not time out scans a third time.
lwip_unlink_select_cb(t) ==
  /\ pc[t] = "unlink" /\ core = "free"
  /\ linked' = linked \ {t}
  /\ IF ~cb[t].poll /\ (found[t] # {} \/ (cb[t].signalled /\ cb[t].sem = 0))
       THEN /\ Goto(t, "last") /\ found' = [found EXCEPT ![t] = {}]
            /\ UNCHANGED cb
       ELSE /\ Goto(t, "idle") /\ Returns(t)
            /\ UNCHANGED found
  /\ UNCHANGED <<netVars, ev, waiting, i, early>>

LastScan(t) ==
  /\ pc[t] = "last"
  /\ Scan(t)
  /\ Loop(t, "idle")
  /\ IF LastOf(t) THEN Returns(t) ELSE UNCHANGED cb
  /\ UNCHANGED <<netVars, ev, waiting, linked, early>>

EventStep == ErrPost \/ EventRead \/ EventRecheck \/ EventSet \/ select_check_waiters

Network == \E s \in Sockets : recv_udp(s) \/ recv_tcp(s) \/ sent_tcp(s) \/ err_tcp(s)

\* What a thread does that is in the middle of a call.
Step(t) ==
  \/ AcceptReplay(t) \/ RecvMinus(t) \/ RecvMore(t) \/ RecvFin(t) \/ ShutRead(t)
  \/ FirstScan(t) \/ Inc(t) \/ Rescan(t) \/ Wait(t) \/ Timeout(t) \/ Dec(t) \/ LastScan(t)

Lock(t) == lwip_link_select_cb(t) \/ lwip_unlink_select_cb(t)

Application(t) ==
  \/ Call(t)
  \/ \E s \in OwnSet(t) : lwip_accept(t, s) \/ lwip_recv(t, s) \/ WriteFull(t, s)

Next == EventStep \/ Network \/ \E t \in Threads : Step(t) \/ Lock(t) \/ Application(t)

Spec == Init /\ [][Next]_vars

\* The threads run, and the core lock is granted to a thread that keeps asking for it.
FairSpec ==
  Spec /\ WF_vars(EventStep) /\ \A t \in Threads : WF_vars(Step(t)) /\ SF_vars(Lock(t))
-------------------------------------------------------------------------------
(***************************************************************************)
(* Properties                                                               *)
(***************************************************************************)
TypeOK ==
  /\ mbox \in [Sockets -> [data : 0..MboxSize, fin : BOOLEAN, err : BOOLEAN]]
  /\ rx \in [Sockets -> {"open", "fin", "pending", "shut"}] /\ gone \in [Sockets -> BOOLEAN]
  /\ conn \in [Sockets -> Int]
  /\ ev \in [Sockets -> [recv : Int, send : BOOLEAN, err : BOOLEAN]]
  /\ waiting \in [Sockets -> 0..1] /\ linked \subseteq Threads
  /\ core \in {"free", "tcpip"} /\ tp \in {"idle", "read", "recheck", "set", "check"}

\* A callback of kind k is still to be counted for s; evt never has two of them.
Due(s, k) == \E n \in DOMAIN evt : evt[n] = [sock |-> s, kind |-> k] /\ ~(n = 1 /\ tp = "check")
\* The events of kind k that the owner of s still has to count or to count off.
Replays(s, k) ==
  LET e == early[Owner(s)] IN IF e # <<>> /\ Head(e) = [sock |-> s, kind |-> k] THEN Len(e) ELSE 0
\* The ends of its stream that a socket stays readable for: a FIN that is kept for the
\* next call or was read, and an abort.
Ends(s) == Num(rx[s] \in {"pending", "shut"}) + Num(gone[s])

\* Every message is counted once, whether it came before the connection had a socket,
\* while lwip_accept gave it one, or after: rcvevent (or what conn->socket counts
\* down) differs from the data and the FIN in the mailbox by the callbacks under way
\* and by the ends of the stream, for which it stays above 0 with an empty mailbox.
EventsCounted ==
  /\ TypeOK
  /\ \A s \in Sockets :
       ev[s].recv + (IF conn[s] < 0 THEN -1 - conn[s] ELSE 0) + Num(Due(s, "recv")) + Replays(s, "recv")
         = mbox[s].data + Num(mbox[s].fin) + Replays(s, "minus") + Replays(s, "fin") + Ends(s)

\* No call sleeps beside an event it asked for: select_waiting is raised before the
\* second scan, so that an event is either seen by it or finds the call in the list.
NoMissedEvent ==
  \A t \in Threads : pc[t] = "wait" /\ cb[t].sem = 0 =>
    \A s \in OwnSet(t) : Ready(t, s) => tp = "check" /\ sock = s

\* A call without a timeout returns with a socket that is ready: it is woken only by
\* events that it asked for, and they last until it scans for them.
ReturnsReady ==
  [][\A t \in Threads : cb[t].forever /\ cb[t] # NoCall /\ cb'[t] = NoCall => found'[t] # {}]_vars

\* A thread that calls lwip_select or lwip_poll for data gets back when there is some,
\* or when the stream has ended, before the call or at any moment of it.
SelectWakes ==
  \A t \in Threads : \A s \in OwnSet(t) :
    ("recv" \in cb[t].want /\ (mbox[s].data > 0 \/ mbox[s].fin \/ Ends(s) > 0)) ~> cb[t] = NoCall
===============================================================================
