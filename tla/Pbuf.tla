--------------------------------- MODULE Pbuf ---------------------------------
(***************************************************************************)
(* Packet buffers (pbuf.c): chains of blocks with reference counts that      *)
(* several threads take and drop, and the request for memory that an empty   *)
(* pool makes.  A region under SYS_ARCH_PROTECT is one step (SysProt); the    *)
(* code between two such regions is not protected.                           *)
(***************************************************************************)
EXTENDS Integers, FiniteSets, Sequences, SequencesExt

CONSTANTS Threads, Tcpip,   \* Tcpip: the thread that owns the TCP queues
          Editors,          \* threads that cut and join chains
          PoolBlocks,       \* blocks of MEMP_PBUF_POOL
          RefBlocks,        \* blocks of MEMP_PBUF
          BufSize,          \* PBUF_POOL_BUFSIZE
          Lengths,          \* lengths that pbuf_alloc is asked for
          Cuts              \* lengths of headers and of shortened packets

NULL == "NULL"
Blocks == PoolBlocks \cup RefBlocks

VARIABLES pb,       \* pb[b]: the fields ref, next, len and tot_len of block b
          free,     \* blocks in their pool
          held,     \* held[t]: pbufs to which thread t owns a reference
          pc,       \* pc[t]: where thread t is
          cur,      \* cur[t]: the pbuf that pbuf_free is looking at
          nxt,      \* nxt[t]: its successor, read before the block is given back
          todo,     \* todo[t]: the function that called pbuf_free, and its locals
          ooseq,    \* pbufs in the out-of-sequence queue of a connection
          pending,  \* pbuf_free_ooseq_pending
          queued    \* calls of pbuf_free_ooseq in the mailbox of tcpip_thread

vars == <<pb, free, held, pc, cur, nxt, todo, ooseq, pending, queued>>
ooseqVars == <<ooseq, pending, queued>>

Fresh(n, total) == [ref |-> 1, next |-> NULL, len |-> n, tot_len |-> total]
Garbage == [ref |-> 0, next |-> NULL, len |-> 0, tot_len |-> 0]
Nothing == [op |-> "none", p |-> NULL, n |-> 0]

Goto(t, from, to) == pc[t] = from /\ pc' = [pc EXCEPT ![t] = to]
Least(a, b) == IF a < b THEN a ELSE b

\* The chain that starts at p.
Chain(p) ==
  LET chain[b \in Blocks \cup {NULL}] ==
        IF b = NULL THEN <<>> ELSE <<b>> \o chain[pb[b].next]
  IN  chain[p]
Pbufs(p) == ToSet(Chain(p))

\* The caller's contract for changing a chain: it holds the only reference.
Exclusive(t, p) == p \in held[t] /\ \A b \in Pbufs(p) : pb[b].ref = 1

Init ==
  /\ pb = [b \in Blocks |-> Garbage]
  /\ free = Blocks
  /\ held = [t \in Threads |-> {}]
  /\ pc = [t \in Threads |-> "idle"]
  /\ cur = [t \in Threads |-> NULL]
  /\ nxt = [t \in Threads |-> NULL]
  /\ todo = [t \in Threads |-> Nothing]
  /\ ooseq = {} /\ pending = FALSE /\ queued = 0

(***************************************************************************)
(* pbuf_free                                                                *)
(***************************************************************************)
\* Call pbuf_free(p), and afterwards do what `then` says.
CallFree(t, p, then) ==
  /\ pc' = [pc EXCEPT ![t] = "dec"]
  /\ cur' = [cur EXCEPT ![t] = p]
  /\ todo' = [todo EXCEPT ![t] = then]

pbuf_free(t, p) ==
  /\ pc[t] = "idle" /\ p \in held[t]
  /\ held' = [held EXCEPT ![t] = @ \ {p}]
  /\ CallFree(t, p, Nothing)
  /\ UNCHANGED <<pb, free, nxt, ooseqVars>>

\* Back to the caller of pbuf_free: pbuf_realloc cuts the chain, and
\* pbuf_free_header goes on.
FreeReturn(t, pbs) ==
  /\ cur' = [cur EXCEPT ![t] = NULL]
  /\ pc' = [pc EXCEPT ![t] = IF todo[t].op = "header" THEN "header" ELSE "idle"]
  /\ todo' = [todo EXCEPT ![t] = IF @.op = "header" THEN @ ELSE Nothing]
  /\ pb' = IF todo[t].op = "unlink" THEN [pbs EXCEPT ![todo[t].p].next = NULL] ELSE pbs

\* Mutant: the count is read again, without protection, after the decrement.
FreeDecUnprotected(t) ==
  /\ Goto(t, "dec", "next")
  /\ pb' = [pb EXCEPT ![cur[t]].ref = @ - 1]
  /\ UNCHANGED <<free, held, cur, nxt, todo, ooseqVars>>

\* ref = --(p->ref), protected; the test of ref is on the local copy.
FreeDec(t) ==
  /\ pc[t] = "dec"
  /\ LET pbs == [pb EXCEPT ![cur[t]].ref = @ - 1]
     IN  IF pbs[cur[t]].ref = 0
           THEN pb' = pbs /\ pc' = [pc EXCEPT ![t] = "next"] /\ UNCHANGED <<cur, todo>>
           ELSE FreeReturn(t, pbs)
  /\ UNCHANGED <<free, held, nxt, ooseqVars>>

FreeNext(t) ==
  /\ Goto(t, "next", "block")
  /\ nxt' = [nxt EXCEPT ![t] = pb[cur[t]].next]
  /\ UNCHANGED <<pb, free, held, cur, todo, ooseqVars>>

\* Give the block back to the pool it came from, and go on with its successor.
FreeBlock(t) ==
  /\ pc[t] = "block"
  /\ free' = free \cup {cur[t]}
  /\ nxt' = [nxt EXCEPT ![t] = NULL]
  /\ LET pbs == [pb EXCEPT ![cur[t]] = Garbage]
     IN  IF nxt[t] = NULL
           THEN FreeReturn(t, pbs)
           ELSE /\ pb' = pbs
                /\ pc' = [pc EXCEPT ![t] = "dec"]
                /\ cur' = [cur EXCEPT ![t] = nxt[t]]
                /\ UNCHANGED todo
  /\ UNCHANGED <<held, ooseqVars>>

(***************************************************************************)
(* pbuf_alloc(PBUF_POOL), pbuf_alloc_reference                              *)
(***************************************************************************)
pbuf_alloc(t) ==
  /\ Goto(t, "idle", "alloc")
  /\ \E n \in Lengths : todo' = [todo EXCEPT ![t] = [op |-> "alloc", p |-> NULL, n |-> n]]
  /\ UNCHANGED <<pb, free, held, cur, nxt, ooseqVars>>

\* One block more; the last one hands the chain to the caller.
AllocBlock(t) ==
  /\ pc[t] = "alloc"
  /\ \E b \in free \cap PoolBlocks :
       LET rem == todo[t].n
           qlen == Least(rem, BufSize)
           p == IF todo[t].p = NULL THEN b ELSE todo[t].p
           pbs == [pb EXCEPT ![b] = Fresh(qlen, rem)]
       IN  /\ free' = free \ {b}
           /\ pb' = IF p = b THEN pbs ELSE [pbs EXCEPT ![Last(Chain(p))].next = b]
           /\ IF rem = qlen
                THEN /\ held' = [held EXCEPT ![t] = @ \cup {p}]
                     /\ pc' = [pc EXCEPT ![t] = "idle"]
                     /\ todo' = [todo EXCEPT ![t] = Nothing]
                ELSE /\ todo' = [todo EXCEPT ![t].p = p, ![t].n = rem - qlen]
                     /\ UNCHANGED <<held, pc>>
  /\ UNCHANGED <<cur, nxt, ooseqVars>>

\* "free chain so far allocated; bail out unsuccessfully"
Bail(t) ==
  IF todo[t].p # NULL
    THEN CallFree(t, todo[t].p, Nothing)
    ELSE /\ pc' = [pc EXCEPT ![t] = "idle"]
         /\ todo' = [todo EXCEPT ![t] = Nothing]
         /\ UNCHANGED cur

\* pbuf_pool_is_empty: ask tcpip_thread for memory unless somebody already has.
AllocEmpty(t) ==
  /\ pc[t] = "alloc" /\ free \cap PoolBlocks = {}
  /\ pending' = TRUE
  /\ IF pending THEN Bail(t) ELSE Goto(t, "alloc", "call") /\ UNCHANGED <<cur, todo>>
  /\ UNCHANGED <<pb, free, held, nxt, ooseq, queued>>

\* tcpip_try_callback(pbuf_free_ooseq_callback), and its failure.
CallQueued(t) ==
  /\ pc[t] = "call"
  /\ queued' = queued + 1
  /\ Bail(t)
  /\ UNCHANGED <<pb, free, held, nxt, ooseq, pending>>

CallRefused(t) ==
  /\ Goto(t, "call", "refused")
  /\ UNCHANGED <<pb, free, held, cur, nxt, todo, ooseqVars>>

\* Mutant: a refused call is still taken for queued.
CallForgetNever(t) ==
  /\ pc[t] = "refused"
  /\ Bail(t)
  /\ UNCHANGED <<pb, free, held, nxt, ooseqVars>>

CallForget(t) ==
  /\ pc[t] = "refused"
  /\ pending' = FALSE
  /\ Bail(t)
  /\ UNCHANGED <<pb, free, held, nxt, ooseq, queued>>

pbuf_alloc_reference(t) ==
  /\ pc[t] = "idle"
  /\ \E b \in free \cap RefBlocks, n \in Lengths :
       /\ free' = free \ {b}
       /\ pb' = [pb EXCEPT ![b] = Fresh(n, n)]
       /\ held' = [held EXCEPT ![t] = @ \cup {b}]
  /\ UNCHANGED <<pc, cur, nxt, todo, ooseqVars>>

(***************************************************************************)
(* The out-of-sequence queue of TCP, the memory that pbuf_free_ooseq frees  *)
(***************************************************************************)
\* A segment that came early: TCP has the only reference.
QueueOoseq(p) ==
  /\ pc[Tcpip] = "idle" /\ p \in held[Tcpip] /\ pb[p].ref = 1 /\ ooseq = {}
  /\ ooseq' = {p}
  /\ held' = [held EXCEPT ![Tcpip] = @ \ {p}]
  /\ UNCHANGED <<pb, free, pc, cur, nxt, todo, pending, queued>>

OoseqFetch ==
  /\ Goto(Tcpip, "idle", "callback")
  /\ queued > 0
  /\ queued' = queued - 1
  /\ UNCHANGED <<pb, free, held, cur, nxt, todo, ooseq, pending>>

pbuf_free_ooseq ==
  /\ pc[Tcpip] = "callback"
  /\ pending' = FALSE
  /\ ooseq' = {}
  /\ IF ooseq = {} THEN Goto(Tcpip, "callback", "idle") /\ UNCHANGED <<cur, todo>>
                   ELSE \E p \in ooseq : CallFree(Tcpip, p, Nothing)
  /\ UNCHANGED <<pb, free, held, nxt, queued>>

(***************************************************************************)
(* References and chains                                                    *)
(***************************************************************************)
\* pbuf_ref: t gives u a reference of its own, to a pbuf or into a chain.
pbuf_ref(t, u, p) ==
  /\ pc[t] = "idle" /\ p \notin held[u]
  /\ \E h \in held[t] : p \in Pbufs(h)
  /\ pb' = [pb EXCEPT ![p].ref = @ + 1]
  /\ held' = [held EXCEPT ![u] = @ \cup {p}]
  /\ UNCHANGED <<free, pc, cur, nxt, todo, ooseqVars>>

\* pbuf_cat(h, q): every total of h grows, and its last pbuf links q.
Linked(h, q) ==
  [b \in Blocks |->
     IF b \notin Pbufs(h) THEN pb[b]
     ELSE [pb[b] EXCEPT !.tot_len = @ + pb[q].tot_len,
                        !.next = IF @ = NULL THEN q ELSE @]]

CanLink(t, h, q) ==
  /\ pc[t] = "idle" /\ Exclusive(t, h) /\ q \in held[t]
  /\ q \notin Pbufs(h) /\ h \notin Pbufs(q)

pbuf_cat(t, h, q) ==
  /\ CanLink(t, h, q)
  /\ pb' = Linked(h, q)
  /\ held' = [held EXCEPT ![t] = @ \ {q}]
  /\ UNCHANGED <<free, pc, cur, nxt, todo, ooseqVars>>

pbuf_chain(t, h, q) ==
  /\ CanLink(t, h, q)
  /\ pb' = [Linked(h, q) EXCEPT ![q].ref = @ + 1]
  /\ UNCHANGED <<free, held, pc, cur, nxt, todo, ooseqVars>>

pbuf_dechain(t, p) ==
  /\ pc[t] = "idle" /\ p \in held[t] /\ pb[p].ref = 1
  /\ LET q == pb[p].next
     IN  /\ q # NULL
         /\ pb' = [pb EXCEPT ![q].tot_len = pb[p].tot_len - pb[p].len,
                             ![p].next = NULL, ![p].tot_len = pb[p].len]
         /\ CallFree(t, q, Nothing)
  /\ UNCHANGED <<free, held, nxt, ooseqVars>>

\* The bytes of a chain before its i-th pbuf.
Before(p, i) == FoldLeft(LAMBDA n, b : n + pb[b].len, 0, SubSeq(Chain(p), 1, i - 1))

\* Mutant: the totals in front of the cut stay as they were.
Shrunk_Last(p, i, n) ==
  [pb EXCEPT ![Chain(p)[i]].len = n - Before(p, i), ![Chain(p)[i]].tot_len = n - Before(p, i)]

\* The pbufs of p cut to n bytes, of which the i-th is the last to stay.
Shrunk(p, i, n) ==
  [b \in Blocks |->
     IF \E j \in 1..i : Chain(p)[j] = b
       THEN LET j == CHOOSE k \in 1..i : Chain(p)[k] = b
            IN  [pb[b] EXCEPT !.tot_len = n - Before(p, j),
                              !.len = IF j = i THEN n - Before(p, i) ELSE @]
       ELSE pb[b]]

pbuf_realloc(t, p, n) ==
  /\ pc[t] = "idle" /\ Exclusive(t, p) /\ n < pb[p].tot_len
  /\ LET i == CHOOSE k \in DOMAIN Chain(p) :
                /\ n - Before(p, k) <= pb[Chain(p)[k]].len
                /\ \A j \in 1..(k - 1) : n - Before(p, j) > pb[Chain(p)[j]].len
         q == Chain(p)[i]
     IN  /\ pb' = Shrunk(p, i, n)
         /\ IF pb[q].next = NULL
              THEN UNCHANGED <<pc, cur, todo>>
              ELSE CallFree(t, pb[q].next, [op |-> "unlink", p |-> q, n |-> 0])
  /\ UNCHANGED <<free, held, nxt, ooseqVars>>

pbuf_remove_header(t, p, n) ==
  /\ pc[t] = "idle" /\ p \in held[t] /\ pb[p].ref = 1 /\ n <= pb[p].len
  /\ pb' = [pb EXCEPT ![p].len = @ - n, ![p].tot_len = @ - n]
  /\ UNCHANGED <<free, held, pc, cur, nxt, todo, ooseqVars>>

pbuf_free_header(t, p, n) ==
  /\ Goto(t, "idle", "header") /\ Exclusive(t, p)
  /\ held' = [held EXCEPT ![t] = @ \ {p}]
  /\ todo' = [todo EXCEPT ![t] = [op |-> "header", p |-> p, n |-> n]]
  /\ UNCHANGED <<pb, free, cur, nxt, ooseqVars>>

\* while (free_left && p): drop whole pbufs, hide what is left in the last one.
HeaderStep(t) ==
  /\ pc[t] = "header"
  /\ LET p == todo[t].p
         n == todo[t].n
     IN  IF n > 0 /\ p # NULL /\ n >= pb[p].len
           THEN /\ pb' = [pb EXCEPT ![p].next = NULL]
                /\ CallFree(t, p, [op |-> "header", p |-> pb[p].next, n |-> n - pb[p].len])
                /\ UNCHANGED held
           ELSE /\ pb' = IF p = NULL THEN pb
                         ELSE [pb EXCEPT ![p].len = @ - n, ![p].tot_len = @ - n]
                /\ held' = [held EXCEPT ![t] = @ \cup ({p} \ {NULL})]
                /\ pc' = [pc EXCEPT ![t] = "idle"]
                /\ todo' = [todo EXCEPT ![t] = Nothing]
                /\ UNCHANGED cur
  /\ UNCHANGED <<free, nxt, ooseqVars>>

ThreadStep(t) ==
  \/ FreeDec(t) \/ FreeNext(t) \/ FreeBlock(t)
  \/ AllocBlock(t) \/ AllocEmpty(t) \/ CallQueued(t) \/ CallRefused(t) \/ CallForget(t)
  \/ HeaderStep(t)

Call(t) ==
  \/ pbuf_alloc(t) \/ pbuf_alloc_reference(t)
  \/ \E p \in Blocks :
       \/ pbuf_free(t, p)
       \/ \E u \in Threads : pbuf_ref(t, u, p)

Edit(t) ==
  \E p \in Blocks :
    \/ \E q \in Blocks : pbuf_cat(t, p, q) \/ pbuf_chain(t, p, q)
    \/ pbuf_dechain(t, p)
    \/ \E n \in Cuts : \/ pbuf_realloc(t, p, n)
                       \/ pbuf_remove_header(t, p, n)
                       \/ pbuf_free_header(t, p, n)

Next ==
  \/ \E t \in Threads : ThreadStep(t) \/ Call(t)
  \/ \E t \in Editors : Edit(t)
  \/ \E p \in Blocks : QueueOoseq(p)
  \/ OoseqFetch \/ pbuf_free_ooseq

Spec == Init /\ [][Next]_vars
-------------------------------------------------------------------------------
(***************************************************************************)
(* Properties                                                               *)
(***************************************************************************)
TypeOK ==
  /\ pb \in [Blocks -> [ref : Nat, next : Blocks \cup {NULL}, len : Nat, tot_len : Nat]]
  /\ free \subseteq Blocks /\ ooseq \subseteq Blocks
  /\ held \in [Threads -> SUBSET Blocks]
  /\ cur \in [Threads -> Blocks \cup {NULL}] /\ nxt \in [Threads -> Blocks \cup {NULL}]
  /\ pending \in BOOLEAN /\ queued \in Nat

\* The pointers to b: those that threads own, the links of the pbufs in use (but
\* for the link that pbuf_realloc is cutting), the queue, and the locals.
Links(b) == {q \in Blocks \ free :
               /\ pb[q].next = b
               /\ ~\E t \in Threads : \/ todo[t].op = "unlink" /\ todo[t].p = q
                                      \/ pc[t] = "block" /\ cur[t] = q}
Locals(b) == {t \in Threads : \/ pc[t] = "dec" /\ cur[t] = b
                              \/ pc[t] = "block" /\ nxt[t] = b}
Callers(b) == {t \in Threads : todo[t].op \in {"alloc", "header"} /\ todo[t].p = b}
Pointers(b) ==
  Cardinality({t \in Threads : b \in held[t]}) + Cardinality(Links(b))
    + Cardinality(Locals(b)) + Cardinality(Callers(b)) + (IF b \in ooseq THEN 1 ELSE 0)

\* "the reference counter of a pbuf equals the number of pointers that refer to
\* the pbuf (or into the pbuf)" (pbuf.c:709), whoever drops references meanwhile: no
\* pointer leads to a free block, and a block without pointers is being freed.
RefsArePointers ==
  /\ TypeOK
  /\ \A b \in Blocks :
       IF b \in free THEN Pointers(b) = 0
       ELSE /\ pb[b].ref = Pointers(b)
            /\ pb[b].ref = 0 => \E t \in Threads : pc[t] \in {"next", "block"} /\ cur[t] = b

\* "tot_len invariant: (p->tot_len == p->len + (p->next? p->next->tot_len: 0)"
\* (pbuf.c:920), for every packet that is not just being cut: cutting, joining and splitting
\* chains, some of whose pbufs are also in other chains, keeps all totals right.
TotalsExact ==
  LET cut == {todo[t].p : t \in {u \in Threads : todo[u].op = "unlink"}}
      packets == {p \in UNION {held[t] : t \in Threads} \cup ooseq : Pbufs(p) \cap cut = {}}
  IN  \A b \in UNION {Pbufs(p) : p \in packets} :
        pb[b].tot_len = pb[b].len + IF pb[b].next = NULL THEN 0 ELSE pb[pb[b].next].tot_len

\* pbuf_free_ooseq_pending tells the truth: it is set while one call is asked for,
\* queued or starting, so that calls neither pile up nor stop being made.
OneFreeOoseq ==
  queued + Cardinality({t \in Threads : pc[t] \in {"call", "refused", "callback"}})
    = IF pending THEN 1 ELSE 0
===============================================================================
