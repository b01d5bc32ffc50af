---------------------------------- MODULE Mem ----------------------------------
(***************************************************************************)
(* The heap (mem.c): a list of blocks, each with a struct mem in front, that   *)
(* mem_malloc, mem_free and mem_trim split, give back and shrink.  Each of    *)
(* them changes the list with mem_mutex held, whichever thread calls it: that  *)
(* is one step.  mem_trim reads the size of its block before.  Offsets count   *)
(* units of the alignment.                                                  *)
(***************************************************************************)
EXTENDS Integers, FiniteSets, FiniteSetsExt

CONSTANTS MEM_SIZE,     \* MEM_SIZE_ALIGNED
          HDR,          \* SIZEOF_STRUCT_MEM
          MIN_SIZE,     \* MIN_SIZE_ALIGNED
          Sizes         \* sizes that callers ask for, aligned

VARIABLES heap,     \* the struct mem at each offset that has one, ram_end included
          lfree,    \* offset of the lowest free block
          live,     \* live[p]: what the caller may use of the block it was given at p
          trim,     \* the mem_trim that waits for mem_mutex, and the size it has read
          failed    \* an assertion failed and the program aborted

vars == <<heap, lfree, live, trim, failed>>

ram_end == MEM_SIZE
Block(next, prev, used) == [next |-> next, prev |-> prev, used |-> used]
Without(f, p) == [q \in DOMAIN f \ {p} |-> f[q]]
With(f, p, v) == [q \in DOMAIN f \cup {p} |-> IF q = p THEN v ELSE f[q]]
MinSized(n) == IF n < MIN_SIZE THEN MIN_SIZE ELSE n
UserSize(p) == heap[p].next - (p + HDR)
NoTrim == [p |-> -1, n |-> 0, size |-> 0]

\* mem_init
Init ==
  /\ heap = [p \in {0, ram_end} |-> Block(ram_end, p, p = ram_end)]
  /\ lfree = 0
  /\ live = [p \in {} |-> 0]
  /\ trim = NoTrim
  /\ failed = FALSE

\* `ptr_to_mem(next)->prev = p`, which the end of the heap is spared.
Backlink(h, p) == IF h[p].next = ram_end THEN h ELSE [h EXCEPT ![h[p].next].prev = p]

\* The block p is cut after `size` and the rest becomes a free block.
Split(h, p, size) ==
  LET ptr2 == p + HDR + size
  IN  Backlink(With([h EXCEPT ![p].next = ptr2], ptr2, Block(h[p].next, p, FALSE)), ptr2)

(***************************************************************************)
(* mem_malloc: the first block from lfree on that fits, split if the rest can  *)
(* hold a block; lfree moves on when its block was taken.                    *)
(***************************************************************************)
\* Mutant: the struct mem in front of a block counts as room for the caller.
Fits_Header(size) ==
  {p \in DOMAIN heap : lfree <= p /\ p < MEM_SIZE - size /\ ~heap[p].used
                        /\ heap[p].next - p >= size}

Fits(size) ==
  {p \in DOMAIN heap : lfree <= p /\ p < MEM_SIZE - size /\ ~heap[p].used /\ UserSize(p) >= size}

LowestFrom(h, p) == Min({q \in DOMAIN h : p <= q /\ (~h[q].used \/ q = ram_end)})

Splits(p, size) == UserSize(p) >= size + HDR + MIN_SIZE

mem_malloc(n) ==
  LET size == MinSized(n)
      p == Min(Fits(size))
      h == [IF Splits(p, size) THEN Split(heap, p, size) ELSE heap EXCEPT ![p].used = TRUE]
  IN  /\ Fits(size) # {}
      /\ heap' = h
      /\ lfree' = IF p = lfree THEN LowestFrom(h, p) ELSE lfree
      /\ live' = With(live, p, n)
      /\ UNCHANGED <<trim, failed>>

(***************************************************************************)
(* mem_free and plug_holes                                                  *)
(***************************************************************************)
\* The free block q that follows the free block p becomes part of it.
Joined(h, p, q) == Backlink(Without([h EXCEPT ![p].next = h[q].next], q), p)

plug_holes(h, p) ==
  LET n == h[p].next
      f == IF h[n].used THEN h ELSE Joined(h, p, n)
      fgone == IF h[n].used THEN {} ELSE {n}
      q == f[p].prev
  IN  IF q # p /\ ~f[q].used
        THEN [heap |-> Joined(f, q, p), gone |-> fgone \cup {p}, first |-> q]
        ELSE [heap |-> f, gone |-> fgone, first |-> p]

mem_free(p) ==
  LET low == IF p < lfree THEN p ELSE lfree
      r == plug_holes([heap EXCEPT ![p].used = FALSE], p)
  IN  /\ p \in DOMAIN live /\ p # trim.p
      /\ heap' = r.heap
      /\ lfree' = IF low \in r.gone THEN r.first ELSE low
      /\ live' = Without(live, p)
      /\ UNCHANGED <<trim, failed>>

(***************************************************************************)
(* mem_trim: a free block that follows is moved down; otherwise the rest      *)
(* becomes a block if it can hold one.                                       *)
(***************************************************************************)
\* Mutant: lfree keeps pointing where the moved block was.
TrimMove_StaleLfree(p, size) ==
  LET q == heap[p].next
      ptr2 == p + HDR + size
  IN  /\ heap' = Backlink(With(Without([heap EXCEPT ![p].next = ptr2], q), ptr2,
                               Block(heap[q].next, p, FALSE)), ptr2)
      /\ UNCHANGED <<lfree, failed>>

TrimMove(p, size) ==
  LET q == heap[p].next
      ptr2 == p + HDR + size
  IN  /\ heap' = Backlink(With(Without([heap EXCEPT ![p].next = ptr2], q), ptr2,
                               Block(heap[q].next, p, FALSE)), ptr2)
      /\ lfree' = IF lfree = q THEN ptr2 ELSE lfree
      /\ UNCHANGED failed

\* LWIP_ASSERT("invalid next ptr", mem->next != MEM_SIZE_ALIGNED)
TrimAbort ==
  /\ failed' = TRUE
  /\ UNCHANGED <<heap, lfree>>

TrimSplit(p, size) ==
  /\ heap' = Split(heap, p, size)
  /\ lfree' = IF p + HDR + size < lfree THEN p + HDR + size ELSE lfree
  /\ UNCHANGED failed

\* The early returns, and the size of the block before mem_mutex is taken.
mem_trim(p, n) ==
  /\ trim = NoTrim
  /\ p \in DOMAIN live /\ n <= live[p] /\ MinSized(n) < UserSize(p)
  /\ trim' = [p |-> p, n |-> n, size |-> UserSize(p)]
  /\ live' = [live EXCEPT ![p] = n]
  /\ UNCHANGED <<heap, lfree, failed>>

TrimLocked ==
  LET p == trim.p
      newsize == MinSized(trim.n)
  IN  /\ trim # NoTrim /\ trim' = NoTrim
      /\ IF ~heap[heap[p].next].used THEN TrimMove(p, newsize)
         ELSE IF newsize + HDR + MIN_SIZE <= trim.size
           THEN IF heap[p].next = ram_end THEN TrimAbort ELSE TrimSplit(p, newsize)
         ELSE UNCHANGED <<heap, lfree, failed>>
      /\ UNCHANGED live

Next ==
  /\ ~failed
  /\ \/ \E n \in Sizes : mem_malloc(n)
     \/ \E p \in DOMAIN heap : mem_free(p) \/ \E n \in Sizes : mem_trim(p, n)
     \/ TrimLocked

Spec == Init /\ [][Next]_vars
-------------------------------------------------------------------------------
(***************************************************************************)
(* Properties                                                               *)
(***************************************************************************)
TypeOK ==
  /\ DOMAIN heap \subseteq 0..MEM_SIZE /\ lfree \in DOMAIN heap
  /\ \A p \in DOMAIN heap : heap[p].next \in DOMAIN heap /\ heap[p].used \in BOOLEAN

\* What mem_sanity asserts of the list after every call: it leads from block to block
\* to the end of the heap and back, and no two free blocks follow each other, so that
\* memory given back in any order can be used again as one.  lfree is the lowest free
\* block (its comment, and the assertion "mem_malloc: !lfree->used"), so that the search
\* for memory misses none.
HeapSane ==
  /\ TypeOK
  /\ heap[ram_end] = Block(ram_end, ram_end, TRUE)
  /\ \A p \in DOMAIN heap \ {ram_end} :
       /\ heap[p].next = Min({q \in DOMAIN heap : p < q})
       /\ heap[p].prev = Max({0} \cup {q \in DOMAIN heap : q < p})
       /\ ~heap[p].used => heap[heap[p].next].used
  /\ lfree = LowestFrom(heap, 0)

\* The blocks in use are those the callers have, at the places they were given, with
\* room for what each may use before the next struct mem: no call on another block
\* moves, takes or overwrites them, and the size that mem_trim has read stays right.
BlocksKept ==
  /\ DOMAIN live = {p \in DOMAIN heap : heap[p].used} \ {ram_end}
  /\ \A p \in DOMAIN live : live[p] <= UserSize(p)
  /\ trim # NoTrim => trim.size = UserSize(trim.p)

\* The assertion "invalid next ptr" of mem_trim.
TrimAssertion == ~failed
===============================================================================
