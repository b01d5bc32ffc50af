------------------------------ MODULE MCBuffers ------------------------------
(***************************************************************************)
(* The memory of packets for TLC: packet buffers from pools, and the heap.   *)
(* They share no state, so that a behaviour is of one of them, chosen in      *)
(* Init.                                                                    *)
(***************************************************************************)
EXTENDS Pbuf, TLC

CONSTANTS b1, b2, r1

VARIABLES part, heap, lfree, live, trim, failed

Symmetry == Permutations({b1, b2})

\* Room for five of the smallest blocks; a remainder of up to two units is too
\* small to become a block.
Heap == INSTANCE Mem WITH MEM_SIZE <- 16, HDR <- 1, MIN_SIZE <- 2, Sizes <- 1..5

heapVars == <<heap, lfree, live, trim, failed>>

BuffersInit == part \in {"pbuf", "heap"} /\ Init /\ Heap!Init
BuffersNext ==
  \/ part = "pbuf" /\ Next /\ UNCHANGED <<part, heapVars>>
  \/ part = "heap" /\ Heap!Next /\ UNCHANGED <<part, vars>>
BuffersSpec == BuffersInit /\ [][BuffersNext]_<<part, vars, heapVars>>
-------------------------------------------------------------------------------
\* Mem: the list of blocks is sound, and lfree is its lowest free block.
HeapSane == Heap!HeapSane

\* Mem: callers keep the blocks they were given.
HeapBlocksKept == Heap!BlocksKept
===============================================================================
