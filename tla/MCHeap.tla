------------------------------- MODULE MCHeap -------------------------------
(***************************************************************************)
(* Instances of Heap for TLC: a short address space in which mmap may put  *)
(* a region on any page, and the numbers of the real build.                *)
(***************************************************************************)
EXTENDS HeapInv, HeapRefinement

\* mmap may choose any page but the first and the last.
EveryPage == { PAGE_SIZE * k : k \in 1 .. (ADDRESS_TOP \div PAGE_SIZE) - 1 }

\* One page in the middle that other code maps and unmaps.
PageAfterHeap == { HEAP_START + REGION_MIN_SIZE }

\* x86-64: two pages below HEAP_START, and the two regions above it.
RealPages ==
  { HEAP_START - 2 * REGION_MIN_SIZE, HEAP_START - REGION_MIN_SIZE,
    HEAP_START + REGION_MIN_SIZE }
=============================================================================
