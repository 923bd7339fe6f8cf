--------------------------- MODULE MCTestProgram ---------------------------
(***************************************************************************)
(* The test program with the numbers of the real build.                    *)
(***************************************************************************)
EXTENDS TestInv

\* mmap may choose the pages below HEAP_START or those after the heap.
Pages == { HEAP_START - REGION_MIN_SIZE, HEAP_START, HEAP_START + REGION_MIN_SIZE }

\* Other code may have the page at HEAP_START, the last of the heap, or one after it.
Foreign == { HEAP_START, HEAP_START + PAGE_SIZE, HEAP_START + REGION_MIN_SIZE }
=============================================================================
