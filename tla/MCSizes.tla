---------------------------- MODULE MCSizes ---------------------------------
(***************************************************************************)
(* The size arithmetic of both allocators, for every number n: glibc's in  *)
(* the x86-64 build, with a size_t of 16 bits, and that of mem.c with a    *)
(* size_t of 10 bits.                                                      *)
(***************************************************************************)
EXTENDS ChunkSizesCheck, LargebinTables

Alignments == { 17, 48, 64, 100, 4096 }
Needs == { 32, 48, 4096 }
Offsets == { 0, 16, 4096 - 48, 4096 - 16 }

\* The tables of the 32-bit builds fit too: with an alignment of 8, and with one of
\* 16, where the small bins are bumped up by one.
ASSUME OtherTablesAssumption ==
  /\ RowsMeet(largebin_index_32, 64 * 8)
  /\ RowsMeet(largebin_index_32_big, 63 * 16)

\* mem.c in small: there header 17, minimum 24, page 4096, region 2 pages.
Mem == INSTANCE SizesCheck WITH
         HEADER_SIZE <- 3, BLOCK_MIN_CAPACITY <- 5, PAGE_SIZE <- 16, REGION_MIN_SIZE <- 32,
         SIZE_T <- 1024

\* What is rounded up to pages holds the request, and is the least that does: in
\* mem.c the size of a region, exactly when nothing wraps; in glibc the length
\* pvalloc asks for, but for one byte.
RegionFits ==
  /\ n < 1024 => Mem!RegionIsLeastFit(n) /\ Mem!RegionHoldsQueryUnlessWrapped(n)
  /\ PvallocRoundsUp
=============================================================================
