------------------------------- MODULE Sizes -------------------------------
(***************************************************************************)
(* The size arithmetic of the allocator: conversions between the capacity  *)
(* of a block and its size with the header, rounding to pages, the size of *)
(* a region.  Every result is a size_t, so it is taken modulo SIZE_T.      *)
(***************************************************************************)
EXTENDS Integers

CONSTANTS
  HEADER_SIZE,         \* offsetof(struct block_header, contents); 17 on x86-64
  BLOCK_MIN_CAPACITY,  \* 24 in mem.c
  PAGE_SIZE,           \* getpagesize()
  REGION_MIN_SIZE,     \* 2 * 4096 in mem_internals.h
  SIZE_T               \* the number of values of a size_t, 2^64

(***************************************************************************)
(* REGION_MIN_SIZE is whole pages (two of them) and has room for a header  *)
(* and the smallest capacity; 2^64 is whole pages, and one page past the   *)
(* smallest region is still a size_t.                                      *)
(***************************************************************************)
ASSUME SizesAssumption ==
  /\ HEADER_SIZE \in Nat \ {0}
  /\ BLOCK_MIN_CAPACITY \in Nat \ {0}
  /\ PAGE_SIZE \in Nat \ {0}
  /\ REGION_MIN_SIZE \in Nat
  /\ SIZE_T \in Nat
  /\ REGION_MIN_SIZE % PAGE_SIZE = 0
  /\ SIZE_T % PAGE_SIZE = 0
  /\ HEADER_SIZE + BLOCK_MIN_CAPACITY <= REGION_MIN_SIZE
  /\ REGION_MIN_SIZE + PAGE_SIZE <= SIZE_T

Word(n) == n % SIZE_T

size_max(x, y) == IF x >= y THEN x ELSE y

size_from_capacity(cap) == Word(cap + HEADER_SIZE)

capacity_from_size(sz) == Word(sz - HEADER_SIZE)

\* Mutant: a whole number of pages gets one more.
PagesAlwaysOneMore(mem) == (mem \div PAGE_SIZE) + 1

pages_count(mem) ==
  (mem \div PAGE_SIZE) + (IF mem % PAGE_SIZE > 0 THEN 1 ELSE 0)

round_pages(mem) == Word(PAGE_SIZE * pages_count(mem))

region_actual_size(query) == size_max(round_pages(query), REGION_MIN_SIZE)

\* Mutant: the header is not counted.
RegionWithoutHeader(query) == region_actual_size(query)

\* The length that alloc_region asks of mmap for a block of `query` bytes.
region_size_for(query) == region_actual_size(size_from_capacity(query))
=============================================================================
