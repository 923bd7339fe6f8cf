---------------------------- MODULE HugeQueries ----------------------------
(***************************************************************************)
(* Heap with a client that also asks _malloc for sizes near 2^64, where    *)
(* size_from_capacity or round_pages wraps and grow_heap maps a region     *)
(* that is smaller than the request.                                       *)
(***************************************************************************)
EXTENDS HeapProps

CONSTANT HUGE_QUERIES  \* sizes within two pages and a header of 2^64

ASSUME HugeAssumption ==
  \A q \in HUGE_QUERIES : q \in Nat /\ q < SIZE_T /\ q + HEADER_SIZE > SIZE_T - 2 * PAGE_SIZE

\* What the client got for p is not memory of its own of the size it asked for.
Misserved(p) ==
  LET b == block_get_header(p)
  IN  b \notin Blocks \/ hdr[b].is_free \/ hdr[b].capacity < live[p]

HeadersIntact == \A p \in DOMAIN live : ~Misserved(p)

HugeCall == \E q \in HUGE_QUERIES : malloc(q)

HugeNext == Next \/ HugeCall

HugeSpec == Init /\ [][HugeNext]_vars

\* A client that uses what it was misserved writes over headers, and nothing is
\* defined from there: no step is taken from such a state (the run's CONSTRAINT).
StopsMisserved == [][HeadersIntact]_vars

(***************************************************************************)
(* Only a request within a page and a header of 2^64 can be misserved: up  *)
(* to there the region that grow_heap maps has room for it, so the second  *)
(* search finds it and memalloc does not fall back on the last block       *)
(* (mem.c:203-206).                                                        *)
(***************************************************************************)
OnlyWrappedMisserved ==
  \A p \in DOMAIN live : Misserved(p) => live[p] + HEADER_SIZE > SIZE_T - PAGE_SIZE

(***************************************************************************)
(* "memalloc implements the main logic of malloc and returns the header of *)
(* the allocated block" (mem.c:196): whatever _malloc returned is a block  *)
(* in use with room for the request.                                       *)
(***************************************************************************)
ReturnedBlockIsAllocated == HeadersIntact
=============================================================================
