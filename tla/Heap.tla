-------------------------------- MODULE Heap --------------------------------
(***************************************************************************)
(* mem.c: the block list, _malloc, _free and heap_init.                    *)
(*                                                                         *)
(* `hdr` is the memory that holds block headers, by address; its domain is *)
(* the set of blocks.  A header that a merge absorbs leaves the domain: its *)
(* bytes have become contents.  A call runs to completion before the next  *)
(* one, one action per iteration of its loops; `pc` says which loop runs   *)
(* and `cur` is the block pointer it holds.  Only other code's mappings    *)
(* change between two actions of a call.                                   *)
(***************************************************************************)
EXTENDS AddressSpace, FiniteSets

CONSTANTS
  QUERIES,    \* sizes the client asks _malloc for
  INITIALS,   \* sizes the client passes to heap_init
  MAX_LIVE    \* bound: allocations the client holds at once

(***************************************************************************)
(* The client's requests are at least a page and a header short of 2^64;   *)
(* module HugeQueries drops this restriction.                              *)
(***************************************************************************)
ASSUME QueryAssumption ==
  /\ QUERIES \subseteq Nat
  /\ INITIALS \subseteq 0 .. SIZE_T - 1
  /\ \A q \in QUERIES : size_max(q, BLOCK_MIN_CAPACITY) + HEADER_SIZE <= SIZE_T - PAGE_SIZE

VARIABLES
  hdr,      \* block address -> [next, capacity, is_free]
  pc,       \* "idle", "search", "grow", "free", or "undefined" (see malloc_no_heap)
  cur,      \* the block the running call is at
  request,  \* the size given to the running _malloc
  query,    \* the same, raised to BLOCK_MIN_CAPACITY
  grown,    \* has the running _malloc already called grow_heap
  heads,    \* the addresses that heap_init has returned
  live      \* contents address -> requested size, of what the client holds

heapvars == <<hdr, pc, cur, request, query, grown, heads, live>>
vars == <<regions, foreign, heapvars>>

Put(f, x, v) == [y \in DOMAIN f \cup {x} |-> IF y = x THEN v ELSE f[y]]
Drop(f, x) == [y \in DOMAIN f \ {x} |-> f[y]]

contents(b) == b + HEADER_SIZE
block_get_header(p) == p - HEADER_SIZE

block_init(h, addr, size, next) ==
  Put(h, addr, [next |-> next, capacity |-> capacity_from_size(size), is_free |-> TRUE])

block_after(h, b) == contents(b) + h[b].capacity

block_is_big_enough(h, q, b) == h[b].capacity >= q

\* Mutant: no room is kept for the header of the second block.
SplittableWithoutHeader(h, b, q) ==
  h[b].is_free /\ Word(q + BLOCK_MIN_CAPACITY) <= h[b].capacity

block_splittable(h, b, q) ==
  h[b].is_free /\ Word(q + HEADER_SIZE + BLOCK_MIN_CAPACITY) <= h[b].capacity

\* Mutant: the second block starts `q` bytes after the header, not the contents.
SplitInsideContents(h, b, q) ==
  IF block_splittable(h, b, q)
  THEN LET rest == b + q
           h2 == block_init(h, rest, Word(h[b].capacity - q), h[b].next)
       IN  [h2 EXCEPT ![b] = [next |-> rest, capacity |-> q, is_free |-> TRUE]]
  ELSE h

split_if_too_big(h, b, q) ==
  IF block_splittable(h, b, q)
  THEN LET rest == contents(b) + q
           h2 == block_init(h, rest, Word(h[b].capacity - q), h[b].next)
       IN  [h2 EXCEPT ![b] = [next |-> rest, capacity |-> q, is_free |-> TRUE]]
  ELSE h

\* Mutant: the neighbour may be in use.
MergeableIfFirstFree(h, fst, snd) ==
  h[fst].is_free /\ snd = block_after(h, fst)

mergeable(h, fst, snd) ==
  h[fst].is_free /\ h[snd].is_free /\ snd = block_after(h, fst)

CanMerge(h, b) == h[b].next # NULL /\ mergeable(h, b, h[b].next)

\* Mutant: the bytes of the absorbed header are not counted.
MergedWithoutHeader(h, b) ==
  LET n == h[b].next
      size == Word(size_from_capacity(h[b].capacity) + h[n].capacity)
  IN  Drop(block_init(h, b, size, h[n].next), n)

\* Mutant: the block still points to the header it absorbed.
MergedKeepsNext(h, b) ==
  LET n == h[b].next
      size == Word(size_from_capacity(h[b].capacity) + size_from_capacity(h[n].capacity))
  IN  Drop(block_init(h, b, size, n), n)

\* try_merge_with_next where it succeeds.
MergedWithNext(h, b) ==
  LET n == h[b].next
      size == Word(size_from_capacity(h[b].capacity) + size_from_capacity(h[n].capacity))
  IN  Drop(block_init(h, b, size, h[n].next), n)

-----------------------------------------------------------------------------
NoBlocks == [a \in {} |-> REGION_INVALID]

Init ==
  /\ SpaceInit
  /\ hdr = NoBlocks
  /\ live = NoBlocks
  /\ pc = "idle" /\ cur = NULL
  /\ request = 0 /\ query = 0
  /\ grown = FALSE
  /\ heads = {}

\* Where nothing is running, its locals are gone.
Return ==
  /\ pc' = "idle" /\ cur' = NULL
  /\ request' = 0 /\ query' = 0
  /\ grown' = FALSE

heap_init(initial) ==
  /\ pc = "idle"
  /\ \E r \in alloc_region(HEAP_START, initial) :
       /\ ~region_is_invalid(r)
       /\ regions' = RegionsWith(r)
       /\ hdr' = block_init(hdr, r.addr, r.size, NULL)
       /\ heads' = heads \cup {r.addr}
  /\ UNCHANGED <<foreign, pc, cur, request, query, grown, live>>

-----------------------------------------------------------------------------
(* _malloc: the search (find_good_or_last) ...                             *)

malloc(q) ==
  /\ pc = "idle"
  /\ HEAP_START \in DOMAIN hdr
  /\ Cardinality(DOMAIN live) < MAX_LIVE
  /\ pc' = "search"
  /\ cur' = HEAP_START
  /\ request' = q
  /\ query' = size_max(q, BLOCK_MIN_CAPACITY)
  /\ grown' = FALSE
  /\ UNCHANGED <<regions, foreign, hdr, heads, live>>

\* No heap was put at HEAP_START: _malloc reads a header there all the same,
\* from unmapped memory or from someone else's.  Nothing is defined from here.
malloc_no_heap(q) ==
  /\ pc = "idle"
  /\ HEAP_START \notin DOMAIN hdr
  /\ pc' = "undefined"
  /\ UNCHANGED <<regions, foreign, hdr, cur, request, query, grown, heads, live>>

search_merge ==
  /\ pc = "search"
  /\ hdr[cur].is_free
  /\ CanMerge(hdr, cur)
  /\ hdr' = MergedWithNext(hdr, cur)
  /\ UNCHANGED <<regions, foreign, pc, cur, request, query, grown, heads, live>>

IsGood(b) ==
  hdr[b].is_free /\ ~CanMerge(hdr, b) /\ block_is_big_enough(hdr, query, b)

\* The test of the loop has failed for `cur`: the search goes past it.
IsPassed(b) ==
  hdr[b].is_free => ~CanMerge(hdr, b) /\ ~block_is_big_enough(hdr, query, b)

\* Mutant: a block that is too small is passed without being merged first.
search_next_unmerged ==
  /\ pc = "search"
  /\ hdr[cur].is_free => ~block_is_big_enough(hdr, query, cur)
  /\ hdr[cur].next # NULL
  /\ cur' = hdr[cur].next
  /\ UNCHANGED <<regions, foreign, hdr, pc, request, query, grown, heads, live>>

search_next ==
  /\ pc = "search"
  /\ IsPassed(cur)
  /\ hdr[cur].next # NULL
  /\ cur' = hdr[cur].next
  /\ UNCHANGED <<regions, foreign, hdr, pc, request, query, grown, heads, live>>

\* Mutant: the block is not marked as taken.
allocate_unmarked ==
  /\ pc = "search"
  /\ IsGood(cur)
  /\ hdr' = split_if_too_big(hdr, cur, query)
  /\ live' = Put(live, contents(cur), request)
  /\ Return
  /\ UNCHANGED <<regions, foreign, heads>>

\* ... the allocation in a good block (try_memalloc_existing) ...
allocate ==
  /\ pc = "search"
  /\ IsGood(cur)
  /\ hdr' = [split_if_too_big(hdr, cur, query) EXCEPT ![cur].is_free = FALSE]
  /\ live' = Put(live, contents(cur), request)
  /\ Return
  /\ UNCHANGED <<regions, foreign, heads>>

\* Mutant: the search gives up at the first block that does not fit.
search_end_early ==
  /\ pc = "search"
  /\ IsPassed(cur)
  /\ ~grown
  /\ pc' = "grow"
  /\ UNCHANGED <<regions, foreign, hdr, cur, request, query, grown, heads, live>>

search_end ==
  /\ pc = "search"
  /\ IsPassed(cur)
  /\ hdr[cur].next = NULL
  /\ ~grown
  /\ pc' = "grow"
  /\ UNCHANGED <<regions, foreign, hdr, cur, request, query, grown, heads, live>>

\* The second search found nothing either: memalloc returns the last block
\* that search saw, whatever its state.
return_last ==
  /\ pc = "search"
  /\ IsPassed(cur)
  /\ hdr[cur].next = NULL
  /\ grown
  /\ live' = Put(live, contents(cur), request)
  /\ Return
  /\ UNCHANGED <<regions, foreign, hdr, heads>>

(* ... and the growth of the heap (grow_heap).                             *)

\* Mutant: when mmap fails, memalloc starts over.
grow_fails_retry ==
  /\ pc = "grow"
  /\ \E r \in alloc_region(block_after(hdr, cur), query) : region_is_invalid(r)
  /\ pc' = "search"
  /\ cur' = HEAP_START
  /\ UNCHANGED <<regions, foreign, hdr, request, query, grown, heads, live>>

grow_fails ==
  /\ pc = "grow"
  /\ \E r \in alloc_region(block_after(hdr, cur), query) :
       /\ region_is_invalid(r)
       /\ hdr' = [hdr EXCEPT ![cur].next = r.addr]
  /\ Return
  /\ UNCHANGED <<regions, foreign, heads, live>>

\* Mutant: a region that does not continue `last` is not chained to it.
GrownHeapUnchained(r) ==
  LET h == block_init(hdr, r.addr, r.size, NULL)
      hn == [h EXCEPT ![cur].next = r.addr]
  IN  IF r.extends THEN IF CanMerge(hn, cur) THEN MergedWithNext(hn, cur) ELSE hn ELSE h

\* A region that does not continue `last`, or a last block in use: chain it.
\* Otherwise chain it and merge it into `last`.
GrownHeap(r) ==
  LET h == [block_init(hdr, r.addr, r.size, NULL) EXCEPT ![cur].next = r.addr]
  IN  IF r.extends /\ hdr[cur].is_free /\ CanMerge(h, cur)
      THEN MergedWithNext(h, cur)
      ELSE h

\* Mutant: the second search starts from the new region even where it was merged.
grow_heap_stale ==
  /\ pc = "grow"
  /\ \E r \in alloc_region(block_after(hdr, cur), query) :
       /\ ~region_is_invalid(r)
       /\ regions' = RegionsWith(r)
       /\ hdr' = GrownHeap(r)
       /\ cur' = r.addr
  /\ pc' = "search"
  /\ grown' = TRUE
  /\ UNCHANGED <<foreign, request, query, heads, live>>

grow_heap ==
  /\ pc = "grow"
  /\ \E r \in alloc_region(block_after(hdr, cur), query) :
       /\ ~region_is_invalid(r)
       /\ regions' = RegionsWith(r)
       /\ hdr' = GrownHeap(r)
       /\ cur' = IF r.addr \in DOMAIN GrownHeap(r) THEN r.addr ELSE cur
  /\ pc' = "search"
  /\ grown' = TRUE
  /\ UNCHANGED <<foreign, request, query, heads, live>>

-----------------------------------------------------------------------------
(* _free.  The client gives back only what it holds.                       *)

free(p) ==
  /\ pc = "idle"
  /\ p \in DOMAIN live
  /\ live' = Drop(live, p)
  /\ hdr' = [hdr EXCEPT ![block_get_header(p)].is_free = TRUE]
  /\ pc' = "free"
  /\ cur' = block_get_header(p)
  /\ UNCHANGED <<regions, foreign, request, query, grown, heads>>

free_merge ==
  /\ pc = "free"
  /\ CanMerge(hdr, cur)
  /\ hdr' = MergedWithNext(hdr, cur)
  /\ UNCHANGED <<regions, foreign, pc, cur, request, query, grown, heads, live>>

free_return ==
  /\ pc = "free"
  /\ ~CanMerge(hdr, cur)
  /\ Return
  /\ UNCHANGED <<regions, foreign, hdr, heads, live>>

-----------------------------------------------------------------------------
Call ==
  \/ \E i \in INITIALS : heap_init(i)
  \/ \E q \in QUERIES : malloc(q) \/ malloc_no_heap(q)
  \/ \E p \in DOMAIN live : free(p)

Running ==
  \/ search_merge \/ search_next \/ allocate \/ search_end \/ return_last
  \/ grow_fails \/ grow_heap
  \/ free_merge \/ free_return

OtherCode ==
  /\ \E p \in FOREIGN_PAGES : ForeignMap(p) \/ ForeignUnmap(p)
  /\ UNCHANGED heapvars

Crashed == pc = "undefined" /\ UNCHANGED vars

Next == Call \/ Running \/ OtherCode \/ Crashed

Spec == Init /\ [][Next]_vars

FairSpec == Spec /\ WF_vars(Running)
=============================================================================
