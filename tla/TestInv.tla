------------------------------ MODULE TestInv ------------------------------
(***************************************************************************)
(* The inductive invariant behind the properties of TestProgram: the heap  *)
(* of a test is one region, its list is the blocks that _malloc returned,  *)
(* in order, and a free block at the end that has room for all the test    *)
(* still asks for.  So no search comes to the end of the list.             *)
(***************************************************************************)
EXTENDS TestProgram, HeapInv

\* The most a request of a test takes of the last block.
largest == HEADER_SIZE + size_max(2 * BLOCK_SIZE, BLOCK_MIN_CAPACITY)

\* What the last block has room for when the test has called _malloc n times.
room(n) == (3 - n) * largest + BLOCK_MIN_CAPACITY

(***************************************************************************)
(* The heap of main.c is two pages, no less than the smallest region, and  *)
(* three requests with their headers fit in it.                            *)
(***************************************************************************)
ASSUME TestAssumption ==
  /\ REGION_MIN_SIZE <= round_pages(size_from_capacity(HEAP_SIZE))
  /\ HEADER_SIZE + room(0) <= round_pages(size_from_capacity(HEAP_SIZE))

\* bs is the list of the blocks h, from start to the end of the heap's memory:
\* n blocks in use and a free one.
IsBlockList(h, start, n, bs) ==
  /\ \A b \in DOMAIN h : \E i \in 1 .. n + 1 : b = bs[i]
  /\ bs[1] = start
  /\ \A i \in 1 .. n : /\ h[bs[i]].next = bs[i + 1]
                       /\ bs[i + 1] = block_after(h, bs[i])
                       /\ ~h[bs[i]].is_free
  /\ h[bs[n + 1]].next = NULL
  /\ h[bs[n + 1]].is_free
  /\ h[bs[n + 1]].capacity >= room(n)
  /\ block_after(h, bs[n + 1]) = start + unmapped_size

HasBlockList(h, start, n) == \E bs \in [1 .. n + 1 -> DOMAIN h] : IsBlockList(h, start, n, bs)

\* The calls of a test come in order, and its heap is one region.
InOrder ==
  /\ test \in DOMAIN tests
  /\ at \in {"init", "malloc", "calling", "free", "freeing", "munmap", "end"}
  /\ got \in Seq(Nat)
  /\ at = "init" => regions = << >> /\ DOMAIN hdr = {} /\ DOMAIN live = {} /\ got = << >>
  /\ at # "end" => verdict = "running"
  /\ at \notin {"init", "end"} => regions = << [addr |-> heap, size |-> unmapped_size] >>
  /\ at \in {"init", "malloc", "free", "munmap", "end"} => pc = "idle"
  /\ at = "freeing" => pc = "free"
  /\ verdict = "failed" => at = "end" /\ regions = << >>

\* _malloc has served the test so far, and will.
Serving ==
  /\ at \in {"malloc", "calling"} =>
       /\ \A i \in DOMAIN got : got[i] # NULL
       /\ Len(got) <= Len(tests[test])
       /\ HasBlockList(hdr, heap, Len(got))
  /\ at = "calling" =>
       /\ Len(got) < Len(tests[test])
       /\ pc \in {"search", "undefined"}
       /\ pc = "search" => /\ query = size_max(tests[test][Len(got) + 1], BLOCK_MIN_CAPACITY)
                           /\ ~grown

TInv == HInv /\ InOrder /\ Serving
=============================================================================
