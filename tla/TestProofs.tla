----------------------------- MODULE TestProofs -----------------------------
(***************************************************************************)
(* The test program: TInv is an invariant of TestSpec, so no test disturbs *)
(* the next, and debug_heap prints the whole heap.                         *)
(***************************************************************************)
EXTENDS TestInv, HeapProofs, Arithmetic

USE DEF Blocks

(* The numbers.                                                            *)

\* What the tests ask for.
LEMMA TestQueries ==
  /\ DOMAIN tests = 1 .. 3
  /\ \A t \in 1 .. 3 :
       /\ Len(tests[t]) \in 1 .. 3
       /\ \A i \in 1 .. Len(tests[t]) : tests[t][i] \in Nat /\ tests[t][i] <= 2 * BLOCK_SIZE
<1>1. DOMAIN tests = 1 .. 3
  BY DEF tests
<1>2. tests[1] = << 256 >> /\ tests[2] = << 256, 256 >> /\ tests[3] = << 128, 512, 256 >>
  BY DEF tests, BLOCK_SIZE
<1>3. ASSUME NEW t \in 1 .. 3
      PROVE  /\ Len(tests[t]) \in 1 .. 3
             /\ \A i \in 1 .. Len(tests[t]) :
                  tests[t][i] \in Nat /\ tests[t][i] <= 2 * BLOCK_SIZE
  <2> DEFINE s == tests[t]
  <2>1. s = << 256 >> \/ s = << 256, 256 >> \/ s = << 128, 512, 256 >>
    BY <1>2
  <2> HIDE DEF s
  <2>2. CASE s = << 256 >>
    <3>1. Len(s) = 1 /\ \A i \in 1 .. 1 : s[i] \in Nat /\ s[i] <= 512
      BY <2>2
    <3> QED
      BY <3>1 DEF s, BLOCK_SIZE
  <2>3. CASE s = << 256, 256 >>
    <3>1. Len(s) = 2 /\ \A i \in 1 .. 2 : s[i] \in Nat /\ s[i] <= 512
      BY <2>3
    <3> QED
      BY <3>1 DEF s, BLOCK_SIZE
  <2>4. CASE s = << 128, 512, 256 >>
    <3>1. Len(s) = 3 /\ \A i \in 1 .. 3 : s[i] \in Nat /\ s[i] <= 512
      BY <2>4
    <3> QED
      BY <3>1 DEF s, BLOCK_SIZE
  <2> QED
    BY <2>1, <2>2, <2>3, <2>4
<1> QED
  BY <1>1, <1>3

LEMMA TestCount == Len(tests) = 3 /\ DOMAIN tests = 1 .. 3
BY DEF tests

\* The next request of a test that has made n.
LEMMA NextQuery ==
  ASSUME NEW t \in 1 .. 3, NEW n \in Nat, n < Len(tests[t])
  PROVE  /\ n \in 0 .. 2
         /\ tests[t][n + 1] \in Nat /\ tests[t][n + 1] <= 2 * BLOCK_SIZE
<1> DEFINE m == Len(tests[t])
<1>1. m \in 1 .. 3 /\ n < m
  BY TestQueries
<1> HIDE DEF m
<1>2. n \in 0 .. 2 /\ n + 1 \in 1 .. m
  BY <1>1
<1> QED
  BY <1>2, TestQueries DEF m

\* The number of a request, raised to the least capacity, and what is left of
\* the room after it.
LEMMA RoomAfter ==
  ASSUME NEW n \in 0 .. 2, NEW q \in Nat, q <= 2 * BLOCK_SIZE
  PROVE  LET s == size_max(q, BLOCK_MIN_CAPACITY)
         IN  /\ s \in Nat /\ s >= BLOCK_MIN_CAPACITY
             /\ room(n) \in Nat /\ room(n + 1) \in Nat
             /\ room(n) >= s + HEADER_SIZE + room(n + 1)
             /\ room(n + 1) >= BLOCK_MIN_CAPACITY
<1>1. /\ HEADER_SIZE \in Nat /\ BLOCK_MIN_CAPACITY \in Nat
      /\ largest \in Nat
      /\ size_max(q, BLOCK_MIN_CAPACITY) \in Nat
      /\ size_max(q, BLOCK_MIN_CAPACITY) >= BLOCK_MIN_CAPACITY
      /\ size_max(q, BLOCK_MIN_CAPACITY) + HEADER_SIZE <= largest
  BY SizesAssumption DEF largest, size_max, BLOCK_SIZE
<1>2. /\ room(0) = 3 * largest + BLOCK_MIN_CAPACITY
      /\ room(1) = 2 * largest + BLOCK_MIN_CAPACITY
      /\ room(2) = largest + BLOCK_MIN_CAPACITY
      /\ room(3) = BLOCK_MIN_CAPACITY
  BY <1>1 DEF room
<1>3. n = 0 \/ n = 1 \/ n = 2
  OBVIOUS
<1> QED
  BY <1>1, <1>2, <1>3

\* munmap takes as many bytes as heap_init mapped.
LEMMA HeapSize ==
  /\ region_size_for(HEAP_SIZE) = unmapped_size
  /\ unmapped_size \in Nat
  /\ HEADER_SIZE + room(0) <= unmapped_size
  /\ room(0) \in Nat
<1>1. HEAP_SIZE \in Nat
  BY DEF HEAP_SIZE
<1>2. region_size_for(HEAP_SIZE) \in Nat
  BY <1>1, RegionSizeAlways
<1>3. region_size_for(HEAP_SIZE) = size_max(unmapped_size, REGION_MIN_SIZE)
  BY DEF region_size_for, region_actual_size, unmapped_size
<1>4. REGION_MIN_SIZE <= unmapped_size /\ HEADER_SIZE + room(0) <= unmapped_size
  BY TestAssumption DEF unmapped_size
<1>5. room(0) \in Nat
  BY RoomAfter DEF BLOCK_SIZE
<1> QED
  BY <1>2, <1>3, <1>4, <1>5 DEF size_max
-----------------------------------------------------------------------------
(* One lemma per action.                                                   *)

LEMMA TestInitInv == TestInit => TInv
<1> SUFFICES ASSUME TestInit PROVE TInv
  OBVIOUS
<1>1. HInv
  BY InitInv DEF TestInit
<1>2. InOrder
  <2>1. DOMAIN NoBlocks = {}
    BY DEF NoBlocks
  <2> QED
    BY <2>1, TestQueries DEF TestInit, Init, SpaceInit, InOrder
<1>3. Serving
  BY DEF TestInit, Serving
<1> QED
  BY <1>1, <1>2, <1>3 DEF TInv

\* heap_init gives the test one region with one block.
LEMMA HeapInitWrites ==
  ASSUME HInv, NEW i \in Nat, heap_init(i)
  PROVE  \E a : /\ FreshRegion(regions, a, region_size_for(i))
                /\ regions' = Append(regions, [addr |-> a, size |-> region_size_for(i)])
                /\ IsNewBlock(hdr, hdr', a, region_size_for(i))
<1>1. PICK r \in alloc_region(HEAP_START, i) :
        /\ ~region_is_invalid(r)
        /\ regions' = RegionsWith(r)
        /\ hdr' = block_init(hdr, r.addr, r.size, NULL)
  BY DEF heap_init
<1> DEFINE size == region_size_for(i)
<1>2. r = [addr |-> r.addr, size |-> size, extends |-> r.addr = HEAP_START]
      /\ FreshRegion(regions, r.addr, size)
  BY <1>1, AllocRegion, InvTypes, AddressAssumption DEF region_is_invalid, REGION_INVALID
<1>3. r.size = size
  BY <1>2
<1> HIDE DEF size
<1>4. IsNewBlock(hdr, hdr', r.addr, size)
  BY <1>1, <1>2, <1>3, NewBlockWrites, InvTypes
<1>5. regions' = Append(regions, [addr |-> r.addr, size |-> size])
  BY <1>1, <1>3 DEF RegionsWith
<1> QED
  BY <1>2, <1>4, <1>5 DEF size

LEMMA InitHeapInv ==
  ASSUME TInv, InitHeap
  PROVE  TInv'
<1>1. /\ at = "init" /\ heap_init(HEAP_SIZE)
      /\ heap' = regions'[Len(regions')].addr /\ at' = "malloc"
      /\ UNCHANGED <<test, got, verdict, live, pc>>
      /\ HInv /\ regions = << >> /\ DOMAIN hdr = {} /\ got = << >>
      /\ test \in DOMAIN tests /\ verdict # "failed"
      /\ pc = "idle"
  BY DEF InitHeap, TInv, InOrder, heap_init
<1>2. HEAP_SIZE \in Nat
  BY DEF HEAP_SIZE
<1>3. HInv'
  BY <1>1, <1>2, HeapInitInv
<1>4. PICK a : /\ FreshRegion(regions, a, unmapped_size)
               /\ regions' = Append(regions, [addr |-> a, size |-> unmapped_size])
               /\ IsNewBlock(hdr, hdr', a, unmapped_size)
  BY <1>1, <1>2, HeapInitWrites, HeapSize
<1>5. regions' = << [addr |-> a, size |-> unmapped_size] >> /\ heap' = a
  BY <1>1, <1>4
<1>6. HasBlockList(hdr', heap', 0)
  <2> DEFINE bs == [i \in 1 .. 1 |-> a]
  <2>1. /\ DOMAIN hdr' = {a}
        /\ hdr'[a] = [next |-> NULL, capacity |-> unmapped_size - HEADER_SIZE, is_free |-> TRUE]
        /\ block_after(hdr', a) = a + unmapped_size
    BY <1>1, <1>4 DEF IsNewBlock
  <2>2. unmapped_size - HEADER_SIZE >= room(0)
    BY HeapSize, SizesAssumption
  <2>3. bs \in [1 .. 0 + 1 -> DOMAIN hdr'] /\ bs[1] = a /\ bs[0 + 1] = a
    BY <2>1
  <2> HIDE DEF bs
  <2>4. IsBlockList(hdr', a, 0, bs)
    BY <2>1, <2>2, <2>3 DEF IsBlockList
  <2> QED
    BY <1>5, <2>3, <2>4 DEF HasBlockList
<1>7. InOrder'
  BY <1>1, <1>5 DEF TInv, InOrder
<1>8. Serving'
  BY <1>1, <1>6 DEF Serving
<1> QED
  BY <1>3, <1>7, <1>8 DEF TInv

\* Where heap_init fails there is nothing to undo.
LEMMA InitFailsInv ==
  ASSUME TInv, InitFails
  PROVE  TInv'
<1>1. /\ at = "init" /\ at' = "end" /\ verdict' = "failed"
      /\ UNCHANGED <<test, heap, got, regions, foreign, hdr, pc, cur, request, query, grown,
                     heads, live>>
  BY DEF InitFails, tests_run, vars, heapvars
<1>2. HInv'
  BY <1>1, OtherInv, InvTypes DEF TInv, heapvars
<1>3. InOrder'
  BY <1>1 DEF TInv, InOrder
<1>4. Serving'
  BY <1>1 DEF Serving
<1> QED
  BY <1>2, <1>3, <1>4 DEF TInv

LEMMA CallMallocInv ==
  ASSUME TInv, CallMalloc
  PROVE  TInv'
<1> DEFINE q == tests[test][Len(got) + 1]
<1>1. /\ at = "malloc" /\ at' = "calling" /\ Len(got) < Len(tests[test])
      /\ malloc(q) \/ malloc_no_heap(q)
      /\ UNCHANGED <<test, heap, got, verdict>>
  BY DEF CallMalloc
<1>2. UNCHANGED <<regions, hdr, live>>
      /\ \/ pc' = "search" /\ query' = size_max(q, BLOCK_MIN_CAPACITY) /\ grown' = FALSE
         \/ pc' = "undefined"
  BY <1>1 DEF malloc, malloc_no_heap
<1>3. q \in Nat
  <2>1. test \in 1 .. 3 /\ Len(got) \in Nat
    BY TestQueries DEF TInv, InOrder
  <2> QED
    BY <1>1, <2>1, TestQueries
<1>4. HInv'
  BY <1>1, <1>3, MallocInv DEF TInv
<1>5. InOrder'
  BY <1>1, <1>2 DEF TInv, InOrder
<1>6. Serving'
  BY <1>1, <1>2 DEF TInv, Serving
<1> QED
  BY <1>4, <1>5, <1>6 DEF TInv

LEMMA CheckBlocksInv ==
  ASSUME TInv, CheckBlocks
  PROVE  TInv'
<1>1. /\ at = "malloc" /\ UNCHANGED vars
      /\ IF \E i \in DOMAIN got : got[i] = NULL
         THEN tests_run(FALSE)
         ELSE at' = "free" /\ UNCHANGED <<test, heap, got, verdict>>
  BY DEF CheckBlocks
<1>2. \A i \in DOMAIN got : got[i] # NULL
  BY <1>1 DEF TInv, Serving
<1>3. at' = "free" /\ UNCHANGED <<test, heap, got, verdict>>
  BY <1>1, <1>2
<1>4. UNCHANGED <<regions, foreign, hdr, pc, cur, request, query, grown, heads, live>>
  BY <1>1 DEF vars, heapvars
<1>5. HInv'
  BY <1>4, OtherInv, InvTypes DEF TInv, heapvars
<1>6. InOrder'
  BY <1>1, <1>3, <1>4 DEF TInv, InOrder
<1>7. Serving'
  BY <1>3 DEF Serving
<1> QED
  BY <1>5, <1>6, <1>7 DEF TInv

LEMMA FreeFirstInv ==
  ASSUME TInv, FreeFirst
  PROVE  TInv'
<1>1. /\ at = "free" /\ free(got[1]) /\ at' = "freeing"
      /\ UNCHANGED <<test, heap, got, verdict>>
  BY DEF FreeFirst
<1>2. got[1] \in DOMAIN live /\ pc' = "free" /\ UNCHANGED regions
  BY <1>1 DEF free
<1>3. HInv'
  BY <1>1, <1>2, FreeInv DEF TInv
<1>4. InOrder'
  BY <1>1, <1>2 DEF TInv, InOrder
<1>5. Serving'
  BY <1>1 DEF Serving
<1> QED
  BY <1>3, <1>4, <1>5 DEF TInv
-----------------------------------------------------------------------------
(* The calls.                                                              *)

\* A block in the list is in use and not the last, or free and the last.
LEMMA ListBlock ==
  ASSUME NEW h, HeadersTyped(h), NEW start, NEW n \in Nat,
         NEW bs \in [1 .. n + 1 -> DOMAIN h], IsBlockList(h, start, n, bs),
         NEW b \in DOMAIN h
  PROVE  \/ ~h[b].is_free /\ h[b].next # NULL
         \/ /\ b = bs[n + 1] /\ h[b].is_free /\ h[b].next = NULL
            /\ h[b].capacity >= room(n)
<1>1. PICK i \in 1 .. n + 1 : b = bs[i]
  BY DEF IsBlockList
<1>2. CASE i = n + 1
  BY <1>1, <1>2 DEF IsBlockList
<1>3. CASE i # n + 1
  <2>1. i \in 1 .. n /\ i + 1 \in 1 .. n + 1
    BY <1>3
  <2>2. h[bs[i]].next = bs[i + 1] /\ ~h[bs[i]].is_free
    BY <2>1 DEF IsBlockList
  <2>3. bs[i + 1] # NULL
    BY <2>1 DEF HeadersTyped
  <2> QED
    BY <1>1, <2>2, <2>3
<1> QED
  BY <1>2, <1>3

\* The search of a test passes the blocks in use and takes the last one.
LEMMA SearchServes ==
  ASSUME TInv, at = "calling", Running
  PROVE  /\ pc = "search"
         /\ \/ search_next
            \/ /\ allocate
               /\ \E bs \in [1 .. Len(got) + 1 -> Blocks] :
                    IsBlockList(hdr, heap, Len(got), bs) /\ cur = bs[Len(got) + 1]
<1> DEFINE n == Len(got)
           q == tests[test][n + 1]
<1>1. /\ HInv /\ pc \in {"search", "undefined"} /\ n \in Nat /\ n < Len(tests[test])
      /\ pc = "search" => query = size_max(q, BLOCK_MIN_CAPACITY) /\ ~grown
      /\ test \in 1 .. 3
  BY TestQueries DEF TInv, InOrder, Serving
<1>2. PICK bs \in [1 .. n + 1 -> Blocks] : IsBlockList(hdr, heap, n, bs)
  BY DEF TInv, Serving, HasBlockList
<1>3. pc = "search"
  BY <1>1 DEF Running, search_merge, search_next, allocate, search_end, return_last,
              grow_fails, grow_heap, free_merge, free_return
<1>4. cur \in Blocks
  BY <1>1, <1>3 DEF HInv, CursorOnBlock
<1>5. \/ ~hdr[cur].is_free /\ hdr[cur].next # NULL
      \/ /\ cur = bs[n + 1] /\ hdr[cur].is_free /\ hdr[cur].next = NULL
         /\ hdr[cur].capacity >= room(n)
  BY <1>1, <1>2, <1>4, ListBlock, InvTypes
<1>6. room(n) >= query /\ room(n) \in Nat /\ query \in Nat /\ hdr[cur].capacity \in Nat
  <2>1. n \in 0 .. 2 /\ q \in Nat /\ q <= 2 * BLOCK_SIZE
    BY <1>1, NextQuery
  <2> HIDE DEF n, q
  <2>3. LET s == size_max(q, BLOCK_MIN_CAPACITY)
        IN  /\ s \in Nat /\ room(n) \in Nat /\ room(n + 1) \in Nat
            /\ room(n) >= s + HEADER_SIZE + room(n + 1)
    BY <2>1, RoomAfter
  <2> QED
    BY <1>1, <1>3, <1>4, <2>3, SizesAssumption, InvTypes
<1> HIDE DEF n, q
\* So the search does not merge, nor end without a block.
<1>7. ~CanMerge(hdr, cur)
  BY <1>5 DEF CanMerge, mergeable
<1>8. ~(IsPassed(cur) /\ hdr[cur].next = NULL)
  BY <1>5, <1>6 DEF IsPassed, block_is_big_enough
<1>9. search_next \/ allocate
  BY <1>3, <1>7, <1>8 DEF Running, search_merge, search_end, return_last,
                          grow_fails, grow_heap, free_merge, free_return
<1>10. allocate => cur = bs[n + 1]
  BY <1>5 DEF allocate, IsGood
<1> QED
  BY <1>2, <1>3, <1>9, <1>10 DEF n

\* What split_if_too_big and the mark leave of the last block: a block in use
\* of the size asked for, and a new last block.
LEMMA AllocateSplits ==
  ASSUME TInv, at = "calling", allocate,
         NEW bs \in [1 .. Len(got) + 1 -> Blocks],
         IsBlockList(hdr, heap, Len(got), bs), cur = bs[Len(got) + 1]
  PROVE  /\ HasBlockList(hdr', heap, Len(got) + 1)
         /\ DOMAIN live' \ DOMAIN live = {contents(cur)}
         /\ contents(cur) \in Nat /\ contents(cur) # NULL
<1> DEFINE n == Len(got)
           q == tests[test][n + 1]
           h == split_if_too_big(hdr, cur, query)
           r == contents(cur) + query
<1>1. /\ HInv /\ n \in Nat /\ n < Len(tests[test]) /\ test \in 1 .. 3 /\ pc = "search"
      /\ query = size_max(q, BLOCK_MIN_CAPACITY)
  BY TestQueries DEF TInv, InOrder, Serving, allocate
<1>2. /\ hdr' = [h EXCEPT ![cur].is_free = FALSE]
      /\ live' = Put(live, contents(cur), request)
      /\ cur \in Blocks
  BY <1>1 DEF allocate, HInv, CursorOnBlock
<1>3. /\ hdr[cur].is_free /\ hdr[cur].next = NULL /\ hdr[cur].capacity >= room(n)
      /\ block_after(hdr, cur) = heap + unmapped_size
  BY DEF IsBlockList
<1>4. /\ n \in 0 .. 2 /\ query \in Nat /\ query >= BLOCK_MIN_CAPACITY
      /\ room(n) \in Nat /\ room(n + 1) \in Nat
      /\ room(n) >= query + HEADER_SIZE + room(n + 1)
      /\ room(n + 1) >= BLOCK_MIN_CAPACITY
  <2>1. n \in 0 .. 2 /\ q \in Nat /\ q <= 2 * BLOCK_SIZE
    BY <1>1, NextQuery
  <2> HIDE DEF n, q
  <2> QED
    BY <1>1, <2>1, RoomAfter
<1> HIDE DEF n, q, h
<1>5. hdr[cur].capacity \in Nat /\ HEADER_SIZE \in Nat /\ BLOCK_MIN_CAPACITY \in Nat
  BY <1>1, <1>2, InvTypes, SizesAssumption
<1>6. block_splittable(hdr, cur, query)
  <2> DEFINE need == query + HEADER_SIZE + BLOCK_MIN_CAPACITY
  <2>1. need \in Nat /\ need <= hdr[cur].capacity
    BY <1>3, <1>4, <1>5
  <2> HIDE DEF need
  <2>2. Word(need) <= need /\ Word(need) \in Nat
    BY <2>1, SizesAssumption DEF Word
  <2> QED
    BY <1>3, <1>5, <2>1, <2>2 DEF block_splittable, need
<1>7. IsSplit(hdr, h, cur, query)
  BY <1>1, <1>2, <1>3, <1>4, <1>5, <1>6, InvTypes, SplitWrites DEF h
<1>8. /\ r \in Nat /\ r \notin Blocks /\ cur # r
      /\ DOMAIN hdr' = Blocks \cup {r}
      /\ \A c \in Blocks : c # cur => hdr'[c] = hdr[c]
      /\ hdr'[cur].next = r /\ hdr'[cur].capacity = query /\ ~hdr'[cur].is_free
      /\ hdr'[r] = [next |-> NULL, capacity |-> hdr[cur].capacity - query - HEADER_SIZE,
                    is_free |-> TRUE]
      /\ block_after(hdr', cur) = r
      /\ block_after(hdr', r) = heap + unmapped_size
  <2>1. /\ r \in Nat /\ r \notin Blocks /\ cur # r
        /\ DOMAIN h = Blocks \cup {r}
        /\ \A c \in Blocks : c # cur => h[c] = hdr[c]
        /\ h[cur] = [next |-> r, capacity |-> query, is_free |-> TRUE]
        /\ h[r] = [next |-> NULL, capacity |-> hdr[cur].capacity - query - HEADER_SIZE,
                    is_free |-> TRUE]
        /\ block_after(h, cur) = r
        /\ block_after(h, r) = heap + unmapped_size
    BY <1>2, <1>3, <1>7 DEF IsSplit
  <2> HIDE DEF r
  <2>2. /\ DOMAIN hdr' = DOMAIN h
        /\ \A c \in DOMAIN h : c # cur => hdr'[c] = h[c]
        /\ hdr'[cur].next = r /\ hdr'[cur].capacity = query /\ ~hdr'[cur].is_free
    <3>1. cur \in DOMAIN h
      BY <1>2, <2>1
    <3>2. h[cur] \in [next : {r}, capacity : {query}, is_free : BOOLEAN]
      BY <2>1
    <3> QED
      BY <1>2, <2>1, <3>1, <3>2
  <2> QED
    BY <1>2, <2>1, <2>2 DEF block_after
<1>9. HasBlockList(hdr', heap, n + 1)
  <2> PICK s : s = r
    OBVIOUS
  <2> DEFINE cs == [i \in 1 .. n + 1 + 1 |-> IF i = n + 2 THEN s ELSE bs[i]]
  <2>1. /\ bs \in [1 .. n + 1 -> Blocks] /\ cur = bs[n + 1] /\ IsBlockList(hdr, heap, n, bs)
    BY DEF n
  <2>2. /\ cs \in [1 .. n + 1 + 1 -> DOMAIN hdr']
        /\ cs[n + 1 + 1] = s /\ cs[n + 1] = cur
        /\ \A i \in 1 .. n + 1 : cs[i] = bs[i]
    BY <1>4, <1>8, <2>1
  <2> HIDE DEF cs, r
  <2>3. \A b \in DOMAIN hdr' : \E i \in 1 .. n + 1 + 1 : b = cs[i]
    <3>1. ASSUME NEW b \in Blocks PROVE \E i \in 1 .. n + 1 + 1 : b = cs[i]
      <4>1. PICK i \in 1 .. n + 1 : b = bs[i]
        BY <2>1 DEF IsBlockList
      <4> QED
        BY <1>4, <2>2, <4>1
    <3> QED
      BY <1>4, <1>8, <2>2, <3>1
  <2>4. cs[1] = heap
    BY <1>4, <2>1, <2>2 DEF IsBlockList
  <2>5. ASSUME NEW i \in 1 .. n + 1
        PROVE  /\ hdr'[cs[i]].next = cs[i + 1]
               /\ cs[i + 1] = block_after(hdr', cs[i])
               /\ ~hdr'[cs[i]].is_free
    <3>1. CASE i = n + 1
      BY <1>8, <2>2, <3>1
    <3>2. CASE i # n + 1
      <4>1. i \in 1 .. n /\ i + 1 \in 1 .. n + 1
        BY <1>4, <3>2
      <4>2. /\ hdr[bs[i]].next = bs[i + 1] /\ bs[i + 1] = block_after(hdr, bs[i])
            /\ ~hdr[bs[i]].is_free /\ bs[i] \in Blocks
        BY <2>1, <4>1 DEF IsBlockList
      <4>3. hdr'[bs[i]] = hdr[bs[i]]
        BY <1>3, <1>8, <4>2
      <4>4. cs[i] = bs[i] /\ cs[i + 1] = bs[i + 1]
        BY <2>2, <4>1
      <4> QED
        BY <4>2, <4>3, <4>4 DEF block_after
    <3> QED
      BY <3>1, <3>2
  <2>6. /\ hdr'[s].next = NULL /\ hdr'[s].is_free /\ hdr'[s].capacity >= room(n + 1)
        /\ block_after(hdr', s) = heap + unmapped_size
    BY <1>3, <1>4, <1>5, <1>8
  <2>7. IsBlockList(hdr', heap, n + 1, cs)
    BY <2>2, <2>3, <2>4, <2>5, <2>6 DEF IsBlockList
  <2> QED
    BY <2>2, <2>7 DEF HasBlockList
<1>10. DOMAIN live' \ DOMAIN live = {contents(cur)} /\ contents(cur) \in Nat /\ contents(cur) # NULL
  <2>1. contents(cur) \in Nat /\ block_get_header(contents(cur)) = cur
    BY <1>1, <1>2, ContentsHeader
  <2>2. contents(cur) # NULL
    BY <1>1, <1>2, <1>5, InvTypes DEF contents, NULL
  <2>3. contents(cur) \notin DOMAIN live
    BY <1>1, <1>3, <2>1 DEF HInv, AllocatedBlocks
  <2> QED
    BY <1>2, <2>1, <2>2, <2>3 DEF Put
<1> QED
  BY <1>9, <1>10 DEF n

LEMMA RunCallInv ==
  ASSUME TInv, RunCall
  PROVE  TInv'
<1>1. /\ Running /\ at \in {"calling", "freeing"} /\ UNCHANGED <<test, heap, verdict>>
      /\ HInv /\ InOrder /\ Serving
  BY DEF RunCall, TInv
<1>2. CASE at = "calling" /\ search_next
  <2>1. /\ pc = "search" /\ UNCHANGED <<regions, hdr, pc, query, grown, live>>
    BY <1>2 DEF search_next
  <2>2. UNCHANGED <<at, got>>
    BY <2>1 DEF RunCall
  <2>3. HInv'
    BY <1>1, <1>2, SearchNextInv
  <2>4. InOrder'
    BY <1>1, <2>1, <2>2 DEF InOrder
  <2>5. Serving'
    BY <1>1, <2>1, <2>2 DEF Serving
  <2> QED
    BY <2>3, <2>4, <2>5 DEF TInv
<1>3. CASE /\ at = "calling" /\ allocate
           /\ \E bs \in [1 .. Len(got) + 1 -> Blocks] :
                IsBlockList(hdr, heap, Len(got), bs) /\ cur = bs[Len(got) + 1]
  <2>1. pc' = "idle" /\ UNCHANGED regions
    BY <1>3 DEF allocate, Return
  <2>2. /\ HasBlockList(hdr', heap, Len(got) + 1)
        /\ DOMAIN live' \ DOMAIN live = {contents(cur)}
        /\ contents(cur) \in Nat /\ contents(cur) # NULL
    BY <1>3, AllocateSplits
  <2> PICK p : p = contents(cur)
    OBVIOUS
  <2>3. at' = "malloc" /\ got' = Append(got, p)
    <3>1. /\ at' = "malloc"
          /\ LET new == DOMAIN live' \ DOMAIN live
             IN  got' = Append(got, IF new = {} THEN NULL ELSE CHOOSE x \in new : TRUE)
      BY <1>3, <2>1 DEF RunCall
    <3>2. (CHOOSE x \in {p} : TRUE) = p
      OBVIOUS
    <3> QED
      BY <2>2, <3>1, <3>2
  <2>4. /\ got \in Seq(Nat) /\ p \in Nat /\ p # NULL
        /\ \A i \in DOMAIN got : got[i] # NULL
        /\ Len(got) < Len(tests[test]) /\ test \in 1 .. 3
    BY <1>1, <1>3, <2>2, TestQueries DEF InOrder, Serving
  <2>5. /\ got' \in Seq(Nat) /\ Len(got') = Len(got) + 1
        /\ \A i \in DOMAIN got' : got'[i] # NULL
    BY <2>3, <2>4
  <2>6. Len(got') <= Len(tests'[test'])
    <3>1. Len(tests[test]) \in Int /\ Len(got) \in Int
      BY <2>4, TestQueries
    <3> QED
      BY <1>1, <2>4, <2>5, <3>1
  <2>7. HInv'
    BY <1>1, <1>3, AllocateInv
  <2>8. InOrder'
    BY <1>1, <1>3, <2>1, <2>3, <2>5 DEF InOrder
  <2>9. Serving'
    BY <1>1, <2>2, <2>3, <2>5, <2>6 DEF Serving
  <2> QED
    BY <2>7, <2>8, <2>9 DEF TInv
<1>4. CASE at = "freeing"
  <2>1. pc = "free" /\ UNCHANGED got
    BY <1>1, <1>4 DEF RunCall, InOrder
  <2>2. free_merge \/ free_return
    BY <1>1, <2>1 DEF Running, search_merge, search_next, allocate, search_end, return_last,
                      grow_fails, grow_heap
  <2>3. HInv'
    BY <1>1, <2>2, FreeMergeInv, FreeReturnInv
  <2>4. /\ UNCHANGED regions
        /\ \/ pc' = "free" /\ at' = at
           \/ pc' = "idle" /\ at' = "munmap"
    BY <1>4, <2>1, <2>2 DEF RunCall, free_merge, free_return, Return
  <2>5. InOrder'
    BY <1>1, <1>4, <2>1, <2>4 DEF InOrder
  <2>6. Serving'
    BY <1>4, <2>4 DEF Serving
  <2> QED
    BY <2>3, <2>5, <2>6 DEF TInv
<1> QED
  BY <1>1, <1>2, <1>3, <1>4, SearchServes

\* What munmap leaves of one region.
LEMMA FlattenOne ==
  ASSUME NEW x
  PROVE  FlattenSeq(<< x >>) = x
<1> DEFINE s == << x >>
           Body(f) == [i \in 1 .. Len(s) |-> IF i = 1 THEN s[i] ELSE f[i - 1] \o s[i]]
           f == CHOOSE f : f = Body(f)
<1>1. Len(s) = 1 /\ s[1] = x
  OBVIOUS
<1>2. FlattenSeq(s) = f[1]
  BY <1>1 DEF FlattenSeq
<1> HIDE DEF s
<1>3. \E g : g = Body(g)
  <2> DEFINE g == [i \in 1 .. 1 |-> x]
  <2>1. g = Body(g)
    BY <1>1
  <2> QED
    BY <2>1
<1>4. f = Body(f)
  BY <1>3
<1> HIDE DEF f
<1>5. f[1] = x
  BY <1>1, <1>4
<1> QED
  BY <1>2, <1>5 DEF s

\* The heap of a test takes its blocks and what the test holds with it.
LEMMA MunmapEmpties ==
  ASSUME TInv, Munmap
  PROVE  regions' = << >> /\ DOMAIN hdr' = {} /\ DOMAIN live' = {} /\ hdr' = NoBlocks
<1> DEFINE gone(a) == heap <= a /\ a < heap + unmapped_size
           rest(r) == [addr |-> heap + unmapped_size, size |-> r.size - unmapped_size]
           kept(r) == IF ~gone(r.addr) THEN <<r>>
                      ELSE IF r.size > unmapped_size THEN <<rest(r)>> ELSE << >>
<1>1. /\ at = "munmap"
      /\ regions' = FlattenSeq([i \in DOMAIN regions |-> kept(regions[i])])
      /\ hdr' = [b \in { a \in DOMAIN hdr : ~gone(a) } |-> hdr[b]]
      /\ live' = [p \in { a \in DOMAIN live : ~gone(a) } |-> live[p]]
  BY DEF Munmap
<1>2. HInv /\ regions = << [addr |-> heap, size |-> unmapped_size] >>
  BY <1>1 DEF TInv, InOrder
<1>3. /\ DOMAIN regions = {1} /\ regions[1].addr = heap /\ regions[1].size = unmapped_size
  BY <1>2
<1>4. heap \in Nat /\ unmapped_size \in Nat /\ unmapped_size > 0
  BY <1>2, <1>3, InvTypes, RegionNumbers DEF RegionsApart
<1>5. \A b \in DOMAIN hdr : \A x \in b .. block_after(hdr, b) - 1 : gone(x)
  <2> SUFFICES ASSUME NEW b \in DOMAIN hdr, NEW x \in b .. block_after(hdr, b) - 1
               PROVE  gone(x)
    OBVIOUS
  <2>1. x \in 0 .. ADDRESS_TOP /\ b <= x /\ x < block_after(hdr, b)
    BY <1>2, InvTypes, BlockNumbers, AddressAssumption
  <2>2. PICK i \in DOMAIN regions : Inside(x, regions[i].addr, regions[i].size)
    BY <1>2, <2>1, InvTypes DEF Layout, Covers
  <2> QED
    BY <1>3, <2>2 DEF Inside
<1>6. \A b \in DOMAIN hdr : gone(b) /\ gone(contents(b))
  <2> SUFFICES ASSUME NEW b \in DOMAIN hdr PROVE gone(b) /\ gone(contents(b))
    OBVIOUS
  <2>1. b \in b .. block_after(hdr, b) - 1 /\ contents(b) \in b .. block_after(hdr, b) - 1
    BY <1>2, InvTypes, BlockNumbers, SizesAssumption DEF contents
  <2> HIDE DEF gone
  <2> QED
    BY <1>5, <2>1
<1>7. \A p \in DOMAIN live : gone(p)
  BY <1>2, <1>6, ContentsHeader DEF HInv, AllocatedBlocks
<1>8. regions' = << >>
  <2>1. kept(regions[1]) = << >>
    BY <1>3, <1>4
  <2> HIDE DEF kept
  <2>2. [i \in DOMAIN regions |-> kept(regions[i])] = << << >> >>
    BY <1>2, <1>3, <2>1
  <2> QED
    BY <1>1, <2>2, FlattenOne
<1> HIDE DEF gone
<1>9. DOMAIN hdr' = {} /\ DOMAIN live' = {} /\ hdr' = NoBlocks
  BY <1>1, <1>6, <1>7 DEF NoBlocks
<1> QED
  BY <1>8, <1>9

LEMMA MunmapInv ==
  ASSUME TInv, Munmap
  PROVE  TInv'
<1>1. regions' = << >> /\ DOMAIN hdr' = {} /\ DOMAIN live' = {} /\ hdr' = NoBlocks
  BY MunmapEmpties
<1>2. /\ at = "munmap" /\ heads' = heads \ {heap}
      /\ UNCHANGED <<foreign, pc, cur, request, query, grown>>
      /\ live' = [p \in DOMAIN live' |-> live'[p]]
      /\ tests_run(TRUE)
  BY DEF Munmap
<1>3. HInv /\ InOrder /\ pc = "idle" /\ test \in 1 .. 3
  BY <1>2, TestQueries DEF TInv, InOrder
<1>4. RegionsApart(regions') /\ Layout(hdr', regions')
  BY <1>1, EmptyLayout
<1>5. TypeOK'
  BY <1>1, <1>2, <1>3, <1>4, InvTypes, TypesNext
<1>6. CursorOnBlock' /\ RunningCall' /\ AllocatedBlocks'
  BY <1>1, <1>2, <1>3 DEF CursorOnBlock, RunningCall, AllocatedBlocks
<1>7. HInv'
  BY <1>4, <1>5, <1>6 DEF HInv
<1>8. CASE test < Len(tests)
  <2>1. test' = test + 1 /\ at' = "init" /\ got' = << >> /\ UNCHANGED verdict
    BY <1>2, <1>8 DEF tests_run
  <2>2. test + 1 \in DOMAIN tests
    BY <1>3, <1>8, TestCount
  <2>3. verdict = "running"
    BY <1>2, <1>3 DEF InOrder
  <2>4. InOrder'
    BY <1>1, <1>2, <1>3, <2>1, <2>2, <2>3 DEF InOrder
  <2>5. Serving'
    BY <2>1 DEF Serving
  <2> QED
    BY <1>7, <2>4, <2>5 DEF TInv
<1>9. CASE ~(test < Len(tests))
  <2>1. at' = "end" /\ verdict' = "completed" /\ UNCHANGED <<test, heap, got>>
    BY <1>2, <1>9 DEF tests_run
  <2>2. InOrder'
    BY <1>1, <1>2, <1>3, <2>1 DEF InOrder
  <2>3. Serving'
    BY <2>1 DEF Serving
  <2> QED
    BY <1>7, <2>2, <2>3 DEF TInv
<1> QED
  BY <1>8, <1>9

LEMMA OtherCodeInv ==
  ASSUME TInv, UNCHANGED testvars, OtherCode \/ UNCHANGED vars
  PROVE  TInv'
<1>1. /\ UNCHANGED <<test, at, heap, got, verdict>> /\ UNCHANGED regions /\ UNCHANGED heapvars
      /\ HInv /\ InOrder /\ Serving
  BY DEF testvars, TInv, OtherCode, ForeignMap, ForeignUnmap, vars
<1>2. foreign' \in SUBSET FOREIGN_PAGES
  BY <1>1, InvTypes DEF OtherCode, ForeignMap, ForeignUnmap, vars
<1>3. HInv'
  BY <1>1, <1>2, OtherInv
<1>4. UNCHANGED <<hdr, pc, query, grown, live>>
  BY <1>1 DEF heapvars
<1>5. InOrder'
  BY <1>1, <1>4 DEF InOrder
<1>6. Serving'
  BY <1>1, <1>4 DEF Serving
<1> QED
  BY <1>3, <1>5, <1>6 DEF TInv
-----------------------------------------------------------------------------
LEMMA TestNextInv == TInv /\ [TestNext]_<<vars, testvars>> => TInv'
<1> SUFFICES ASSUME TInv, [TestNext]_<<vars, testvars>> PROVE TInv'
  OBVIOUS
<1>1. CASE Program
  BY <1>1, InitHeapInv, InitFailsInv, CallMallocInv, RunCallInv, CheckBlocksInv,
     FreeFirstInv, MunmapInv DEF Program
<1>2. CASE (OtherCode \/ Crashed) /\ UNCHANGED testvars
  BY <1>2, OtherCodeInv DEF Crashed
<1>3. CASE UNCHANGED <<vars, testvars>>
  BY <1>3, OtherCodeInv
<1> QED
  BY <1>1, <1>2, <1>3 DEF TestNext

\* In every state of the test program its heap is one region whose last block
\* has room for what the test still asks for.
THEOREM TestInvariance == TestSpec => []TInv
BY TestInitInv, TestNextInv, PTL DEF TestSpec

\* No test finds anything of the heaps before it, and none fails but where
\* heap_init does: then nothing is left mapped.
THEOREM NoTestDisturbsAnother == TestSpec => []TestsIndependent
<1>1. TInv => TestsIndependent
  BY DEF TInv, InOrder, TestsIndependent
<1> QED
  BY <1>1, TestInvariance, PTL
-----------------------------------------------------------------------------
(* The dump.                                                               *)

\* The list goes up in the memory, so no block is in it twice.
LEMMA ListRises ==
  ASSUME NEW h, HeadersTyped(h), BlocksApart(h), NEW start, NEW n \in Nat,
         NEW bs \in [1 .. n + 1 -> DOMAIN h], IsBlockList(h, start, n, bs)
  PROVE  /\ \A i, j \in 1 .. n + 1 : i < j => bs[i] < bs[j]
         /\ Cardinality(DOMAIN h) = n + 1
<1>1. \A i \in 1 .. n + 1 : bs[i] \in Nat /\ bs[i] \in DOMAIN h
  BY DEF HeadersTyped
<1>2. \A i \in 1 .. n : bs[i] < bs[i + 1]
  <2> SUFFICES ASSUME NEW i \in 1 .. n PROVE bs[i] < bs[i + 1]
    OBVIOUS
  <2>1. bs[i + 1] = block_after(h, bs[i]) /\ bs[i] \in DOMAIN h
    BY <1>1 DEF IsBlockList
  <2> QED
    BY <2>1, BlockNumbers, SizesAssumption
<1>3. \A i, j \in 1 .. n + 1 : i < j => bs[i] < bs[j]
  <2> DEFINE T == { j \in 1 .. n + 1 : \E i \in 1 .. n + 1 : i < j /\ ~(bs[i] < bs[j]) }
  <2> SUFFICES ASSUME T # {} PROVE FALSE
    OBVIOUS
  <2>1. PICK j \in T : \A k \in T : j <= k
    <3>1. T \subseteq Nat
      OBVIOUS
    <3> HIDE DEF T
    <3> QED
      BY <3>1, LeastNumber
  <2>2. PICK i \in 1 .. n + 1 : i < j /\ ~(bs[i] < bs[j])
    OBVIOUS
  <2>3. j \in 1 .. n + 1 /\ j - 1 \in 1 .. n /\ j - 1 \in 1 .. n + 1 /\ j - 1 + 1 = j
    BY <2>2
  <2>4. bs[j - 1] < bs[j]
    BY <1>2, <2>3
  <2>5. i # j - 1
    BY <2>2, <2>4
  <2>6. j - 1 \notin T
    <3> HIDE DEF T
    <3> QED
      BY <2>1, <2>3
  <2>7. bs[i] < bs[j - 1]
    BY <2>2, <2>3, <2>5, <2>6
  <2> QED
    BY <1>1, <2>2, <2>3, <2>4, <2>7
<1>4. Cardinality(DOMAIN h) = n + 1
  <2> DEFINE S == 1 .. n + 1
  <2>1. IsFiniteSet(S) /\ Cardinality(S) = n + 1
    BY FS_Interval
  <2>2. bs \in Surjection(S, DOMAIN h)
    BY DEF Surjection, IsBlockList
  <2>3. bs \in Injection(S, DOMAIN h)
    <3>1. \A i, j \in S : bs[i] = bs[j] => i = j
      BY <1>1, <1>3
    <3> QED
      BY <3>1 DEF Injection, IsInjective
  <2> HIDE DEF S
  <2> QED
    BY <2>1, <2>2, <2>3, FS_Surjection
<1> QED
  BY <1>3, <1>4

\* One more element of a sequence.
LEMMA OneMore ==
  ASSUME NEW e, NEW k \in Nat \ {0}
  PROVE  /\ Len([i \in 1 .. k - 1 |-> e[i]]) = k - 1
         /\ Append([i \in 1 .. k - 1 |-> e[i]], e[k]) = [i \in 1 .. k |-> e[i]]
<1> DEFINE S == { e[i] : i \in 1 .. k }
           s == [i \in 1 .. k - 1 |-> e[i]]
           t == [i \in 1 .. k |-> e[i]]
<1>1. s \in Seq(S) /\ Len(s) = k - 1 /\ e[k] \in S
  OBVIOUS
<1>2. t \in Seq(S) /\ Len(t) = k
  OBVIOUS
<1>3. \A i \in 1 .. k - 1 : s[i] = e[i]
  OBVIOUS
<1>4. \A i \in 1 .. k : t[i] = e[i]
  OBVIOUS
<1> HIDE DEF S, s, t
<1> DEFINE u == Append(s, e[k])
<1>5. /\ u \in Seq(S) /\ Len(u) = k /\ u[k] = e[k]
      /\ \A i \in 1 .. k - 1 : u[i] = s[i]
  BY <1>1
<1> HIDE DEF u
<1>6. \A i \in 1 .. k : u[i] = t[i]
  BY <1>3, <1>4, <1>5
<1>7. u = t
  BY <1>2, <1>5, <1>6
<1> QED
  BY <1>1, <1>7 DEF s, t, u

\* What is printed is the list, block by block.
LEMMA DumpIsList ==
  ASSUME HInv, NEW n \in Nat, NEW bs \in [1 .. n + 1 -> Blocks],
         IsBlockList(hdr, heap, n, bs)
  PROVE  debug_heap(heap) = [i \in 1 .. n + 1 |-> debug_struct_info(bs[i])]
<1> DEFINE N == n + 1
           Further(f, k) ==
             LET b == IF k = 1 THEN heap
                      ELSE IF Len(f[k - 1]) < k - 1 THEN NULL
                      ELSE hdr[f[k - 1][k - 1].addr].next
             IN  IF b \in DOMAIN hdr THEN Append(f[k - 1], debug_struct_info(b)) ELSE f[k - 1]
           Body(f) == [k \in 0 .. N |-> IF k = 0 THEN << >> ELSE Further(f, k)]
           f == CHOOSE f : f = Body(f)
           e == [i \in 1 .. N |-> debug_struct_info(bs[i])]
           g == [k \in 0 .. N |-> [i \in 1 .. k |-> e[i]]]
<1>1. Cardinality(DOMAIN hdr) = N
  BY ListRises, InvTypes
<1>2. debug_heap(heap) = f[N]
  BY <1>1 DEF debug_heap
<1>3. /\ \A k \in 0 .. N : g[k] = [i \in 1 .. k |-> e[i]]
      /\ g[0] = << >> /\ DOMAIN g = 0 .. N /\ g = [k \in 0 .. N |-> g[k]]
  OBVIOUS
<1>4. \A i \in 1 .. N : e[i] = debug_struct_info(bs[i]) /\ e[i].addr = bs[i]
  BY DEF debug_struct_info
<1> HIDE DEF g, e
\* One more block.
<1>5. ASSUME NEW k \in 1 .. N, NEW x, x[k - 1] = g[k - 1]
      PROVE  Further(x, k) = g[k]
  <2>1. /\ k \in Nat \ {0} /\ k - 1 \in 0 .. N /\ k \in 0 .. N
        /\ g[k - 1] = [i \in 1 .. k - 1 |-> e[i]] /\ g[k] = [i \in 1 .. k |-> e[i]]
    <3>1. k \in Nat \ {0} /\ k - 1 \in 0 .. N /\ k \in 0 .. N
      OBVIOUS
    <3> HIDE DEF N
    <3> QED
      BY <1>3, <3>1
  <2>2. Len(g[k - 1]) = k - 1 /\ Append(g[k - 1], e[k]) = g[k]
    BY <2>1, OneMore
  <2>3. (IF k = 1 THEN heap ELSE hdr[g[k - 1][k - 1].addr].next) = bs[k]
    <3>1. CASE k = 1
      BY <3>1 DEF IsBlockList
    <3>2. CASE k # 1
      <4>1. k - 1 \in 1 .. n /\ k - 1 \in 1 .. N /\ k - 1 + 1 = k
        BY <3>2
      <4>2. g[k - 1][k - 1].addr = bs[k - 1]
        BY <1>4, <2>1, <4>1
      <4>3. hdr[bs[k - 1]].next = bs[k]
        BY <4>1 DEF IsBlockList
      <4> QED
        BY <3>2, <4>2, <4>3
    <3> QED
      BY <3>1, <3>2
  <2>4. bs[k] \in DOMAIN hdr /\ e[k] = debug_struct_info(bs[k])
    BY <1>4
  <2> QED
    BY <1>5, <2>1, <2>2, <2>3, <2>4
<1>6. g = Body(g)
  <2>1. ASSUME NEW k \in 0 .. N, k # 0 PROVE g[k] = Further(g, k)
    <3>1. k \in 1 .. N
      BY <2>1
    <3> HIDE DEF Further
    <3> QED
      BY <1>5, <3>1
  <2> HIDE DEF Further
  <2>2. \A k \in 0 .. N : g[k] = IF k = 0 THEN << >> ELSE Further(g, k)
    BY <1>3, <2>1
  <2> QED
    BY <1>3, <2>2
<1>7. f = Body(f)
  <2> HIDE DEF Further
  <2> QED
    BY <1>6
<1> HIDE DEF f
<1>8. f[N] = g[N]
  <2> DEFINE T == { k \in 0 .. N : f[k] # g[k] }
  <2>1. N \in 0 .. N
    OBVIOUS
  <2> SUFFICES ASSUME T # {} PROVE FALSE
    BY <2>1
  <2>2. PICK k \in T : \A m \in T : k <= m
    <3>1. T \subseteq Nat
      OBVIOUS
    <3> HIDE DEF T
    <3> QED
      BY <3>1, LeastNumber
  <2> HIDE DEF Further
  <2>3. \A m \in 0 .. N : f[m] = IF m = 0 THEN << >> ELSE Further(f, m)
    BY <1>7
  <2>4. k # 0
    BY <1>3, <2>3
  <2>5. k \in 1 .. N /\ k - 1 \in 0 .. N /\ k - 1 \notin T
    BY <2>2, <2>4
  <2>6. f[k - 1] = g[k - 1]
    BY <2>5
  <2> QED
    BY <1>5, <2>3, <2>4, <2>5, <2>6
<1>9. g[N] = [i \in 1 .. N |-> debug_struct_info(bs[i])]
  <2>1. N \in 0 .. N
    OBVIOUS
  <2>2. g[N] = [i \in 1 .. N |-> e[i]]
    BY <1>3, <2>1
  <2> HIDE DEF N
  <2> QED
    BY <1>4, <2>2
<1> QED
  BY <1>2, <1>8, <1>9

\* The dump that a test prints while it allocates is the whole heap, block by
\* block from end to end, and as many are taken as _malloc has returned.
THEOREM DumpIsComplete == TestSpec => []DumpShowsHeap
<1>1. ASSUME TInv, at = "malloc" PROVE DumpShowsHeap
  <2> DEFINE n == Len(got)
             d == debug_heap(heap)
  <2>1. HInv /\ n \in Nat
    BY <1>1 DEF TInv, InOrder
  <2>2. PICK bs \in [1 .. n + 1 -> Blocks] : IsBlockList(hdr, heap, n, bs)
    BY <1>1 DEF TInv, Serving, HasBlockList
  <2> HIDE DEF n
  <2>3. d = [i \in 1 .. n + 1 |-> debug_struct_info(bs[i])]
    BY <2>1, <2>2, DumpIsList
  <2> HIDE DEF d
  <2>4. /\ Len(d) = n + 1 /\ DOMAIN d = 1 .. n + 1
        /\ \A i \in 1 .. n + 1 : /\ d[i].addr = bs[i]
                                 /\ d[i].capacity = hdr[bs[i]].capacity
                                 /\ d[i].is_free = hdr[bs[i]].is_free
                                 /\ contents(d[i].addr) + d[i].capacity = block_after(hdr, bs[i])
    BY <2>1, <2>3 DEF debug_struct_info, block_after
  <2>5. Len(d) = Cardinality(DOMAIN hdr)
    BY <2>1, <2>2, <2>4, ListRises, InvTypes
  <2>6. ASSUME NEW i \in 1 .. n
        PROVE  /\ d[i + 1].addr = contents(d[i].addr) + d[i].capacity
               /\ ~d[i].is_free
    <3>1. i \in 1 .. n + 1 /\ i + 1 \in 1 .. n + 1
      BY <2>1
    <3>2. bs[i + 1] = block_after(hdr, bs[i]) /\ ~hdr[bs[i]].is_free
      BY <2>2 DEF IsBlockList
    <3> QED
      BY <2>4, <3>1, <3>2
  <2>7. /\ contents(d[n + 1].addr) + d[n + 1].capacity = heap + unmapped_size
        /\ d[n + 1].is_free
    BY <2>1, <2>2, <2>4 DEF IsBlockList
  <2>8. Cardinality({ i \in DOMAIN d : ~d[i].is_free }) = n
    <3>1. { i \in DOMAIN d : ~d[i].is_free } = 1 .. n
      <4>1. \A i \in 1 .. n + 1 : i = n + 1 \/ i \in 1 .. n
        BY <2>1
      <4>2. 1 .. n \subseteq 1 .. n + 1
        BY <2>1
      <4> QED
        BY <2>4, <2>6, <2>7, <4>1, <4>2
    <3>2. Cardinality(1 .. n) = IF 1 > n THEN 0 ELSE n - 1 + 1
      BY <2>1, FS_Interval
    <3>3. Cardinality(1 .. n) = n
      BY <2>1, <3>2
    <3> QED
      BY <3>1, <3>3
  <2>9. Len(d) - 1 = n
    BY <2>1, <2>4
  <2> QED
    BY <2>4, <2>5, <2>6, <2>7, <2>8, <2>9 DEF DumpShowsHeap, d, n
<1>2. TInv => DumpShowsHeap
  BY <1>1 DEF DumpShowsHeap
<1> QED
  BY <1>2, TestInvariance, PTL
=============================================================================
