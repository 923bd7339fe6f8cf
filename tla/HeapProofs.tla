----------------------------- MODULE HeapProofs -----------------------------
(***************************************************************************)
(* The size arithmetic of mem.c.  Then the operations that rewrite headers *)
(* (merging a block with its neighbour, splitting one, marking one, laying *)
(* one over a new region) keep the layout of the block list: stated of any *)
(* headers h and regions rs.  With that, IInv is an invariant of Spec, the *)
(* properties of HeapProps follow, and Heap implements AllocSpec under the *)
(* mapping of HeapRefinement: the client cannot tell mem.c from the        *)
(* abstract allocator.                                                     *)
(***************************************************************************)
EXTENDS HeapRefinement, HeapInv, SizesCheck, TLAPS

(* The size arithmetic, for every page size, header size and width of size_t. *)

USE DEF Word

\* A number that fits a size_t is not changed by the conversion.
LEMMA WordIdentity == \A n \in 0 .. SIZE_T - 1 : Word(n) = n
BY SizesAssumption

\* Every result of the arithmetic is a size_t.
LEMMA WordRange == \A n \in Int : Word(n) \in 0 .. SIZE_T - 1
BY SizesAssumption

\* Page multiples are the numbers PAGE_SIZE * k.
LEMMA PageMultiple ==
  ASSUME NEW n \in Int
  PROVE  n % PAGE_SIZE = 0 <=> \E k \in Int : n = PAGE_SIZE * k
<1>1. n % PAGE_SIZE = 0 => n = PAGE_SIZE * (n \div PAGE_SIZE)
  BY SizesAssumption
<1>2. n \div PAGE_SIZE \in Int
  BY SizesAssumption
<1>3. \A k \in Int : (PAGE_SIZE * k) % PAGE_SIZE = 0
  BY SizesAssumption
<1> QED
  BY <1>1, <1>2, <1>3

\* Sums of page multiples are page multiples.
LEMMA PageSum ==
  ASSUME NEW m \in Int, NEW n \in Int, m % PAGE_SIZE = 0, n % PAGE_SIZE = 0
  PROVE  (m + n) % PAGE_SIZE = 0
<1>1. PICK j \in Int : m = PAGE_SIZE * j
  BY PageMultiple
<1>2. PICK k \in Int : n = PAGE_SIZE * k
  BY PageMultiple
<1>3. m + n = PAGE_SIZE * (j + k)
  BY <1>1, <1>2, SizesAssumption
<1> QED
  BY <1>3, PageMultiple

\* 2^64 is a number of pages, so reducing a page multiple leaves one.
LEMMA PageWord ==
  ASSUME NEW n \in Int, n % PAGE_SIZE = 0
  PROVE  Word(n) % PAGE_SIZE = 0
<1>1. PICK j \in Int : n = PAGE_SIZE * j
  BY PageMultiple
<1>2. PICK k \in Int : SIZE_T = PAGE_SIZE * k
  BY PageMultiple, SizesAssumption
<1> DEFINE d == n \div SIZE_T
<1>3. d \in Int /\ Word(n) = n - SIZE_T * d
  BY SizesAssumption
<1>4. Word(n) = PAGE_SIZE * (j - k * d)
  <2> HIDE DEF d, Word
  <2>1. PAGE_SIZE \in Int
    BY SizesAssumption
  <2>2. Word(n) = PAGE_SIZE * j - (PAGE_SIZE * k) * d
    BY <1>1, <1>2, <1>3
  <2> QED
    BY <2>1, <2>2, <1>3
<1>5. j - k * d \in Int
  BY <1>3
<1> QED
  BY <1>4, <1>5, PageMultiple, WordRange

\* pages_count is the number of pages that n bytes occupy.
LEMMA PagesCount ==
  ASSUME NEW n \in Nat
  PROVE  /\ pages_count(n) \in Nat
         /\ n <= PAGE_SIZE * pages_count(n)
         /\ PAGE_SIZE * pages_count(n) < n + PAGE_SIZE
         /\ (PAGE_SIZE * pages_count(n)) % PAGE_SIZE = 0
BY SizesAssumption DEF pages_count

\* A product of the page size.
LEMMA PagesProduct ==
  ASSUME NEW n \in Nat
  PROVE  PAGE_SIZE * pages_count(n) \in Nat
BY PagesCount, SizesAssumption

\* round_pages rounds up by less than a page, unless that passes 2^64.
LEMMA RoundPages ==
  ASSUME NEW n \in Nat, n <= SIZE_T - PAGE_SIZE
  PROVE  n <= round_pages(n) /\ round_pages(n) < n + PAGE_SIZE
<1> DEFINE m == PAGE_SIZE * pages_count(n)
<1>1. m \in Nat /\ n <= m /\ m < n + PAGE_SIZE
  BY PagesCount, SizesAssumption
<1> QED
  BY <1>1, WordIdentity, SizesAssumption DEF round_pages

\* Whatever is asked for, mmap is asked for whole pages, and for no less
\* than the smallest region.
LEMMA RegionSizeAlways ==
  ASSUME NEW q \in Nat
  PROVE  /\ region_size_for(q) \in 0 .. SIZE_T - 1
         /\ region_size_for(q) >= REGION_MIN_SIZE
         /\ region_size_for(q) % PAGE_SIZE = 0
<1> DEFINE sz == size_from_capacity(q)
<1>1. sz \in Nat
  BY WordRange, SizesAssumption DEF size_from_capacity
<1>2. PAGE_SIZE * pages_count(sz) \in Int
  BY <1>1, PagesCount, SizesAssumption
<1>3. round_pages(sz) \in 0 .. SIZE_T - 1 /\ round_pages(sz) % PAGE_SIZE = 0
  BY <1>1, <1>2, PagesCount, PageWord, WordRange DEF round_pages
<1> QED
  BY <1>3, SizesAssumption DEF region_size_for, region_actual_size, size_max

\* A request that does not wrap gets a region whose first block holds it:
\* alloc_region's size is enough for the request and the header.
THEOREM RegionHoldsQuery ==
  ASSUME NEW q \in Nat, q + HEADER_SIZE <= SIZE_T - PAGE_SIZE
  PROVE  /\ region_size_for(q) >= q + HEADER_SIZE
         /\ capacity_from_size(region_size_for(q)) >= q
<1>1. size_from_capacity(q) = q + HEADER_SIZE
  BY WordIdentity, SizesAssumption DEF size_from_capacity
<1>2. round_pages(q + HEADER_SIZE) >= q + HEADER_SIZE
  BY RoundPages, SizesAssumption
<1>3. region_size_for(q) >= q + HEADER_SIZE
  <2>1. round_pages(q + HEADER_SIZE) \in Int
    BY <1>1, WordRange, PagesCount, SizesAssumption DEF round_pages
  <2> QED
    BY <1>1, <1>2, <2>1, SizesAssumption
       DEF region_size_for, region_actual_size, size_max
<1>4. region_size_for(q) - HEADER_SIZE \in 0 .. SIZE_T - 1
  BY <1>3, RegionSizeAlways, SizesAssumption
<1> QED
  BY <1>3, <1>4, WordIdentity, RegionSizeAlways, SizesAssumption DEF capacity_from_size

\* No whole number of pages between n bytes and the pages they occupy.
LEMMA LeastPages ==
  ASSUME NEW m \in Nat, NEW n \in Int, n >= m, n % PAGE_SIZE = 0
  PROVE  PAGE_SIZE * pages_count(m) <= n
<1>1. PICK k \in Int : n = PAGE_SIZE * k
  BY PageMultiple
<1> DEFINE c == pages_count(m)
<1>2. c \in Nat /\ PAGE_SIZE * c < m + PAGE_SIZE /\ PAGE_SIZE \in Nat \ {0}
  BY PagesCount, SizesAssumption
<1> HIDE DEF c
<1>3. c <= k
  <2> SUFFICES ASSUME ~(c <= k) PROVE FALSE
    OBVIOUS
  <2>1. c - k - 1 \in Nat
    BY <1>1, <1>2
  <2>2. PAGE_SIZE * (c - k - 1) >= 0
    BY <1>2, <2>1
  <2>3. PAGE_SIZE * (c - k - 1) = PAGE_SIZE * c - PAGE_SIZE * k - PAGE_SIZE
    BY <1>1, <1>2
  <2>4. PAGE_SIZE * c \in Int /\ PAGE_SIZE * k \in Int
    BY <1>1, <1>2
  <2> QED
    BY <1>1, <1>2, <2>2, <2>3, <2>4
<1>4. PAGE_SIZE * (k - c) >= 0
  BY <1>1, <1>2, <1>3
<1>5. PAGE_SIZE * (k - c) = PAGE_SIZE * k - PAGE_SIZE * c
  BY <1>1, <1>2
<1>6. PAGE_SIZE * c \in Int /\ PAGE_SIZE * k \in Int
  BY <1>1, <1>2
<1> QED
  BY <1>1, <1>4, <1>5, <1>6 DEF c

\* alloc_region asks mmap for the least whole number of pages that will do.
THEOREM RegionIsLeast == \A q \in Nat : RegionIsLeastFit(q)
<1> SUFFICES ASSUME NEW q \in Nat PROVE RegionIsLeastFit(q)
  OBVIOUS
<1>0. Representable(q) => /\ region_size_for(q) \in PageMultiples
                          /\ region_size_for(q) >= q + HEADER_SIZE
                          /\ region_size_for(q) >= REGION_MIN_SIZE
  BY RegionHoldsQuery, RegionSizeAlways DEF Representable, PageMultiples
<1> SUFFICES ASSUME Representable(q),
                    NEW n \in PageMultiples, n >= q + HEADER_SIZE, n >= REGION_MIN_SIZE
             PROVE  region_size_for(q) <= n
  BY <1>0 DEF RegionIsLeastFit
<1> DEFINE sz == q + HEADER_SIZE
           m == PAGE_SIZE * pages_count(sz)
<1>1. sz \in Nat /\ sz <= SIZE_T - PAGE_SIZE /\ n \in Int /\ n % PAGE_SIZE = 0
  BY SizesAssumption DEF Representable, PageMultiples
<1>2. size_from_capacity(q) = sz
  BY <1>1, WordIdentity, SizesAssumption DEF size_from_capacity
<1>3. m \in Nat /\ m < SIZE_T
  <2> HIDE DEF sz
  <2>1. m \in Nat /\ sz <= m /\ m < sz + PAGE_SIZE
    <3>1. sz \in Nat
      BY <1>1
    <3>2. m \in Nat
      BY <3>1, PagesProduct
    <3> QED
      BY <3>1, <3>2, PagesCount
  <2> QED
    BY <1>1, <2>1, SizesAssumption
<1>4. m <= n
  BY <1>1, LeastPages
<1>5. round_pages(sz) = m
  BY <1>3, WordIdentity, SizesAssumption DEF round_pages
<1> HIDE DEF sz, m
<1> QED
  BY <1>1, <1>2, <1>3, <1>4, <1>5, SizesAssumption
     DEF region_size_for, region_actual_size, size_max

\* Where the sum with the header or the rounding wraps, mmap is asked for the
\* smallest region.
LEMMA WrappedRegion ==
  ASSUME NEW q \in Nat, q < SIZE_T, q + HEADER_SIZE > SIZE_T - PAGE_SIZE
  PROVE  region_size_for(q) = REGION_MIN_SIZE
<1> DEFINE sz == size_from_capacity(q)
           m == PAGE_SIZE * pages_count(sz)
<1>1. sz \in Nat
  BY WordRange, SizesAssumption DEF size_from_capacity
<1>2. m \in Nat /\ sz <= m /\ m % PAGE_SIZE = 0
  <2> HIDE DEF sz
  <2> QED
    BY <1>1, PagesCount, SizesAssumption
<1>3. round_pages(sz) <= REGION_MIN_SIZE /\ round_pages(sz) \in Int
  <2>1. CASE q + HEADER_SIZE < SIZE_T
    <3>1. sz = q + HEADER_SIZE
      BY <2>1, WordIdentity, SizesAssumption DEF size_from_capacity
    <3>2. m <= SIZE_T
      BY <1>1, <2>1, <3>1, LeastPages, SizesAssumption
    <3>3. m >= SIZE_T
      <4>1. PICK j \in Int : m = PAGE_SIZE * j
        <5> HIDE DEF m
        <5> QED
          BY <1>2, PageMultiple
      <4>2. PICK k \in Int : SIZE_T = PAGE_SIZE * k
        BY PageMultiple, SizesAssumption
      <4>3. m > SIZE_T - PAGE_SIZE
        <5> HIDE DEF m, sz
        <5> QED
          BY <1>1, <1>2, <3>1, SizesAssumption
      <4> HIDE DEF m, sz
      <4>4. PAGE_SIZE \in Nat \ {0}
        BY SizesAssumption
      <4>5. j >= k
        <5> SUFFICES ASSUME ~(j >= k) PROVE FALSE
          OBVIOUS
        <5>1. PAGE_SIZE * (k - j - 1) >= 0
          BY <4>1, <4>2, <4>4
        <5>2. PAGE_SIZE * (k - j - 1) = PAGE_SIZE * k - PAGE_SIZE * j - PAGE_SIZE
          BY <4>4
        <5>3. PAGE_SIZE * k \in Int /\ PAGE_SIZE * j \in Int
          BY <4>4
        <5> QED
          BY <4>1, <4>2, <4>3, <4>4, <5>1, <5>2, <5>3
      <4>6. PAGE_SIZE * (j - k) >= 0
        BY <4>4, <4>5
      <4>7. PAGE_SIZE * (j - k) = PAGE_SIZE * j - PAGE_SIZE * k
        BY <4>4
      <4>8. PAGE_SIZE * k \in Int /\ PAGE_SIZE * j \in Int
        BY <4>4
      <4> QED
        BY <4>1, <4>2, <4>6, <4>7, <4>8
    <3>4. m = SIZE_T
      <4> HIDE DEF m
      <4> QED
        BY <1>2, <3>2, <3>3, SizesAssumption
    <3>5. round_pages(sz) = SIZE_T % SIZE_T
      <4> HIDE DEF sz
      <4> QED
        BY <3>4 DEF round_pages
    <3>6. SIZE_T % SIZE_T = 0
      BY SizesAssumption
    <3> HIDE DEF sz
    <3> QED
      BY <3>5, <3>6, SizesAssumption
  <2>2. CASE q + HEADER_SIZE >= SIZE_T
    <3>1. (q + HEADER_SIZE) % SIZE_T = q + HEADER_SIZE - SIZE_T
      BY <2>2, SizesAssumption
    <3>2. sz = q + HEADER_SIZE - SIZE_T
      BY <3>1 DEF size_from_capacity
    <3>3. m <= REGION_MIN_SIZE
      <4>1. sz <= REGION_MIN_SIZE
        <5> HIDE DEF sz
        <5> QED
          BY <3>2, SizesAssumption
      <4> QED
        BY <1>1, <4>1, LeastPages, SizesAssumption
    <3>4. m \in 0 .. SIZE_T - 1
      <4> HIDE DEF m
      <4> QED
        BY <1>2, <3>3, SizesAssumption
    <3>5. round_pages(sz) = m
      BY <3>4, WordIdentity DEF round_pages
    <3> HIDE DEF m, sz
    <3> QED
      BY <1>2, <3>3, <3>5
  <2>3. q + HEADER_SIZE \in Int /\ SIZE_T \in Int
    BY SizesAssumption
  <2> QED
    BY <2>1, <2>2, <2>3
<1> HIDE DEF sz
<1>4. region_size_for(q) = size_max(round_pages(sz), REGION_MIN_SIZE)
  BY DEF region_size_for, region_actual_size, sz
<1> QED
  BY <1>3, <1>4, SizesAssumption DEF size_max

\* A region holds the request it was mapped for exactly if nothing wrapped.
THEOREM ServedUnlessWrapped == \A q \in Nat : RegionHoldsQueryUnlessWrapped(q)
<1> SUFFICES ASSUME NEW q \in Nat, ~Representable(q)
             PROVE  ~(capacity_from_size(region_size_for(q)) >= q)
  BY RegionHoldsQuery DEF RegionHoldsQueryUnlessWrapped, Representable
<1>1. q + HEADER_SIZE > SIZE_T - PAGE_SIZE
  BY SizesAssumption DEF Representable
<1>2. CASE q < SIZE_T
  <2>1. region_size_for(q) = REGION_MIN_SIZE
    BY <1>1, <1>2, WrappedRegion
  <2>2. capacity_from_size(REGION_MIN_SIZE) = REGION_MIN_SIZE - HEADER_SIZE
    BY WordIdentity, SizesAssumption DEF capacity_from_size
  <2> QED
    BY <1>1, <2>1, <2>2, SizesAssumption
<1>3. CASE q >= SIZE_T
  <2>1. region_size_for(q) - HEADER_SIZE \in Int
    BY RegionSizeAlways, SizesAssumption
  <2>2. capacity_from_size(region_size_for(q)) \in 0 .. SIZE_T - 1
    BY <2>1, WordRange DEF capacity_from_size
  <2> QED
    BY <1>3, <2>2, SizesAssumption
<1>4. SIZE_T \in Int
  BY SizesAssumption
<1> QED
  BY <1>2, <1>3, <1>4

-----------------------------------------------------------------------------

\* Two blocks that share a byte are the same block.
LEMMA SharedByte ==
  ASSUME NEW h, HeadersTyped(h), BlocksApart(h),
         NEW b \in DOMAIN h, NEW c \in DOMAIN h, NEW x \in Int,
         b <= x, x < block_after(h, b), c <= x, x < block_after(h, c)
  PROVE  b = c
BY SizesAssumption DEF HeadersTyped, BlocksApart, block_after, contents, Header

\* The numbers of a block.
LEMMA BlockNumbers ==
  ASSUME NEW h, HeadersTyped(h), BlocksApart(h), NEW b \in DOMAIN h
  PROVE  /\ b \in Nat /\ b > 0
         /\ h[b].capacity \in Nat
         /\ h[b].next \in Nat
         /\ h[b].is_free \in BOOLEAN
         /\ block_after(h, b) = b + HEADER_SIZE + h[b].capacity
         /\ block_after(h, b) \in Nat
         /\ block_after(h, b) <= ADDRESS_TOP
         /\ b + HEADER_SIZE + BLOCK_MIN_CAPACITY <= block_after(h, b)
BY SizesAssumption DEF HeadersTyped, BlocksApart, block_after, contents, Header, NULL

-----------------------------------------------------------------------------
\* Marking a block free or in use.
LEMMA MarkKeepsLayout ==
  ASSUME NEW h, NEW rs, Layout(h, rs), NEW b \in DOMAIN h, NEW v \in BOOLEAN
  PROVE  Layout([h EXCEPT ![b].is_free = v], rs)
<1> DEFINE g == [h EXCEPT ![b].is_free = v]
<1>1. /\ DOMAIN g = DOMAIN h
      /\ \A c \in DOMAIN h : /\ g[c] \in Header
                             /\ g[c].next = h[c].next
                             /\ g[c].capacity = h[c].capacity
                             /\ block_after(g, c) = block_after(h, c)
  BY DEF Layout, HeadersTyped, Header, block_after
<1>2. g \in [DOMAIN g -> Header]
  BY <1>1 DEF Layout, HeadersTyped
<1> HIDE DEF g
<1>3. HeadersTyped(g)
  BY <1>1, <1>2 DEF Layout, HeadersTyped
<1>4. BlocksApart(g)
  BY <1>1 DEF Layout, BlocksApart
<1>5. Covers(g, rs)
  BY <1>1 DEF Layout, Covers
<1>6. Linked(g, rs)
  BY <1>1 DEF Layout, Linked
<1>7. NextValid(g)
  BY <1>1 DEF Layout, NextValid
<1>8. Layout(g, rs)
  BY <1>3, <1>4, <1>5, <1>6, <1>7 DEF Layout
<1> QED
  BY <1>8 DEF g

-----------------------------------------------------------------------------
\* g is h without the header of b's neighbour: b has taken over its bytes and
\* its successor.
IsMerge(h, g, b) ==
  LET n == h[b].next
  IN  /\ n \in DOMAIN h /\ n # b
      /\ n = block_after(h, b)
      /\ h[b].is_free /\ h[n].is_free
      /\ DOMAIN g = DOMAIN h \ {n}
      /\ \A c \in DOMAIN g : c # b => g[c] = h[c]
      /\ g[b] = [next |-> h[n].next,
                 capacity |-> h[b].capacity + HEADER_SIZE + h[n].capacity,
                 is_free |-> TRUE]
      /\ block_after(g, b) = block_after(h, n)

\* What try_merge_with_next writes where it merges.
LEMMA MergeWrites ==
  ASSUME NEW h, NEW rs, Layout(h, rs), NEW b \in DOMAIN h, CanMerge(h, b)
  PROVE  IsMerge(h, MergedWithNext(h, b), b)
<1> DEFINE n == h[b].next
           g == MergedWithNext(h, b)
           size == Word(size_from_capacity(h[b].capacity) + size_from_capacity(h[n].capacity))
<1>1. n \in DOMAIN h /\ n = block_after(h, b) /\ h[b].is_free /\ h[n].is_free
  BY DEF Layout, NextValid, CanMerge, mergeable
<1>2. /\ b \in Nat /\ h[b].capacity \in Nat /\ h[n].capacity \in Nat
      /\ n = b + HEADER_SIZE + h[b].capacity
      /\ block_after(h, n) = n + HEADER_SIZE + h[n].capacity
      /\ block_after(h, n) <= ADDRESS_TOP
  BY <1>1, BlockNumbers DEF Layout
<1>3. size = h[b].capacity + HEADER_SIZE + h[n].capacity + HEADER_SIZE
  <2>1. /\ size_from_capacity(h[b].capacity) = h[b].capacity + HEADER_SIZE
        /\ size_from_capacity(h[n].capacity) = h[n].capacity + HEADER_SIZE
    BY <1>2, WordIdentity, AddressAssumption, SizesAssumption DEF size_from_capacity
  <2> QED
    BY <2>1, <1>2, WordIdentity, AddressAssumption, SizesAssumption
<1>4. capacity_from_size(size) = h[b].capacity + HEADER_SIZE + h[n].capacity
  BY <1>2, <1>3, WordIdentity, AddressAssumption, SizesAssumption DEF capacity_from_size
<1> HIDE DEF size
<1>5. n # b
  BY <1>2, SizesAssumption
<1>6. DOMAIN g = DOMAIN h \ {n}
  BY <1>5 DEF MergedWithNext, Drop, block_init, Put
<1>7. \A c \in DOMAIN g : c # b => g[c] = h[c]
  BY <1>6 DEF MergedWithNext, Drop, block_init, Put
<1>8. g[b] = [next |-> h[n].next, capacity |-> capacity_from_size(size), is_free |-> TRUE]
  BY <1>5 DEF MergedWithNext, Drop, block_init, Put, size
<1>9. block_after(g, b) = block_after(h, n)
  BY <1>2, <1>4, <1>8, SizesAssumption DEF block_after, contents
<1> HIDE DEF g, n
<1> QED
  BY <1>1, <1>4, <1>5, <1>6, <1>7, <1>8, <1>9 DEF g, n, IsMerge

\* Merging keeps the layout.
LEMMA MergeKeepsLayout ==
  ASSUME NEW h, NEW rs, Layout(h, rs), NEW b \in DOMAIN h, CanMerge(h, b)
  PROVE  Layout(MergedWithNext(h, b), rs)
<1> DEFINE n == h[b].next
           g == MergedWithNext(h, b)
<1>1. /\ n \in DOMAIN h /\ n # b
      /\ n = block_after(h, b)
      /\ DOMAIN g = DOMAIN h \ {n}
      /\ \A c \in DOMAIN g : c # b => g[c] = h[c]
      /\ g[b] = [next |-> h[n].next,
                 capacity |-> h[b].capacity + HEADER_SIZE + h[n].capacity,
                 is_free |-> TRUE]
      /\ block_after(g, b) = block_after(h, n)
  <2>1. IsMerge(h, g, b)
    BY MergeWrites
  <2> HIDE DEF g
  <2> QED
    BY <2>1 DEF IsMerge
<1>2. HeadersTyped(h) /\ BlocksApart(h) /\ Covers(h, rs) /\ Linked(h, rs) /\ NextValid(h)
  BY DEF Layout
<1>0. g = [c \in DOMAIN g |-> g[c]]
  BY DEF MergedWithNext, Drop
<1> HIDE DEF g, n
<1>3. /\ \A c \in DOMAIN h : /\ c \in Nat /\ c > 0
                             /\ h[c].capacity \in Nat
                             /\ block_after(h, c) \in Nat
                             /\ block_after(h, c) <= ADDRESS_TOP
                             /\ c < block_after(h, c)
  BY <1>2, BlockNumbers, SizesAssumption
<1>4. \A c \in DOMAIN g : c # b => block_after(g, c) = block_after(h, c)
  BY <1>1 DEF block_after
<1>5. HeadersTyped(g)
  <2>1. \A c \in DOMAIN h : h[c] \in Header
    BY <1>2 DEF HeadersTyped
  <2>2. h[n].next \in Nat /\ h[b].capacity + HEADER_SIZE + h[n].capacity \in Nat
    BY <1>1, <2>1, SizesAssumption DEF Header
  <2>3. g[b] \in Header
    BY <1>1, <2>2 DEF Header
  <2>4. \A c \in DOMAIN g : g[c] \in Header
    BY <1>1, <2>1, <2>3
  <2> QED
    BY <1>1, <1>2, <1>0, <2>4 DEF HeadersTyped
<1>6. BlocksApart(g)
  <2>1. \A c \in DOMAIN g : g[c].capacity >= BLOCK_MIN_CAPACITY
    BY <1>1, <1>2, <1>3, SizesAssumption DEF BlocksApart
  <2>2. \A c \in DOMAIN g : block_after(g, c) <= ADDRESS_TOP
    BY <1>1, <1>3, <1>4
  <2>3. ASSUME NEW c \in DOMAIN g, NEW d \in DOMAIN g, c < d
        PROVE  block_after(g, c) <= d
    <3>1. CASE c # b
      BY <1>1, <1>2, <1>4, <2>3, <3>1 DEF BlocksApart
    <3>2. CASE c = b
      \* d starts after b, is not n, so it starts after n as well.
      <4>1. block_after(h, b) <= d /\ n < d
        BY <1>1, <1>2, <1>3, <2>3, <3>2 DEF BlocksApart
      <4> QED
        BY <1>1, <1>2, <3>2, <4>1 DEF BlocksApart
    <3> QED
      BY <3>1, <3>2
  <2> QED
    BY <2>1, <2>2, <2>3 DEF BlocksApart
<1>7. Covers(g, rs)
  <2> SUFFICES ASSUME NEW x \in 0 .. ADDRESS_TOP
               PROVE  (\E c \in DOMAIN g : c <= x /\ x < block_after(g, c))
                        <=> (\E c \in DOMAIN h : c <= x /\ x < block_after(h, c))
    BY <1>2 DEF Covers
  <2>0. ADDRESS_TOP \in Nat
    BY AddressAssumption
  <2>1. ASSUME NEW c \in DOMAIN g, c <= x, x < block_after(g, c)
        PROVE  \E d \in DOMAIN h : d <= x /\ x < block_after(h, d)
    <3>1. CASE c # b
      BY <1>1, <1>4, <2>1, <3>1
    <3>2. CASE c = b
      <4>1. CASE x < n
        BY <1>1, <2>1, <3>2, <4>1
      <4>2. CASE n <= x
        BY <1>1, <2>1, <3>2, <4>2
      <4> QED
        BY <1>1, <1>3, <2>0, <4>1, <4>2
    <3> QED
      BY <3>1, <3>2
  <2>2. ASSUME NEW c \in DOMAIN h, c <= x, x < block_after(h, c)
        PROVE  \E d \in DOMAIN g : d <= x /\ x < block_after(g, d)
    <3>1. CASE c \notin {b, n}
      BY <1>1, <1>4, <2>2, <3>1
    <3>2. CASE c \in {b, n}
      <4>1. b <= x /\ x < block_after(g, b)
        BY <1>1, <1>3, <2>0, <2>2, <3>2
      <4> QED
        BY <1>1, <4>1
    <3> QED
      BY <3>1, <3>2
  <2> QED
    BY <2>1, <2>2
<1>8. Linked(g, rs)
  BY <1>1, <1>2, <1>4 DEF Linked
<1>9. NextValid(g)
  <2>1. \A c \in DOMAIN h : h[c].next = n => c = b
    BY <1>1, <1>2, <1>3 DEF NextValid, n, NULL
  <2>2. h[n].next # n
    BY <1>1, <2>1
  <2>3. \A c \in DOMAIN g : g[c].next # NULL => g[c].next \in DOMAIN g
    BY <1>1, <1>2, <2>1, <2>2 DEF NextValid
  <2>4. ASSUME NEW c \in DOMAIN g, NEW d \in DOMAIN g,
               g[c].next # NULL, g[c].next = g[d].next
        PROVE  c = d
    <3>1. \A y \in DOMAIN g : g[y].next = IF y = b THEN h[n].next ELSE h[y].next
      BY <1>1
    <3> QED
      BY <1>1, <1>2, <2>4, <3>1 DEF NextValid
  <2> QED
    BY <2>3, <2>4 DEF NextValid
<1>10. Layout(g, rs)
  BY <1>5, <1>6, <1>7, <1>8, <1>9 DEF Layout
<1> QED
  BY <1>10 DEF g

-----------------------------------------------------------------------------
\* g is h with a second header inside the contents of b, which is left with
\* exactly q bytes.
IsSplit(h, g, b, q) ==
  LET r == contents(b) + q
      cap == h[b].capacity - q - HEADER_SIZE
  IN  /\ r \in Nat /\ b < r /\ r < block_after(h, b)
      /\ r \notin DOMAIN h
      /\ DOMAIN g = DOMAIN h \cup {r}
      /\ \A c \in DOMAIN h : c # b => g[c] = h[c]
      /\ g[b] = [next |-> r, capacity |-> q, is_free |-> TRUE]
      /\ g[r] = [next |-> h[b].next, capacity |-> cap, is_free |-> TRUE]
      /\ cap \in Nat /\ cap >= BLOCK_MIN_CAPACITY
      /\ block_after(g, b) = r
      /\ block_after(g, r) = block_after(h, b)

\* What split_if_too_big writes where it splits.
LEMMA SplitWrites ==
  ASSUME NEW h, NEW rs, Layout(h, rs), NEW b \in DOMAIN h,
         NEW q \in Nat, q >= BLOCK_MIN_CAPACITY, q <= h[b].capacity,
         block_splittable(h, b, q)
  PROVE  IsSplit(h, split_if_too_big(h, b, q), b, q)
<1> DEFINE r == contents(b) + q
           g == split_if_too_big(h, b, q)
           size == Word(h[b].capacity - q)
           cap == h[b].capacity - q - HEADER_SIZE
<1>1. HeadersTyped(h) /\ BlocksApart(h)
  BY DEF Layout
<1>2. /\ b \in Nat /\ b > 0 /\ h[b].capacity \in Nat
      /\ block_after(h, b) = b + HEADER_SIZE + h[b].capacity
      /\ block_after(h, b) <= ADDRESS_TOP
      /\ HEADER_SIZE \in Nat /\ HEADER_SIZE > 0
      /\ BLOCK_MIN_CAPACITY \in Nat /\ BLOCK_MIN_CAPACITY > 0
  BY <1>1, BlockNumbers, SizesAssumption
<1>3. q + HEADER_SIZE + BLOCK_MIN_CAPACITY <= h[b].capacity
  <2>1. Word(q + HEADER_SIZE + BLOCK_MIN_CAPACITY) = q + HEADER_SIZE + BLOCK_MIN_CAPACITY
    BY <1>2, WordIdentity, AddressAssumption, SizesAssumption
  <2> QED
    BY <2>1 DEF block_splittable
<1>4. r \in Nat /\ r = b + HEADER_SIZE + q /\ b < r /\ r < block_after(h, b)
  BY <1>2, <1>3 DEF contents
<1>5. r \notin DOMAIN h
  BY <1>1, <1>2, <1>4 DEF BlocksApart
<1>6. size = h[b].capacity - q /\ capacity_from_size(size) = cap
  <2>1. size = h[b].capacity - q
    BY <1>2, <1>3, WordIdentity, AddressAssumption, SizesAssumption
  <2> QED
    BY <2>1, <1>2, <1>3, WordIdentity, AddressAssumption, SizesAssumption
       DEF capacity_from_size
<1>7. cap \in Nat /\ cap >= BLOCK_MIN_CAPACITY
  BY <1>2, <1>3
<1>8. g = [block_init(h, r, size, h[b].next)
             EXCEPT ![b] = [next |-> r, capacity |-> q, is_free |-> TRUE]]
  BY DEF split_if_too_big
<1> HIDE DEF r, g, size, cap
<1>9. /\ DOMAIN g = DOMAIN h \cup {r}
      /\ \A c \in DOMAIN h : c # b => g[c] = h[c]
      /\ g[b] = [next |-> r, capacity |-> q, is_free |-> TRUE]
      /\ g[r] = [next |-> h[b].next, capacity |-> cap, is_free |-> TRUE]
  BY <1>2, <1>4, <1>5, <1>6, <1>8 DEF block_init, Put
<1>10. block_after(g, b) = r /\ block_after(g, r) = block_after(h, b)
  BY <1>2, <1>4, <1>7, <1>9 DEF block_after, contents, cap
<1> QED
  BY <1>4, <1>5, <1>7, <1>9, <1>10 DEF r, g, cap, IsSplit

\* Splitting keeps the layout.
LEMMA SplitKeepsLayout ==
  ASSUME NEW h, NEW rs, Layout(h, rs), NEW b \in DOMAIN h,
         NEW q \in Nat, q >= BLOCK_MIN_CAPACITY, q <= h[b].capacity,
         block_splittable(h, b, q)
  PROVE  Layout(split_if_too_big(h, b, q), rs)
<1> DEFINE r == contents(b) + q
           g == split_if_too_big(h, b, q)
           cap == h[b].capacity - q - HEADER_SIZE
<1>1. /\ r \in Nat /\ b < r /\ r < block_after(h, b)
      /\ r \notin DOMAIN h
      /\ DOMAIN g = DOMAIN h \cup {r}
      /\ \A c \in DOMAIN h : c # b => g[c] = h[c]
      /\ g[b] = [next |-> r, capacity |-> q, is_free |-> TRUE]
      /\ g[r] = [next |-> h[b].next, capacity |-> cap, is_free |-> TRUE]
      /\ cap \in Nat /\ cap >= BLOCK_MIN_CAPACITY
      /\ block_after(g, b) = r
      /\ block_after(g, r) = block_after(h, b)
  <2>1. IsSplit(h, g, b, q)
    BY SplitWrites
  <2> HIDE DEF g
  <2> QED
    BY <2>1 DEF IsSplit
<1>2. HeadersTyped(h) /\ BlocksApart(h) /\ Covers(h, rs) /\ Linked(h, rs) /\ NextValid(h)
  BY DEF Layout
<1>0. g = [c \in DOMAIN g |-> g[c]]
  BY DEF split_if_too_big, block_init, Put
<1> HIDE DEF g, r, cap
<1>3. /\ \A c \in DOMAIN h : /\ c \in Nat /\ c > 0
                             /\ h[c].capacity \in Nat
                             /\ h[c].next \in Nat
                             /\ block_after(h, c) \in Nat
                             /\ block_after(h, c) <= ADDRESS_TOP
                             /\ c < block_after(h, c)
      /\ ADDRESS_TOP \in Nat
  BY <1>2, BlockNumbers, SizesAssumption, AddressAssumption
<1>4. \A c \in DOMAIN h : c # b => block_after(g, c) = block_after(h, c)
  BY <1>1 DEF block_after
<1>5. HeadersTyped(g)
  <2>1. \A c \in DOMAIN h : h[c] \in Header
    BY <1>2 DEF HeadersTyped
  <2>2. g[b] \in Header /\ g[r] \in Header
    BY <1>1, <1>3 DEF Header
  <2>3. \A c \in DOMAIN g : g[c] \in Header
    BY <1>1, <2>1, <2>2
  <2>4. DOMAIN g \subseteq Nat \ {NULL}
    BY <1>1, <1>3 DEF NULL
  <2> QED
    BY <1>0, <2>3, <2>4 DEF HeadersTyped
<1>6. BlocksApart(g)
  <2>1. \A c \in DOMAIN g : g[c].capacity >= BLOCK_MIN_CAPACITY
    BY <1>1, <1>2 DEF BlocksApart
  <2>2. \A c \in DOMAIN g : block_after(g, c) <= ADDRESS_TOP
    BY <1>1, <1>3, <1>4
  <2>3. ASSUME NEW c \in DOMAIN g, NEW d \in DOMAIN g, c < d
        PROVE  block_after(g, c) <= d
    <3>1. CASE c \in DOMAIN h \ {b} /\ d \in DOMAIN h
      BY <1>2, <1>4, <2>3, <3>1 DEF BlocksApart
    <3>2. CASE c \in DOMAIN h \ {b} /\ d = r
      \* c starts before r, so before the end of b, so before b.
      <4>1. c < b
        BY <1>1, <1>2, <1>3, <2>3, <3>2 DEF BlocksApart
      <4> QED
        BY <1>1, <1>2, <1>3, <1>4, <3>2, <4>1 DEF BlocksApart
    <3>3. CASE c = b
      BY <1>1, <1>2, <1>3, <2>3, <3>3 DEF BlocksApart
    <3>4. CASE c = r
      BY <1>1, <1>2, <1>3, <2>3, <3>4 DEF BlocksApart
    <3> QED
      BY <1>1, <3>1, <3>2, <3>3, <3>4
  <2> QED
    BY <2>1, <2>2, <2>3 DEF BlocksApart
<1>7. Covers(g, rs)
  <2> SUFFICES ASSUME NEW x \in 0 .. ADDRESS_TOP
               PROVE  (\E c \in DOMAIN g : c <= x /\ x < block_after(g, c))
                        <=> (\E c \in DOMAIN h : c <= x /\ x < block_after(h, c))
    BY <1>2 DEF Covers
  <2>1. ASSUME NEW c \in DOMAIN g, c <= x, x < block_after(g, c)
        PROVE  \E d \in DOMAIN h : d <= x /\ x < block_after(h, d)
    <3>1. CASE c \notin {b, r}
      BY <1>1, <1>4, <2>1, <3>1
    <3>2. CASE c \in {b, r}
      <4>1. b <= x /\ x < block_after(h, b)
        BY <1>1, <1>3, <2>1, <3>2
      <4> QED
        BY <4>1
    <3> QED
      BY <3>1, <3>2
  <2>2. ASSUME NEW c \in DOMAIN h, c <= x, x < block_after(h, c)
        PROVE  \E d \in DOMAIN g : d <= x /\ x < block_after(g, d)
    <3>1. CASE c # b
      BY <1>1, <1>4, <2>2, <3>1
    <3>2. CASE c = b
      <4>1. CASE x < r
        BY <1>1, <2>2, <3>2, <4>1
      <4>2. CASE r <= x
        BY <1>1, <2>2, <3>2, <4>2
      <4> QED
        BY <1>1, <1>3, <4>1, <4>2
    <3> QED
      BY <3>1, <3>2
  <2> QED
    BY <2>1, <2>2
<1>8. Linked(g, rs)
  BY <1>1, <1>2, <1>4 DEF Linked
<1>9. NextValid(g)
  <2>1. /\ \A c \in DOMAIN h : h[c].next # r
        /\ r # NULL
    BY <1>1, <1>2, <1>3 DEF NextValid, NULL
  <2>2. \A c \in DOMAIN g : g[c].next # NULL => g[c].next \in DOMAIN g
    BY <1>1, <1>2 DEF NextValid
  <2>3. ASSUME NEW c \in DOMAIN g, NEW d \in DOMAIN g,
               g[c].next # NULL, g[c].next = g[d].next
        PROVE  c = d
    <3>1. \A y \in DOMAIN g : g[y].next = IF y = b THEN r
                                          ELSE IF y = r THEN h[b].next ELSE h[y].next
      BY <1>1
    <3> QED
      BY <1>1, <1>2, <2>1, <2>3, <3>1 DEF NextValid
  <2> QED
    BY <2>2, <2>3 DEF NextValid
<1>10. Layout(g, rs)
  BY <1>5, <1>6, <1>7, <1>8, <1>9 DEF Layout
<1> QED
  BY <1>10 DEF g

-----------------------------------------------------------------------------
\* The numbers of a region.
LEMMA RegionNumbers ==
  ASSUME NEW rs, RegionsApart(rs), NEW i \in DOMAIN rs
  PROVE  rs[i].addr \in Nat /\ rs[i].size \in Nat
<1> DEFINE S == [addr : Nat, size : Nat]
<1>1. rs \in Seq(S)
  BY DEF RegionsApart
<1> HIDE DEF S
<1>2. rs[i] \in S
  BY <1>1
<1> QED
  BY <1>2 DEF S

\* No headers on no regions.
LEMMA EmptyLayout == Layout(NoBlocks, << >>) /\ RegionsApart(<< >>)
BY DEF Layout, NoBlocks, HeadersTyped, BlocksApart, Covers, Linked, NextValid,
       RegionsApart, Header

\* Pages that no region of the heap occupies.
FreshRegion(rs, a, size) ==
  /\ a \in Nat /\ IsPageAddress(a)
  /\ size \in Nat /\ size % PAGE_SIZE = 0
  /\ size >= HEADER_SIZE + BLOCK_MIN_CAPACITY
  /\ a + size <= ADDRESS_TOP
  /\ \A i \in DOMAIN rs : Disjoint(a, size, rs[i].addr, rs[i].size)

\* A fresh region leaves the regions apart.
LEMMA RegionsStayApart ==
  ASSUME NEW rs, RegionsApart(rs), NEW a, NEW size, FreshRegion(rs, a, size)
  PROVE  RegionsApart(Append(rs, [addr |-> a, size |-> size]))
<1> DEFINE new == [addr |-> a, size |-> size]
           ss == Append(rs, new)
<1>1. rs \in Seq([addr : Nat, size : Nat]) /\ new \in [addr : Nat, size : Nat]
  BY DEF RegionsApart, FreshRegion
<1>2. /\ ss \in Seq([addr : Nat, size : Nat])
      /\ DOMAIN ss = 1 .. Len(rs) + 1 /\ DOMAIN rs = 1 .. Len(rs) /\ Len(rs) \in Nat
      /\ ss[Len(rs) + 1] = new
      /\ \A i \in DOMAIN rs : ss[i] = rs[i]
  BY <1>1
<1>3. /\ a \in Nat /\ size \in Nat /\ size > 0 /\ a > 0
      /\ a % PAGE_SIZE = 0 /\ size % PAGE_SIZE = 0
  BY SizesAssumption DEF FreshRegion, IsPageAddress
<1>4. IsPageAddress(a) /\ IsPageAddress(a + size)
  <2>1. (a + size) % PAGE_SIZE = 0
    BY <1>3, PageSum
  <2> QED
    BY <1>3, <2>1 DEF IsPageAddress
<1>5. ASSUME NEW i \in DOMAIN rs
      PROVE  /\ rs[i].addr \in Nat /\ rs[i].size \in Nat
             /\ rs[i].size > 0
             /\ IsPageAddress(rs[i].addr)
             /\ IsPageAddress(rs[i].addr + rs[i].size)
             /\ rs[i].addr + rs[i].size <= ADDRESS_TOP
             /\ Disjoint(a, size, rs[i].addr, rs[i].size)
             /\ Disjoint(rs[i].addr, rs[i].size, a, size)
  <2>1. rs[i].addr \in Nat /\ rs[i].size \in Nat
    BY RegionNumbers
  <2>3. Disjoint(a, size, rs[i].addr, rs[i].size)
    BY DEF FreshRegion
  <2>4. Disjoint(rs[i].addr, rs[i].size, a, size)
    BY <2>3 DEF Disjoint
  <2> QED
    BY <2>1, <2>3, <2>4 DEF RegionsApart
<1> HIDE DEF ss
<1>6. \A i \in DOMAIN ss :
        /\ ss[i].size > 0
        /\ IsPageAddress(ss[i].addr)
        /\ IsPageAddress(ss[i].addr + ss[i].size)
        /\ ss[i].addr + ss[i].size <= ADDRESS_TOP
  <2> SUFFICES ASSUME NEW i \in DOMAIN ss
               PROVE  /\ ss[i].size > 0
                      /\ IsPageAddress(ss[i].addr)
                      /\ IsPageAddress(ss[i].addr + ss[i].size)
                      /\ ss[i].addr + ss[i].size <= ADDRESS_TOP
    OBVIOUS
  <2>1. CASE i \in DOMAIN rs
    BY <1>2, <1>5, <2>1
  <2>2. CASE i = Len(rs) + 1
    BY <1>2, <1>3, <1>4, <2>2 DEF FreshRegion
  <2> QED
    BY <1>2, <2>1, <2>2
<1>7. \A i, j \in DOMAIN ss :
        i # j => Disjoint(ss[i].addr, ss[i].size, ss[j].addr, ss[j].size)
  <2> SUFFICES ASSUME NEW i \in DOMAIN ss, NEW j \in DOMAIN ss, i # j
               PROVE  Disjoint(ss[i].addr, ss[i].size, ss[j].addr, ss[j].size)
    OBVIOUS
  <2>1. CASE i \in DOMAIN rs /\ j \in DOMAIN rs
    BY <1>2, <2>1 DEF RegionsApart
  <2>2. CASE i \in DOMAIN rs /\ j = Len(rs) + 1
    BY <1>2, <1>5, <2>2
  <2>3. CASE i = Len(rs) + 1 /\ j \in DOMAIN rs
    BY <1>2, <1>5, <2>3
  <2> QED
    BY <1>2, <2>1, <2>2, <2>3
<1>8. RegionsApart(ss)
  BY <1>2, <1>6, <1>7 DEF RegionsApart
<1> QED
  BY <1>8 DEF ss

\* The blocks stay clear of a fresh region, because they lie in the regions.
LEMMA BlocksAvoidFresh ==
  ASSUME NEW h, NEW rs, RegionsApart(rs), Layout(h, rs),
         NEW a, NEW size, FreshRegion(rs, a, size), NEW c \in DOMAIN h
  PROVE  block_after(h, c) <= a \/ a + size <= c
<1>1. /\ c \in Nat /\ block_after(h, c) \in Nat /\ c < block_after(h, c)
      /\ block_after(h, c) <= ADDRESS_TOP
      /\ a \in Nat /\ size \in Nat /\ size > 0 /\ ADDRESS_TOP \in Nat
  BY BlockNumbers, SizesAssumption, AddressAssumption DEF Layout, FreshRegion
<1> DEFINE x == IF a <= c THEN c ELSE a
<1> SUFFICES ASSUME a < block_after(h, c), c < a + size
             PROVE  FALSE
  BY <1>1
<1>2. /\ x \in 0 .. ADDRESS_TOP
      /\ c <= x /\ x < block_after(h, c) /\ a <= x /\ x < a + size
  BY <1>1
<1> HIDE DEF x
<1>3. PICK i \in DOMAIN rs : Inside(x, rs[i].addr, rs[i].size)
  BY <1>2 DEF Layout, Covers
<1>4. rs[i].addr \in Nat /\ rs[i].size \in Nat
  BY RegionNumbers
<1> QED
  BY <1>1, <1>2, <1>3, <1>4 DEF FreshRegion, Disjoint, Inside

\* g is h with one more block, free and last in its list, over [a, a + size).
IsNewBlock(h, g, a, size) ==
  /\ a \notin DOMAIN h
  /\ DOMAIN g = DOMAIN h \cup {a}
  /\ \A c \in DOMAIN h : g[c] = h[c]
  /\ g[a] = [next |-> NULL, capacity |-> size - HEADER_SIZE, is_free |-> TRUE]
  /\ size - HEADER_SIZE \in Nat
  /\ block_after(g, a) = a + size

\* What block_init writes at the start of a fresh region.
LEMMA NewBlockWrites ==
  ASSUME NEW h, NEW rs, RegionsApart(rs), Layout(h, rs),
         NEW a, NEW size, FreshRegion(rs, a, size)
  PROVE  IsNewBlock(h, block_init(h, a, size, NULL), a, size)
<1> DEFINE g == block_init(h, a, size, NULL)
<1>1. a \in Nat /\ size \in Nat /\ size - HEADER_SIZE \in Nat /\ HEADER_SIZE \in Nat
  BY SizesAssumption DEF FreshRegion
<1>2. a \notin DOMAIN h
  <2>1. \A c \in DOMAIN h : /\ block_after(h, c) <= a \/ a + size <= c
                            /\ c \in Nat /\ block_after(h, c) \in Nat
                            /\ c < block_after(h, c)
    BY BlocksAvoidFresh, BlockNumbers, SizesAssumption DEF Layout
  <2> QED
    BY <1>1, <2>1, SizesAssumption DEF FreshRegion
<1>3. capacity_from_size(size) = size - HEADER_SIZE
  BY <1>1, WordIdentity, SizesAssumption, AddressAssumption
     DEF capacity_from_size, FreshRegion
<1>4. /\ DOMAIN g = DOMAIN h \cup {a}
      /\ \A c \in DOMAIN h : g[c] = h[c]
      /\ g[a] = [next |-> NULL, capacity |-> size - HEADER_SIZE, is_free |-> TRUE]
  BY <1>2, <1>3 DEF block_init, Put
<1> HIDE DEF g
<1>5. block_after(g, a) = a + size
  BY <1>1, <1>4 DEF block_after, contents
<1> QED
  BY <1>1, <1>2, <1>4, <1>5 DEF g, IsNewBlock

\* Laying a block over a fresh region keeps the layout.
LEMMA NewBlockKeepsLayout ==
  ASSUME NEW h, NEW rs, RegionsApart(rs), Layout(h, rs),
         NEW a, NEW size, FreshRegion(rs, a, size)
  PROVE  Layout(block_init(h, a, size, NULL), Append(rs, [addr |-> a, size |-> size]))
<1> DEFINE g == block_init(h, a, size, NULL)
           new == [addr |-> a, size |-> size]
           ss == Append(rs, new)
<1>1. IsNewBlock(h, g, a, size)
  BY NewBlockWrites
<1>2. HeadersTyped(h) /\ BlocksApart(h) /\ Covers(h, rs) /\ Linked(h, rs) /\ NextValid(h)
  BY DEF Layout
<1>3. g = [c \in DOMAIN g |-> g[c]]
  BY DEF block_init, Put
<1>4. /\ DOMAIN ss = DOMAIN rs \cup {Len(rs) + 1}
      /\ ss[Len(rs) + 1] = new
      /\ \A i \in DOMAIN rs : ss[i] = rs[i]
  <2> HIDE DEF new
  <2>1. rs \in Seq([addr : Nat, size : Nat])
    BY DEF RegionsApart
  <2> QED
    BY <2>1
<1>5. \A i \in DOMAIN rs : /\ rs[i].addr \in Nat /\ rs[i].size \in Nat
                           /\ rs[i].size > 0
                           /\ Disjoint(a, size, rs[i].addr, rs[i].size)
  BY RegionNumbers DEF RegionsApart, FreshRegion
<1>6. /\ a \in Nat /\ a > 0 /\ size \in Nat /\ size > 0
      /\ size >= HEADER_SIZE + BLOCK_MIN_CAPACITY
      /\ a + size <= ADDRESS_TOP
      /\ ADDRESS_TOP \in Nat
      /\ HEADER_SIZE \in Nat /\ BLOCK_MIN_CAPACITY \in Nat
  BY SizesAssumption, AddressAssumption DEF FreshRegion, IsPageAddress
<1>7. \A c \in DOMAIN h : /\ c \in Nat /\ c > 0
                          /\ block_after(h, c) \in Nat
                          /\ c < block_after(h, c)
                          /\ block_after(h, c) <= a \/ a + size <= c
                          /\ block_after(h, c) <= ADDRESS_TOP
  BY <1>2, BlockNumbers, BlocksAvoidFresh, SizesAssumption
<1> HIDE DEF g, ss
<1>8. /\ a \notin DOMAIN h
      /\ DOMAIN g = DOMAIN h \cup {a}
      /\ \A c \in DOMAIN h : g[c] = h[c] /\ block_after(g, c) = block_after(h, c)
      /\ g[a] = [next |-> NULL, capacity |-> size - HEADER_SIZE, is_free |-> TRUE]
      /\ size - HEADER_SIZE \in Nat
      /\ block_after(g, a) = a + size
  BY <1>1 DEF IsNewBlock, block_after
<1>9. HeadersTyped(g)
  <2>1. \A c \in DOMAIN h : h[c] \in Header
    BY <1>2 DEF HeadersTyped
  <2>2. g[a] \in Header
    BY <1>8 DEF Header, NULL
  <2>3. DOMAIN g \subseteq Nat \ {NULL}
    BY <1>6, <1>7, <1>8 DEF NULL
  <2>4. \A c \in DOMAIN g : g[c] \in Header
    BY <1>8, <2>1, <2>2
  <2> QED
    BY <1>3, <2>3, <2>4 DEF HeadersTyped
<1>10. BlocksApart(g)
  <2>1. \A c \in DOMAIN g : g[c].capacity >= BLOCK_MIN_CAPACITY
    BY <1>2, <1>6, <1>8 DEF BlocksApart
  <2>2. \A c \in DOMAIN g : block_after(g, c) <= ADDRESS_TOP
    BY <1>6, <1>7, <1>8
  <2>3. ASSUME NEW c \in DOMAIN g, NEW d \in DOMAIN g, c < d
        PROVE  block_after(g, c) <= d
    <3>1. CASE c \in DOMAIN h /\ d \in DOMAIN h
      BY <1>2, <1>8, <2>3, <3>1 DEF BlocksApart
    <3>2. CASE c = a /\ d \in DOMAIN h
      BY <1>6, <1>7, <1>8, <2>3, <3>2
    <3>3. CASE c \in DOMAIN h /\ d = a
      BY <1>6, <1>7, <1>8, <2>3, <3>3
    <3>4. CASE c = a /\ d = a
      BY <1>6, <2>3, <3>4
    <3> QED
      BY <1>8, <3>1, <3>2, <3>3, <3>4
  <2> QED
    BY <2>1, <2>2, <2>3 DEF BlocksApart
<1>11. Covers(g, ss)
  <2> SUFFICES ASSUME NEW x \in 0 .. ADDRESS_TOP
               PROVE  (\E i \in DOMAIN ss : Inside(x, ss[i].addr, ss[i].size))
                        <=> (\E c \in DOMAIN g : c <= x /\ x < block_after(g, c))
    BY DEF Covers
  <2>1. (\E i \in DOMAIN rs : Inside(x, rs[i].addr, rs[i].size))
          <=> (\E c \in DOMAIN h : c <= x /\ x < block_after(h, c))
    BY <1>2 DEF Covers
  <2>2. (\E i \in DOMAIN ss : Inside(x, ss[i].addr, ss[i].size))
          <=> \/ \E i \in DOMAIN rs : Inside(x, rs[i].addr, rs[i].size)
              \/ Inside(x, a, size)
    BY <1>4
  <2>3. (\E c \in DOMAIN g : c <= x /\ x < block_after(g, c))
          <=> \/ \E c \in DOMAIN h : c <= x /\ x < block_after(h, c)
              \/ Inside(x, a, size)
    BY <1>8 DEF Inside
  <2> QED
    BY <2>1, <2>2, <2>3
<1>12. Linked(g, ss)
  <2> SUFFICES ASSUME NEW c \in DOMAIN g, NEW i \in DOMAIN ss,
                      ss[i].addr < block_after(g, c),
                      Inside(block_after(g, c), ss[i].addr, ss[i].size)
               PROVE  g[c].next = block_after(g, c)
    BY DEF Linked
  <2>1. CASE c \in DOMAIN h /\ i \in DOMAIN rs
    BY <1>2, <1>4, <1>8, <2>1 DEF Linked
  <2>2. CASE c \in DOMAIN h /\ i = Len(rs) + 1
    BY <1>4, <1>6, <1>7, <1>8, <2>2 DEF Inside
  <2>3. CASE c = a /\ i \in DOMAIN rs
    BY <1>4, <1>5, <1>6, <1>8, <2>3 DEF Inside, Disjoint
  <2>4. CASE c = a /\ i = Len(rs) + 1
    BY <1>4, <1>6, <1>8, <2>4 DEF Inside
  <2> QED
    BY <1>4, <1>8, <2>1, <2>2, <2>3, <2>4
<1>13. NextValid(g)
  <2>1. \A c \in DOMAIN g : g[c].next # NULL => g[c].next \in DOMAIN g
    BY <1>2, <1>8 DEF NextValid
  <2>2. \A c, d \in DOMAIN g : g[c].next # NULL /\ g[c].next = g[d].next => c = d
    BY <1>2, <1>8 DEF NextValid
  <2> QED
    BY <2>1, <2>2 DEF NextValid
<1>14. Layout(g, ss)
  BY <1>9, <1>10, <1>11, <1>12, <1>13 DEF Layout
<1> QED
  BY <1>14 DEF g, ss

-----------------------------------------------------------------------------
\* Linking the last block of a list to a block that nothing points to.
LEMMA ChainKeepsLayout ==
  ASSUME NEW h, NEW rs, Layout(h, rs),
         NEW b \in DOMAIN h, h[b].next = NULL,
         NEW n \in DOMAIN h, \A c \in DOMAIN h : h[c].next # n
  PROVE  Layout([h EXCEPT ![b].next = n], rs)
<1> DEFINE g == [h EXCEPT ![b].next = n]
<1>1. HeadersTyped(h) /\ BlocksApart(h) /\ Covers(h, rs) /\ Linked(h, rs) /\ NextValid(h)
  BY DEF Layout
<1>2. /\ DOMAIN g = DOMAIN h
      /\ g = [c \in DOMAIN g |-> g[c]]
      /\ \A c \in DOMAIN h : /\ c # b => g[c] = h[c]
                             /\ g[c].capacity = h[c].capacity
                             /\ block_after(g, c) = block_after(h, c)
      /\ g[b].next = n
  BY <1>1 DEF HeadersTyped, Header, block_after
<1>3. \A c \in DOMAIN g : g[c] \in Header
  BY <1>1 DEF HeadersTyped, Header
<1> HIDE DEF g
<1>4. HeadersTyped(g)
  BY <1>1, <1>2, <1>3 DEF HeadersTyped
<1>5. BlocksApart(g)
  BY <1>1, <1>2 DEF BlocksApart
<1>6. Covers(g, rs)
  BY <1>1, <1>2 DEF Covers
<1>7. Linked(g, rs)
  \* A block with no successor ends where no region goes on.
  <2>1. block_after(h, b) # NULL
    BY <1>1, BlockNumbers, SizesAssumption DEF NULL
  <2> QED
    BY <1>1, <1>2, <2>1 DEF Linked
<1>8. NextValid(g)
  BY <1>1, <1>2 DEF NextValid
<1>9. Layout(g, rs)
  BY <1>4, <1>5, <1>6, <1>7, <1>8 DEF Layout
<1> QED
  BY <1>9 DEF g

-----------------------------------------------------------------------------
\* alloc_region returns pages that belong to nobody, of the length that
\* region_size_for computes, and `extends` tells whether they are where asked.
LEMMA AllocRegion ==
  ASSUME RegionsApart(regions), NEW a \in Nat, NEW q \in Nat,
         NEW r \in alloc_region(a, q)
  PROVE  \/ r = REGION_INVALID
         \/ /\ r = [addr |-> r.addr, size |-> region_size_for(q), extends |-> r.addr = a]
            /\ ~region_is_invalid(r)
            /\ FreshRegion(regions, r.addr, region_size_for(q))
<1> DEFINE size == region_size_for(q)
<1>1. ASSUME NEW x, x # MAP_FAILED,
             x \in map_pages(a, size, TRUE) \cup map_pages(a, size, FALSE)
      PROVE  x \in Nat /\ IsPageAddress(x) /\ IsFreeRange(x, size)
  BY <1>1, AddressAssumption DEF map_pages
<1>2. PICK x : /\ x = MAP_FAILED
                  \/ x \in map_pages(a, size, TRUE) \cup map_pages(a, size, FALSE)
               /\ r = IF x = MAP_FAILED THEN REGION_INVALID
                      ELSE [addr |-> x, size |-> size, extends |-> x = a]
  BY DEF alloc_region
<1>3. /\ size \in Nat
      /\ size % PAGE_SIZE = 0
      /\ size >= HEADER_SIZE + BLOCK_MIN_CAPACITY
  BY RegionSizeAlways, SizesAssumption
<1>4. CASE x = MAP_FAILED
  BY <1>2, <1>4
<1>5. CASE x # MAP_FAILED
  <2> HIDE DEF size
  <2>1. x \in Nat /\ IsPageAddress(x) /\ IsFreeRange(x, size)
    BY <1>1, <1>2, <1>5
  <2>2. r = [addr |-> x, size |-> size, extends |-> x = a] /\ r.addr = x
    BY <1>2, <1>5
  <2>3. FreshRegion(regions, x, size)
    BY <1>3, <2>1 DEF FreshRegion, IsFreeRange, RegionsAvoid
  <2>4. ~region_is_invalid(r)
    BY <2>1, <2>2 DEF region_is_invalid, IsPageAddress, NULL
  <2> QED
    BY <2>2, <2>3, <2>4 DEF size
<1> QED
  BY <1>4, <1>5

-----------------------------------------------------------------------------
(* Heap: the inductive invariant, the properties, the refinement.          *)

HIDE DEF Word

USE DEF Blocks

\* Initially there is nothing.
LEMMA InitInv == Init => HInv
<1> SUFFICES ASSUME Init PROVE HInv
  OBVIOUS
<1>1. regions = << >> /\ hdr = NoBlocks /\ live = NoBlocks /\ DOMAIN NoBlocks = {}
  BY DEF Init, SpaceInit, NoBlocks
<1>2. Layout(hdr, regions) /\ RegionsApart(regions)
  BY <1>1, EmptyLayout
<1>3. TypeOK
  <2>1. HeadersTyped(hdr) /\ RegionTypeOK
    BY <1>2 DEF Layout, RegionsApart, RegionTypeOK, Init, SpaceInit
  <2>2. live \in [DOMAIN live -> Nat] /\ DOMAIN live \subseteq Nat
    BY <1>1 DEF NoBlocks
  <2> QED
    BY <2>1, <2>2 DEF HeadersTyped, TypeOK, Init, NULL
<1>4. AllocatedBlocks
  BY <1>1 DEF AllocatedBlocks
<1>5. CursorOnBlock /\ RunningCall
  BY DEF Init, CursorOnBlock, RunningCall
<1> QED
  BY <1>2, <1>3, <1>4, <1>5 DEF HInv

\* What the invariant says of the variables' types, in the form the steps use.
LEMMA InvTypes ==
  ASSUME HInv
  PROVE  /\ RegionsApart(regions) /\ Layout(hdr, regions)
         /\ HeadersTyped(hdr) /\ BlocksApart(hdr) /\ NextValid(hdr)
         /\ hdr \in [Blocks -> Header]
         /\ \A b \in Blocks : /\ b \in Nat /\ b > 0
                              /\ hdr[b].capacity \in Nat
                              /\ hdr[b].next \in Nat
                              /\ hdr[b].is_free \in BOOLEAN
         /\ foreign \in SUBSET FOREIGN_PAGES
         /\ live \in [DOMAIN live -> Nat] /\ DOMAIN live \subseteq Nat
         /\ pc \in {"idle", "search", "grow", "free", "undefined"}
         /\ cur \in Nat /\ request \in Nat /\ query \in Nat
         /\ grown \in BOOLEAN /\ heads \subseteq Nat
         /\ HEADER_SIZE \in Nat /\ HEADER_SIZE > 0
<1>1. HeadersTyped(hdr) /\ BlocksApart(hdr) /\ NextValid(hdr)
  BY DEF HInv, Layout
<1>2. \A b \in Blocks : /\ b \in Nat /\ b > 0
                        /\ hdr[b].capacity \in Nat
                        /\ hdr[b].next \in Nat
                        /\ hdr[b].is_free \in BOOLEAN
  BY <1>1, BlockNumbers
<1> QED
  BY <1>1, <1>2, SizesAssumption DEF HInv, TypeOK, RegionTypeOK

\* TypeOK' from the layout of the next state and the types of the rest.
LEMMA TypesNext ==
  ASSUME RegionsApart(regions'), Layout(hdr', regions'),
         foreign' \in SUBSET FOREIGN_PAGES,
         live' \in [DOMAIN live' -> Nat], DOMAIN live' \subseteq Nat,
         pc' \in {"idle", "search", "grow", "free", "undefined"},
         cur' \in Nat, request' \in Nat, query' \in Nat,
         grown' \in BOOLEAN, heads' \subseteq Nat
  PROVE  TypeOK'
BY DEF TypeOK, RegionTypeOK, RegionsApart, Layout, HeadersTyped

\* A step that leaves the blocks in use and the client's allocations alone
\* keeps them matched.
LEMMA UsedBlocksKept ==
  ASSUME AllocatedBlocks, UNCHANGED live,
         \A b \in DOMAIN hdr : ~hdr[b].is_free =>
           b \in DOMAIN hdr' /\ ~hdr'[b].is_free /\ hdr'[b].capacity = hdr[b].capacity,
         \A b \in DOMAIN hdr' : ~hdr'[b].is_free => b \in DOMAIN hdr /\ ~hdr[b].is_free
  PROVE  AllocatedBlocks'
BY DEF AllocatedBlocks

\* A merge leaves the blocks in use alone.
LEMMA MergeKeepsUsed ==
  ASSUME HInv, UNCHANGED live, NEW b \in DOMAIN hdr, CanMerge(hdr, b),
         hdr' = MergedWithNext(hdr, b)
  PROVE  AllocatedBlocks'
<1>1. IsMerge(hdr, hdr', b)
  BY InvTypes, MergeWrites
<1>2. \A c \in DOMAIN hdr : ~hdr[c].is_free =>
        c \in DOMAIN hdr' /\ ~hdr'[c].is_free /\ hdr'[c].capacity = hdr[c].capacity
  BY <1>1 DEF IsMerge
<1>3. \A c \in DOMAIN hdr' : ~hdr'[c].is_free => c \in DOMAIN hdr /\ ~hdr[c].is_free
  BY <1>1 DEF IsMerge
<1> QED
  BY <1>2, <1>3, UsedBlocksKept DEF HInv
-----------------------------------------------------------------------------
(* One lemma per action.                                                   *)

LEMMA HeapInitInv ==
  ASSUME HInv, NEW i \in Nat, heap_init(i)
  PROVE  HInv'
<1>1. PICK r \in alloc_region(HEAP_START, i) :
        /\ ~region_is_invalid(r)
        /\ regions' = RegionsWith(r)
        /\ hdr' = block_init(hdr, r.addr, r.size, NULL)
        /\ heads' = heads \cup {r.addr}
  BY DEF heap_init
<1>2. HEAP_START \in Nat
  BY AddressAssumption
<1>3. r = [addr |-> r.addr, size |-> region_size_for(i), extends |-> r.addr = HEAP_START]
      /\ FreshRegion(regions, r.addr, region_size_for(i))
  BY <1>1, <1>2, AllocRegion, InvTypes DEF region_is_invalid, REGION_INVALID
<1> DEFINE size == region_size_for(i)
<1>4. r.size = size
  BY <1>3
<1> HIDE DEF size
<1>5. FreshRegion(regions, r.addr, size) /\ r.addr \in Nat
  BY <1>3 DEF FreshRegion, size
<1>6. RegionsApart(regions') /\ Layout(hdr', regions')
  BY <1>1, <1>4, <1>5, RegionsStayApart, NewBlockKeepsLayout, InvTypes DEF RegionsWith
<1>7. IsNewBlock(hdr, hdr', r.addr, size)
  BY <1>1, <1>4, <1>5, NewBlockWrites, InvTypes
<1>8. UNCHANGED <<foreign, pc, cur, request, query, grown, live>> /\ pc = "idle"
  BY DEF heap_init
<1>9. TypeOK'
  BY <1>1, <1>5, <1>6, <1>8, InvTypes, TypesNext
<1>10. AllocatedBlocks'
  BY <1>7, <1>8, UsedBlocksKept DEF HInv, IsNewBlock
<1>11. CursorOnBlock' /\ RunningCall'
  BY <1>8 DEF CursorOnBlock, RunningCall
<1> QED
  BY <1>6, <1>9, <1>10, <1>11 DEF HInv

LEMMA MallocInv ==
  ASSUME HInv, NEW q \in Nat, malloc(q) \/ malloc_no_heap(q)
  PROVE  HInv'
<1>1. /\ UNCHANGED <<regions, foreign, hdr, heads, live>>
      /\ \/ /\ pc' = "search" /\ cur' = HEAP_START /\ HEAP_START \in Blocks
            /\ request' = q /\ query' = size_max(q, BLOCK_MIN_CAPACITY)
            /\ grown' = FALSE
         \/ pc' = "undefined" /\ UNCHANGED <<cur, request, query, grown>>
  BY DEF malloc, malloc_no_heap
<1>2. HEAP_START \in Nat /\ size_max(q, BLOCK_MIN_CAPACITY) \in Nat
  BY AddressAssumption, SizesAssumption DEF size_max
<1>3. RegionsApart(regions') /\ Layout(hdr', regions')
  BY <1>1, InvTypes
<1>4. TypeOK'
  BY <1>1, <1>2, <1>3, InvTypes, TypesNext
<1>5. AllocatedBlocks'
  BY <1>1 DEF HInv, AllocatedBlocks
<1>6. CursorOnBlock' /\ RunningCall'
  BY <1>1 DEF CursorOnBlock, RunningCall
<1> QED
  BY <1>3, <1>4, <1>5, <1>6 DEF HInv

LEMMA SearchMergeInv ==
  ASSUME HInv, search_merge
  PROVE  HInv'
<1>1. /\ pc = "search" /\ cur \in DOMAIN hdr /\ CanMerge(hdr, cur)
      /\ hdr' = MergedWithNext(hdr, cur)
      /\ UNCHANGED <<regions, foreign, pc, cur, request, query, grown, heads, live>>
      /\ grown = FALSE
  BY InvTypes DEF search_merge, HInv, CursorOnBlock, RunningCall, CanMerge
<1>2. RegionsApart(regions') /\ Layout(hdr', regions')
  BY <1>1, InvTypes, MergeKeepsLayout
<1>3. cur' \in DOMAIN hdr'
  <2>1. IsMerge(hdr, hdr', cur)
    BY <1>1, InvTypes, MergeWrites
  <2> QED
    BY <1>1, <2>1 DEF IsMerge
<1>4. TypeOK'
  BY <1>1, <1>2, InvTypes, TypesNext
<1>5. AllocatedBlocks'
  BY <1>1, MergeKeepsUsed
<1>6. CursorOnBlock' /\ RunningCall'
  BY <1>1, <1>3 DEF HInv, CursorOnBlock, RunningCall
<1> QED
  BY <1>2, <1>4, <1>5, <1>6 DEF HInv

LEMMA SearchNextInv ==
  ASSUME HInv, search_next
  PROVE  HInv'
<1>1. /\ pc = "search" /\ cur \in DOMAIN hdr /\ hdr[cur].next # NULL
      /\ cur' = hdr[cur].next
      /\ UNCHANGED <<regions, foreign, hdr, pc, request, query, grown, heads, live>>
      /\ grown = FALSE
  BY InvTypes DEF search_next, HInv, CursorOnBlock, RunningCall
<1>2. cur' \in DOMAIN hdr'
  BY <1>1, InvTypes DEF NextValid
<1>3. RegionsApart(regions') /\ Layout(hdr', regions')
  BY <1>1, InvTypes
<1>4. TypeOK'
  BY <1>1, <1>2, <1>3, InvTypes, TypesNext
<1>5. AllocatedBlocks'
  BY <1>1 DEF HInv, AllocatedBlocks
<1>6. CursorOnBlock' /\ RunningCall'
  BY <1>1, <1>2 DEF HInv, CursorOnBlock, RunningCall
<1> QED
  BY <1>3, <1>4, <1>5, <1>6 DEF HInv

\* The address of a block's contents determines the block.
LEMMA ContentsHeader ==
  ASSUME HInv
  PROVE  /\ \A b \in Blocks : block_get_header(contents(b)) = b /\ contents(b) \in Nat
         /\ \A p \in DOMAIN live : contents(block_get_header(p)) = p
BY InvTypes DEF block_get_header, contents

\* A good block becomes a block in use that holds the request, the others keep
\* their state.
LEMMA AllocateInv ==
  ASSUME HInv, allocate
  PROVE  HInv'
<1> DEFINE h == split_if_too_big(hdr, cur, query)
<1>1. /\ pc = "search" /\ cur \in DOMAIN hdr
      /\ hdr[cur].is_free /\ hdr[cur].capacity >= query
      /\ hdr' = [h EXCEPT ![cur].is_free = FALSE]
      /\ live' = Put(live, contents(cur), request)
      /\ pc' = "idle" /\ cur' = NULL /\ request' = 0 /\ query' = 0 /\ grown' = FALSE
      /\ UNCHANGED <<regions, foreign, heads>>
  BY DEF allocate, HInv, CursorOnBlock, IsGood, block_is_big_enough, Return
<1>2. /\ request \in Nat /\ query \in Nat
      /\ query >= BLOCK_MIN_CAPACITY /\ query >= request
  BY <1>1, InvTypes, SizesAssumption DEF HInv, RunningCall, size_max
<1> HIDE DEF h
<1>3. /\ Layout(h, regions)
      /\ DOMAIN hdr \subseteq DOMAIN h
      /\ \A b \in DOMAIN hdr \ {cur} : h[b] = hdr[b]
      /\ \A b \in DOMAIN h \ DOMAIN hdr : h[b].is_free
      /\ h[cur].capacity >= query
  <2>1. CASE block_splittable(hdr, cur, query)
    <3>1. IsSplit(hdr, h, cur, query) /\ Layout(h, regions)
      BY <1>1, <1>2, <2>1, InvTypes, SplitWrites, SplitKeepsLayout DEF h
    <3> QED
      BY <1>1, <1>2, <3>1 DEF IsSplit
  <2>2. CASE ~block_splittable(hdr, cur, query)
    BY <1>1, <2>2, InvTypes DEF split_if_too_big, h
  <2> QED
    BY <2>1, <2>2
<1>4. Layout(hdr', regions') /\ RegionsApart(regions')
  BY <1>1, <1>3, InvTypes, MarkKeepsLayout
<1>5. /\ DOMAIN hdr' = DOMAIN h
      /\ \A b \in DOMAIN h : b # cur => hdr'[b] = h[b]
      /\ hdr'[cur].is_free = FALSE /\ hdr'[cur].capacity = h[cur].capacity
  <2>1. h[cur] \in Header /\ cur \in DOMAIN h
    BY <1>1, <1>3 DEF Layout, HeadersTyped
  <2> QED
    BY <1>1, <2>1 DEF Header
<1>6. /\ contents(cur) \in Nat /\ block_get_header(contents(cur)) = cur
      /\ DOMAIN live' = DOMAIN live \cup {contents(cur)}
      /\ live'[contents(cur)] = request
      /\ \A p \in DOMAIN live : p # contents(cur) => live'[p] = live[p]
      /\ live' = [p \in DOMAIN live' |-> live'[p]]
  BY <1>1, ContentsHeader DEF Put
<1>7. TypeOK'
  <2>1. live' \in [DOMAIN live' -> Nat] /\ DOMAIN live' \subseteq Nat
    BY <1>2, <1>6, InvTypes
  <2> QED
    BY <1>1, <1>4, <2>1, InvTypes, TypesNext DEF NULL
<1>8. AllocatedBlocks'
  <2>1. ASSUME NEW p \in DOMAIN live'
        PROVE  /\ block_get_header(p) \in DOMAIN hdr'
               /\ ~hdr'[block_get_header(p)].is_free
               /\ hdr'[block_get_header(p)].capacity >= live'[p]
    <3>1. CASE p = contents(cur)
      <4>1. h[cur].capacity \in Nat
        BY <1>1, <1>3, BlockNumbers DEF Layout
      <4> QED
        BY <1>1, <1>2, <1>3, <1>5, <1>6, <3>1, <4>1
    <3>2. CASE p # contents(cur)
      <4>1. p \in DOMAIN live /\ live'[p] = live[p]
        BY <1>6, <3>2
      <4>2. block_get_header(p) # cur
        BY <3>2, <4>1, ContentsHeader
      <4>3. /\ block_get_header(p) \in DOMAIN hdr
            /\ ~hdr[block_get_header(p)].is_free
            /\ hdr[block_get_header(p)].capacity >= live[p]
        BY <4>1 DEF HInv, AllocatedBlocks
      <4> QED
        BY <1>3, <1>5, <4>1, <4>2, <4>3
    <3> QED
      BY <3>1, <3>2
  <2>2. ASSUME NEW b \in DOMAIN hdr', ~hdr'[b].is_free
        PROVE  contents(b) \in DOMAIN live'
    <3>1. CASE b = cur
      BY <1>6, <3>1
    <3>2. CASE b # cur
      <4>1. b \in DOMAIN hdr /\ ~hdr[b].is_free
        BY <1>3, <1>5, <2>2, <3>2
      <4> QED
        BY <1>6, <4>1 DEF HInv, AllocatedBlocks
    <3> QED
      BY <3>1, <3>2
  <2> QED
    BY <2>1, <2>2 DEF AllocatedBlocks
<1>9. CursorOnBlock' /\ RunningCall'
  BY <1>1 DEF CursorOnBlock, RunningCall
<1> QED
  BY <1>4, <1>7, <1>8, <1>9 DEF HInv

LEMMA SearchEndInv ==
  ASSUME HInv, search_end
  PROVE  HInv'
<1>1. /\ pc = "search" /\ pc' = "grow" /\ cur \in DOMAIN hdr /\ hdr[cur].next = NULL
      /\ UNCHANGED <<regions, foreign, hdr, cur, request, query, grown, heads, live>>
  BY DEF search_end, HInv, CursorOnBlock
<1>2. RegionsApart(regions') /\ Layout(hdr', regions')
  BY <1>1, InvTypes
<1>3. TypeOK'
  BY <1>1, <1>2, InvTypes, TypesNext
<1>4. AllocatedBlocks'
  BY <1>1 DEF HInv, AllocatedBlocks
<1>5. CursorOnBlock' /\ RunningCall'
  BY <1>1 DEF HInv, CursorOnBlock, RunningCall
<1> QED
  BY <1>2, <1>3, <1>4, <1>5 DEF HInv

\* memalloc falls back on the last block of the second search only if the size of
\* the region wrapped, and then returns a free block that is too small ...
LEMMA ReturnsLastIfWrapped ==
  ASSUME HInv, return_last
  PROVE  /\ cur \in Blocks /\ hdr[cur].is_free
         /\ ~(hdr[cur].capacity >= query)
         /\ query = size_max(request, BLOCK_MIN_CAPACITY)
         /\ ~(query + HEADER_SIZE <= SIZE_T - PAGE_SIZE)
<1>1. /\ cur \in Blocks /\ hdr[cur].is_free
      /\ query = size_max(request, BLOCK_MIN_CAPACITY)
      /\ query + HEADER_SIZE <= SIZE_T - PAGE_SIZE => hdr[cur].capacity >= query
  BY DEF return_last, HInv, RunningCall, CursorOnBlock
<1>2. ~(hdr[cur].capacity >= query)
  BY <1>1 DEF return_last, IsPassed, block_is_big_enough
<1> QED
  BY <1>1, <1>2

\* ... so for a client of Spec never.
LEMMA NeverReturnsLast ==
  ASSUME IInv, return_last
  PROVE  FALSE
<1>1. request \in QUERIES /\ HInv
  BY DEF return_last, IInv
<1> QED
  BY <1>1, ReturnsLastIfWrapped, QueryAssumption

LEMMA GrowFailsInv ==
  ASSUME HInv, grow_fails
  PROVE  HInv'
<1>1. PICK r \in alloc_region(block_after(hdr, cur), query) :
        region_is_invalid(r) /\ hdr' = [hdr EXCEPT ![cur].next = r.addr]
  BY DEF grow_fails
<1>2. /\ pc = "grow" /\ cur \in DOMAIN hdr /\ hdr[cur].next = NULL
      /\ pc' = "idle" /\ cur' = NULL /\ request' = 0 /\ query' = 0 /\ grown' = FALSE
      /\ UNCHANGED <<regions, foreign, heads, live>>
  BY DEF grow_fails, HInv, CursorOnBlock, RunningCall, Return
<1>3. hdr' = hdr
  <2>1. hdr[cur] \in Header /\ r.addr = NULL
    BY <1>1, <1>2, InvTypes DEF region_is_invalid
  <2>2. [hdr[cur] EXCEPT !.next = NULL] = hdr[cur]
    BY <1>2, <2>1 DEF Header
  <2> QED
    BY <1>1, <1>2, <2>1, <2>2, InvTypes
<1>4. RegionsApart(regions') /\ Layout(hdr', regions')
  BY <1>2, <1>3, InvTypes
<1>5. TypeOK'
  BY <1>2, <1>4, InvTypes, TypesNext DEF NULL
<1>6. AllocatedBlocks'
  BY <1>2, <1>3 DEF HInv, AllocatedBlocks
<1>7. CursorOnBlock' /\ RunningCall'
  BY <1>2 DEF CursorOnBlock, RunningCall
<1> QED
  BY <1>4, <1>5, <1>6, <1>7 DEF HInv

\* grow_heap lays a block over a fresh region [a, a + size) and chains it to the
\* block it is at, which gives g, and merges the two where it can.
IsGrowth(a, size, g) ==
  /\ FreshRegion(regions, a, size)
  /\ regions' = Append(regions, [addr |-> a, size |-> size])
  /\ query + HEADER_SIZE <= SIZE_T - PAGE_SIZE => size >= query + HEADER_SIZE
  /\ a \notin DOMAIN hdr
  /\ DOMAIN g = DOMAIN hdr \cup {a}
  /\ \A c \in DOMAIN hdr \ {cur} : g[c] = hdr[c]
  /\ g[cur].next = a
  /\ g[cur].capacity = hdr[cur].capacity /\ g[cur].is_free = hdr[cur].is_free
  /\ g[a] = [next |-> NULL, capacity |-> size - HEADER_SIZE, is_free |-> TRUE]
  /\ block_after(g, a) = a + size
  /\ Layout(g, regions')
  /\ IF CanMerge(g, cur) THEN hdr' = MergedWithNext(g, cur) /\ cur' = cur
                         ELSE hdr' = g /\ cur' = a

LEMMA GrowWrites ==
  ASSUME HInv, grow_heap
  PROVE  \E a, size, g : IsGrowth(a, size, g)
<1>1. PICK r \in alloc_region(block_after(hdr, cur), query) :
        /\ ~region_is_invalid(r)
        /\ regions' = RegionsWith(r)
        /\ hdr' = GrownHeap(r)
        /\ cur' = IF r.addr \in DOMAIN GrownHeap(r) THEN r.addr ELSE cur
  BY DEF grow_heap
<1> DEFINE size == region_size_for(query)
           h == block_init(hdr, r.addr, r.size, NULL)
           g == [h EXCEPT ![cur].next = r.addr]
<1>2. cur \in DOMAIN hdr /\ hdr[cur].next = NULL
  BY DEF grow_heap, HInv, CursorOnBlock, RunningCall
<1>3. query \in Nat
  BY InvTypes
<1>4. query + HEADER_SIZE <= SIZE_T - PAGE_SIZE => size >= query + HEADER_SIZE
  BY <1>3, RegionHoldsQuery
<1> HIDE DEF size
<1>5. /\ FreshRegion(regions, r.addr, size) /\ r.size = size
      /\ r.extends = (r.addr = block_after(hdr, cur))
  <2>1. block_after(hdr, cur) \in Nat
    BY <1>2, InvTypes, BlockNumbers
  <2>2. r = [addr |-> r.addr, size |-> size, extends |-> r.addr = block_after(hdr, cur)]
        /\ FreshRegion(regions, r.addr, size)
    BY <1>1, <1>3, <2>1, AllocRegion, InvTypes DEF region_is_invalid, REGION_INVALID, size
  <2>3. \A x, y, z : r = [addr |-> x, size |-> y, extends |-> z] => r.size = y /\ r.extends = z
    OBVIOUS
  <2> QED
    BY <2>2, <2>3
<1>6. r.addr \in Nat /\ r.addr # NULL /\ size \in Nat
  BY <1>5 DEF FreshRegion, IsPageAddress, NULL
<1>7. Layout(h, regions') /\ IsNewBlock(hdr, h, r.addr, size)
  BY <1>1, <1>5, InvTypes, NewBlockKeepsLayout, NewBlockWrites DEF RegionsWith
<1>8. hdr' = IF r.extends /\ hdr[cur].is_free /\ CanMerge(g, cur)
             THEN MergedWithNext(g, cur) ELSE g
  BY <1>1 DEF GrownHeap
<1> HIDE DEF h
<1>9. /\ r.addr \notin DOMAIN hdr /\ DOMAIN h = DOMAIN hdr \cup {r.addr}
      /\ \A c \in DOMAIN hdr : h[c] = hdr[c]
      /\ h[r.addr] = [next |-> NULL, capacity |-> size - HEADER_SIZE, is_free |-> TRUE]
      /\ h[cur].next = NULL
      /\ block_after(h, r.addr) = r.addr + size
  BY <1>2, <1>7 DEF IsNewBlock
<1>10. Layout(g, regions')
  <2>1. \A c \in DOMAIN h : h[c].next # r.addr
    BY <1>6, <1>9, InvTypes DEF NextValid
  <2>2. Layout(h, regions') /\ cur \in DOMAIN h /\ r.addr \in DOMAIN h /\ h[cur].next = NULL
    BY <1>2, <1>7, <1>9
  <2> QED
    BY <2>1, <2>2, ChainKeepsLayout
<1>11. /\ DOMAIN g = DOMAIN hdr \cup {r.addr}
       /\ \A c \in DOMAIN hdr \ {cur} : g[c] = hdr[c]
       /\ g[cur].capacity = hdr[cur].capacity /\ g[cur].is_free = hdr[cur].is_free
       /\ g[cur].next = r.addr
       /\ g[r.addr] = h[r.addr]
  <2>1. h[cur] \in Header
    BY <1>2, <1>7, <1>9 DEF Layout, HeadersTyped
  <2> QED
    BY <1>2, <1>9, <2>1 DEF Header
<1> HIDE DEF g
<1>12. block_after(g, r.addr) = r.addr + size
       /\ block_after(g, cur) = block_after(hdr, cur)
  BY <1>9, <1>11 DEF block_after
\* Where they can be merged, the region is where it was asked for.
<1>13. CanMerge(g, cur) => r.extends /\ hdr[cur].is_free
  BY <1>5, <1>11, <1>12 DEF CanMerge, mergeable
<1>14. CASE CanMerge(g, cur)
  <2>1. hdr' = MergedWithNext(g, cur)
    BY <1>8, <1>13, <1>14
  <2>2. r.addr \notin DOMAIN hdr'
    <3>1. IsMerge(g, hdr', cur)
      BY <1>2, <1>10, <1>11, <1>14, <2>1, MergeWrites
    <3> QED
      BY <1>11, <3>1 DEF IsMerge
  <2>3. cur' = cur
    BY <1>1, <2>2
  <2>4. IsGrowth(r.addr, size, g)
    BY <1>1, <1>4, <1>5, <1>9, <1>10, <1>11, <1>12, <1>14, <2>1, <2>3
       DEF IsGrowth, RegionsWith
  <2> QED
    BY <2>4
<1>15. CASE ~CanMerge(g, cur)
  <2>1. hdr' = g
    BY <1>8, <1>15
  <2>2. cur' = r.addr
    BY <1>1, <1>11, <2>1
  <2>3. IsGrowth(r.addr, size, g)
    BY <1>1, <1>4, <1>5, <1>9, <1>10, <1>11, <1>12, <1>15, <2>1, <2>2
       DEF IsGrowth, RegionsWith
  <2> QED
    BY <2>3
<1> QED
  BY <1>14, <1>15

\* Either way the second search starts at a block that holds the query, if the
\* region does.
LEMMA GrowHeapInv ==
  ASSUME HInv, grow_heap
  PROVE  HInv'
<1>1. PICK a, size, g : IsGrowth(a, size, g)
  BY GrowWrites
<1>2. /\ pc = "grow" /\ cur \in DOMAIN hdr /\ hdr[cur].next = NULL
      /\ pc' = "search" /\ grown' = TRUE
      /\ query = size_max(request, BLOCK_MIN_CAPACITY)
      /\ UNCHANGED <<foreign, request, query, heads, live>>
  BY DEF grow_heap, HInv, CursorOnBlock, RunningCall
<1>3. /\ FreshRegion(regions, a, size)
      /\ query + HEADER_SIZE <= SIZE_T - PAGE_SIZE => size >= query + HEADER_SIZE
      /\ regions' = Append(regions, [addr |-> a, size |-> size])
      /\ a \notin DOMAIN hdr /\ a # cur
      /\ DOMAIN g = DOMAIN hdr \cup {a}
      /\ \A c \in DOMAIN hdr \ {cur} : g[c] = hdr[c]
      /\ g[cur].next = a
      /\ g[cur].capacity = hdr[cur].capacity /\ g[cur].is_free = hdr[cur].is_free
      /\ g[a] = [next |-> NULL, capacity |-> size - HEADER_SIZE, is_free |-> TRUE]
      /\ Layout(g, regions')
  BY <1>1, <1>2 DEF IsGrowth
<1>4. \/ CanMerge(g, cur) /\ hdr' = MergedWithNext(g, cur) /\ cur' = cur
      \/ hdr' = g /\ cur' = a
  BY <1>1 DEF IsGrowth
<1>5. a \in Nat /\ size \in Nat /\ query \in Nat
  BY <1>2, <1>3, InvTypes DEF FreshRegion
<1>6. CanMerge(g, cur) /\ hdr' = MergedWithNext(g, cur) => IsMerge(g, hdr', cur)
  BY <1>2, <1>3, MergeWrites
<1>7. RegionsApart(regions') /\ Layout(hdr', regions')
  BY <1>2, <1>3, <1>4, MergeKeepsLayout, RegionsStayApart, InvTypes
<1>8. /\ cur' \in DOMAIN hdr'
      /\ hdr'[cur'].is_free /\ hdr'[cur'].next = NULL
      /\ query + HEADER_SIZE <= SIZE_T - PAGE_SIZE => hdr'[cur'].capacity >= query
  <2>1. CASE hdr' = g /\ cur' = a
    BY <1>3, <1>5, <2>1, SizesAssumption
  <2>2. CASE CanMerge(g, cur) /\ hdr' = MergedWithNext(g, cur) /\ cur' = cur
    <3>1. /\ cur \in DOMAIN hdr'
          /\ hdr'[cur] = [next |-> NULL,
                          capacity |-> hdr[cur].capacity + HEADER_SIZE + (size - HEADER_SIZE),
                          is_free |-> TRUE]
      BY <1>2, <1>3, <1>6, <2>2 DEF IsMerge
    <3> QED
      BY <1>2, <1>3, <1>5, <2>2, <3>1, InvTypes
  <2> QED
    BY <1>4, <2>1, <2>2
<1>9. TypeOK'
  <2>1. cur' \in Nat
    BY <1>7, <1>8 DEF Layout, HeadersTyped
  <2> QED
    BY <1>2, <1>7, <2>1, InvTypes, TypesNext
<1>10. AllocatedBlocks'
  <2>1. /\ \A c \in DOMAIN hdr : ~hdr[c].is_free =>
             c \in DOMAIN hdr' /\ ~hdr'[c].is_free /\ hdr'[c].capacity = hdr[c].capacity
        /\ \A c \in DOMAIN hdr' : ~hdr'[c].is_free => c \in DOMAIN hdr /\ ~hdr[c].is_free
    <3>1. CASE hdr' = g
      BY <1>2, <1>3, <3>1
    <3>2. CASE CanMerge(g, cur) /\ hdr' = MergedWithNext(g, cur)
      <4>1. IsMerge(g, hdr', cur)
        BY <1>6, <3>2
      <4>2. g[cur].is_free /\ hdr'[cur].is_free
        BY <4>1 DEF IsMerge
      <4>3. DOMAIN hdr' = DOMAIN g \ {a} /\ \A c \in DOMAIN hdr' : c # cur => hdr'[c] = g[c]
        BY <1>3, <4>1 DEF IsMerge
      <4>4. DOMAIN hdr' = DOMAIN hdr
        BY <1>3, <4>3
      <4>5. \A c \in DOMAIN hdr : c # cur => hdr'[c] = hdr[c]
        BY <1>3, <4>3, <4>4
      <4> QED
        BY <1>3, <4>2, <4>4, <4>5
    <3> QED
      BY <1>4, <3>1, <3>2
  <2> QED
    BY <1>2, <2>1, UsedBlocksKept DEF HInv
<1>11. CursorOnBlock' /\ RunningCall'
  BY <1>2, <1>8 DEF CursorOnBlock, RunningCall
<1> QED
  BY <1>7, <1>9, <1>10, <1>11 DEF HInv

\* The block of an allocation that is given back is free, and no other changes.
LEMMA FreeInv ==
  ASSUME HInv, NEW p \in DOMAIN live, free(p)
  PROVE  HInv'
<1> DEFINE b == block_get_header(p)
<1>1. /\ live' = Drop(live, p)
      /\ hdr' = [hdr EXCEPT ![b].is_free = TRUE]
      /\ pc' = "free" /\ cur' = b
      /\ UNCHANGED <<regions, foreign, request, query, grown, heads>>
  BY DEF free
<1>2. b \in DOMAIN hdr /\ contents(b) = p
  BY ContentsHeader DEF HInv, AllocatedBlocks
<1> HIDE DEF b
<1>3. Layout(hdr', regions') /\ RegionsApart(regions')
  BY <1>1, <1>2, InvTypes, MarkKeepsLayout
<1>4. /\ DOMAIN hdr' = DOMAIN hdr
      /\ \A c \in DOMAIN hdr : c # b => hdr'[c] = hdr[c]
      /\ hdr'[b].is_free = TRUE
  <2>1. hdr[b] \in Header
    BY <1>2, InvTypes
  <2> QED
    BY <1>1, <1>2, <2>1 DEF Header
<1>5. /\ DOMAIN live' = DOMAIN live \ {p}
      /\ \A q \in DOMAIN live' : live'[q] = live[q]
      /\ live' = [q \in DOMAIN live' |-> live'[q]]
  BY <1>1 DEF Drop
<1>6. TypeOK'
  <2>1. live' \in [DOMAIN live' -> Nat] /\ DOMAIN live' \subseteq Nat
    BY <1>5, InvTypes
  <2> QED
    BY <1>1, <1>2, <1>3, <2>1, InvTypes, TypesNext
<1>7. AllocatedBlocks'
  <2>1. ASSUME NEW q \in DOMAIN live'
        PROVE  /\ block_get_header(q) \in DOMAIN hdr'
               /\ ~hdr'[block_get_header(q)].is_free
               /\ hdr'[block_get_header(q)].capacity >= live'[q]
    <3>1. q \in DOMAIN live /\ q # p /\ live'[q] = live[q]
      BY <1>5
    <3>2. block_get_header(q) # b
      BY <1>2, <3>1, ContentsHeader
    <3>3. /\ block_get_header(q) \in DOMAIN hdr
          /\ ~hdr[block_get_header(q)].is_free
          /\ hdr[block_get_header(q)].capacity >= live[q]
      BY <3>1 DEF HInv, AllocatedBlocks
    <3> QED
      BY <1>4, <3>1, <3>2, <3>3
  <2>2. ASSUME NEW c \in DOMAIN hdr', ~hdr'[c].is_free
        PROVE  contents(c) \in DOMAIN live'
    <3>1. c \in DOMAIN hdr /\ ~hdr[c].is_free /\ c # b
      BY <1>4, <2>2
    <3>2. contents(c) \in DOMAIN live
      BY <3>1 DEF HInv, AllocatedBlocks
    <3>3. contents(c) # p
      BY <1>2, <3>1, ContentsHeader
    <3> QED
      BY <1>5, <3>2, <3>3
  <2> QED
    BY <2>1, <2>2 DEF AllocatedBlocks
<1>8. CursorOnBlock' /\ RunningCall'
  BY <1>1, <1>2, <1>4 DEF CursorOnBlock, RunningCall
<1> QED
  BY <1>3, <1>6, <1>7, <1>8 DEF HInv

LEMMA FreeMergeInv ==
  ASSUME HInv, free_merge
  PROVE  HInv'
<1>1. /\ pc = "free" /\ cur \in DOMAIN hdr /\ CanMerge(hdr, cur)
      /\ hdr' = MergedWithNext(hdr, cur)
      /\ UNCHANGED <<regions, foreign, pc, cur, request, query, grown, heads, live>>
  BY DEF free_merge, HInv, CursorOnBlock
<1>2. RegionsApart(regions') /\ Layout(hdr', regions')
  BY <1>1, InvTypes, MergeKeepsLayout
<1>3. cur' \in DOMAIN hdr' /\ hdr'[cur'].is_free
  <2>1. IsMerge(hdr, hdr', cur)
    BY <1>1, InvTypes, MergeWrites
  <2> QED
    BY <1>1, <2>1 DEF IsMerge
<1>4. TypeOK'
  BY <1>1, <1>2, InvTypes, TypesNext
<1>5. AllocatedBlocks'
  BY <1>1, MergeKeepsUsed
<1>6. CursorOnBlock' /\ RunningCall'
  BY <1>1, <1>3 DEF CursorOnBlock, RunningCall
<1> QED
  BY <1>2, <1>4, <1>5, <1>6 DEF HInv

LEMMA FreeReturnInv ==
  ASSUME HInv, free_return
  PROVE  HInv'
<1>1. /\ pc' = "idle" /\ cur' = NULL /\ request' = 0 /\ query' = 0 /\ grown' = FALSE
      /\ UNCHANGED <<regions, foreign, hdr, heads, live>>
  BY DEF free_return, Return
<1>2. RegionsApart(regions') /\ Layout(hdr', regions')
  BY <1>1, InvTypes
<1>3. TypeOK'
  BY <1>1, <1>2, InvTypes, TypesNext DEF NULL
<1>4. AllocatedBlocks'
  BY <1>1 DEF HInv, AllocatedBlocks
<1>5. CursorOnBlock' /\ RunningCall'
  BY <1>1 DEF CursorOnBlock, RunningCall
<1> QED
  BY <1>2, <1>3, <1>4, <1>5 DEF HInv

\* Mappings that come and go elsewhere, and steps that change nothing.
LEMMA OtherInv ==
  ASSUME HInv, UNCHANGED regions, UNCHANGED heapvars,
         foreign' \in SUBSET FOREIGN_PAGES
  PROVE  HInv'
<1>1. UNCHANGED <<regions, hdr, pc, cur, request, query, grown, heads, live>>
  BY DEF heapvars
<1>2. RegionsApart(regions') /\ Layout(hdr', regions')
  BY <1>1, InvTypes
<1>3. TypeOK'
  BY <1>1, <1>2, InvTypes, TypesNext
<1>4. AllocatedBlocks' /\ CursorOnBlock' /\ RunningCall'
  BY <1>1 DEF HInv, AllocatedBlocks, CursorOnBlock, RunningCall
<1> QED
  BY <1>2, <1>3, <1>4 DEF HInv
-----------------------------------------------------------------------------
\* Every step keeps HInv but the one that returns the last block.
LEMMA StepInv ==
  ASSUME HInv, [Next]_vars, ~return_last
  PROVE  HInv'
<1>1. ASSUME NEW i \in INITIALS, heap_init(i) PROVE HInv'
  <2>1. i \in Nat
    BY QueryAssumption, SizesAssumption
  <2> QED
    BY <1>1, <2>1, HeapInitInv
<1>2. ASSUME NEW q \in QUERIES, malloc(q) \/ malloc_no_heap(q) PROVE HInv'
  BY <1>2, MallocInv, QueryAssumption
<1>3. ASSUME NEW p \in DOMAIN live, free(p) PROVE HInv'
  BY <1>3, FreeInv
<1>4. CASE Running
  BY <1>4, SearchMergeInv, SearchNextInv, AllocateInv, SearchEndInv,
     GrowFailsInv, GrowHeapInv, FreeMergeInv, FreeReturnInv DEF Running
<1>5. CASE OtherCode
  <2>1. foreign' \in SUBSET FOREIGN_PAGES /\ UNCHANGED regions /\ UNCHANGED heapvars
    BY <1>5, InvTypes DEF OtherCode, ForeignMap, ForeignUnmap
  <2> QED
    BY <2>1, OtherInv
<1>6. CASE UNCHANGED vars
  <2>1. foreign' \in SUBSET FOREIGN_PAGES /\ UNCHANGED regions /\ UNCHANGED heapvars
    BY <1>6, InvTypes DEF vars
  <2> QED
    BY <2>1, OtherInv
<1> QED
  BY <1>1, <1>2, <1>3, <1>4, <1>5, <1>6 DEF Next, Call, Crashed

LEMMA NextInv == IInv /\ [Next]_vars => IInv'
<1> SUFFICES ASSUME IInv, [Next]_vars PROVE IInv'
  OBVIOUS
<1>1. HInv'
  BY StepInv, NeverReturnsLast DEF IInv
<1>2. pc' \in {"search", "grow"} => request' \in QUERIES
  <2>1. pc \in {"search", "grow"} => request \in QUERIES
    BY DEF IInv
  <2>2. CASE Call
    BY <2>2 DEF Call, heap_init, malloc, malloc_no_heap, free
  <2>3. CASE Running
    BY <2>1, <2>3 DEF Running, search_merge, search_next, allocate, search_end, return_last,
                      grow_fails, grow_heap, free_merge, free_return, Return
  <2>4. CASE OtherCode \/ UNCHANGED vars
    BY <2>1, <2>4 DEF OtherCode, vars, heapvars
  <2> QED
    BY <2>2, <2>3, <2>4 DEF Next, Crashed
<1> QED
  BY <1>1, <1>2 DEF IInv

\* The inductive invariant holds in every state of every behaviour.
THEOREM Invariance == Spec => []IInv
<1>1. Init => IInv
  BY InitInv DEF IInv, Init
<1> QED
  BY <1>1, NextInv, PTL DEF Spec

LEMMA SpecHInv == Spec => []HInv
<1>1. IInv => HInv
  BY DEF IInv
<1> QED
  BY <1>1, Invariance, PTL

\* Types: what a step of the allocator writes is a header, its addresses are
\* not NULL and its capacities are not negative.
THEOREM TypeCorrect == Spec => []TypeOK
<1>1. HInv => TypeOK
  BY DEF HInv
<1> QED
  BY <1>1, SpecHInv, PTL

\* No two blocks share a byte, after any splits, merges and growths.
THEOREM BlocksNeverOverlap == Spec => []BlocksDisjoint
<1>1. HInv => BlocksDisjoint
  BY DEF HInv, Layout, BlocksApart, BlocksDisjoint
<1> QED
  BY <1>1, SpecHInv, PTL

\* No byte of a region is lost, and no block reaches beyond the regions.
THEOREM NoByteLost == Spec => []BlocksFillRegions
<1>1. HInv => BlocksFillRegions
  BY DEF HInv, Layout, Covers, BlocksFillRegions, InRegion, InBlock
<1> QED
  BY <1>1, SpecHInv, PTL

\* Neighbours in a region stay linked.
THEOREM NeighboursStayLinked == Spec => []NeighboursLinked
<1>1. HInv => NeighboursLinked
  BY DEF HInv, Layout, Linked, NeighboursLinked, InRegion
<1> QED
  BY <1>1, SpecHInv, PTL

\* No running call is left with a pointer to an absorbed header.
THEOREM CursorNeverDangles == Spec => []CursorOnBlock
<1>1. HInv => CursorOnBlock
  BY DEF HInv
<1> QED
  BY <1>1, SpecHInv, PTL

\* What _malloc returns is the client's alone and large enough, until freed.
THEOREM MallocServes == Spec => []AllocatedBlocks
<1>1. HInv => AllocatedBlocks
  BY DEF HInv
<1> QED
  BY <1>1, SpecHInv, PTL

\* grow_heap asks for the page right after a region of the heap.
THEOREM GrowsAtTheEdge == Spec => []GrowsAtRegionEnd
<1>1. ASSUME HInv, pc = "grow"
      PROVE  LET e == block_after(hdr, cur)
             IN  /\ IsPageAddress(e)
                 /\ \E i \in DOMAIN regions : e = regions[i].addr + regions[i].size
  <2> DEFINE e == block_after(hdr, cur)
  <2>1. cur \in DOMAIN hdr /\ hdr[cur].next = NULL
    BY <1>1 DEF HInv, CursorOnBlock, RunningCall
  <2>2. cur \in Nat /\ e \in Nat /\ cur < e /\ e <= ADDRESS_TOP /\ ADDRESS_TOP \in Nat
    BY <1>1, <2>1, InvTypes, BlockNumbers, SizesAssumption, AddressAssumption
  <2> HIDE DEF e
  \* The last byte of the block is in a region, the byte after it is not.
  <2>3. PICK i \in DOMAIN regions : Inside(e - 1, regions[i].addr, regions[i].size)
    <3>1. e - 1 \in 0 .. ADDRESS_TOP /\ cur <= e - 1 /\ e - 1 < block_after(hdr, cur)
      BY <2>2 DEF e
    <3> QED
      BY <1>1, <2>1, <3>1 DEF HInv, Layout, Covers
  <2>4. regions[i].addr \in Nat /\ regions[i].size \in Nat
    BY <1>1, InvTypes, RegionNumbers
  <2>5. ~Inside(e, regions[i].addr, regions[i].size)
    <3>1. regions[i].addr < e
      BY <2>2, <2>3, <2>4 DEF Inside
    <3> QED
      BY <1>1, <2>1, <2>2, <3>1 DEF HInv, Layout, Linked, NULL, e
  <2>6. e = regions[i].addr + regions[i].size
    BY <2>2, <2>3, <2>4, <2>5 DEF Inside
  <2>7. IsPageAddress(regions[i].addr + regions[i].size)
    BY <1>1 DEF HInv, RegionsApart
  <2> QED
    BY <2>6, <2>7 DEF e
<1>2. HInv => GrowsAtRegionEnd
  BY <1>1 DEF GrowsAtRegionEnd
<1> QED
  BY <1>2, SpecHInv, PTL

\* What the client holds lies in the contents of a block in use.
LEMMA HeldInBlock ==
  ASSUME HInv, NEW p \in DOMAIN live
  PROVE  LET b == block_get_header(p)
         IN  /\ b \in Blocks /\ ~hdr[b].is_free
             /\ p = b + HEADER_SIZE /\ p \in Nat
             /\ live[p] \in Nat
             /\ p + live[p] <= block_after(hdr, b)
<1> DEFINE b == block_get_header(p)
<1>1. /\ b \in Blocks /\ ~hdr[b].is_free /\ hdr[b].capacity >= live[p]
  BY DEF HInv, AllocatedBlocks
<1>2. /\ p \in Nat /\ live[p] \in Nat /\ HEADER_SIZE \in Nat
      /\ b \in Nat /\ hdr[b].capacity \in Nat /\ p = b + HEADER_SIZE
  BY <1>1, InvTypes DEF block_get_header
<1> QED
  BY <1>1, <1>2 DEF block_after, contents

-----------------------------------------------------------------------------
(***************************************************************************)
(* No step of the allocator writes into memory that the client holds.      *)
(***************************************************************************)

USE DEF Blocks

\* Where a step may write a header: over one of the blocks, inside a free block,
\* or in a fresh region.
MayWrite(c) ==
  /\ c \in Nat
  /\ \/ c \in Blocks
     \/ \E d \in Blocks : hdr[d].is_free /\ d <= c /\ c + HEADER_SIZE <= block_after(hdr, d)
     \/ \E size : FreshRegion(regions, c, size)

\* Such a header shares no byte with an allocation.
LEMMA WritesApart ==
  ASSUME HInv, NEW p \in DOMAIN live, NEW c, MayWrite(c)
  PROVE  Disjoint(c, HEADER_SIZE, p, live[p])
<1> DEFINE b == block_get_header(p)
<1>1. /\ b \in Blocks /\ ~hdr[b].is_free /\ p = b + HEADER_SIZE /\ p \in Nat
      /\ live[p] \in Nat /\ p + live[p] <= block_after(hdr, b)
  BY HeldInBlock
<1> HIDE DEF b
<1>2. /\ HeadersTyped(hdr) /\ BlocksApart(hdr) /\ RegionsApart(regions) /\ Layout(hdr, regions)
      /\ HEADER_SIZE \in Nat /\ HEADER_SIZE > 0 /\ c \in Nat
      /\ BLOCK_MIN_CAPACITY \in Nat
  BY InvTypes, SizesAssumption DEF MayWrite
<1>3. \A d \in Blocks : /\ d \in Nat /\ block_after(hdr, d) \in Nat
                        /\ d + HEADER_SIZE <= block_after(hdr, d)
  <2> SUFFICES ASSUME NEW d \in Blocks
               PROVE  /\ d \in Nat /\ block_after(hdr, d) \in Nat
                      /\ d + HEADER_SIZE <= block_after(hdr, d)
    OBVIOUS
  <2>1. /\ d \in Nat /\ block_after(hdr, d) \in Nat /\ hdr[d].capacity \in Nat
        /\ block_after(hdr, d) = d + HEADER_SIZE + hdr[d].capacity
    BY <1>2, BlockNumbers
  <2> QED
    BY <1>2, <2>1
<1>4. \A d \in Blocks : d # b => block_after(hdr, d) <= b \/ block_after(hdr, b) <= d
  BY <1>1, <1>2, <1>3 DEF BlocksApart
<1>5. CASE c \in Blocks
  BY <1>1, <1>2, <1>3, <1>4, <1>5 DEF Disjoint
<1>6. ASSUME NEW d \in Blocks, hdr[d].is_free, d <= c, c + HEADER_SIZE <= block_after(hdr, d)
      PROVE  Disjoint(c, HEADER_SIZE, p, live[p])
  <2>1. d # b
    BY <1>1, <1>6
  <2> QED
    BY <1>1, <1>2, <1>3, <1>4, <1>6, <2>1 DEF Disjoint
<1>7. ASSUME NEW size, FreshRegion(regions, c, size)
      PROVE  Disjoint(c, HEADER_SIZE, p, live[p])
  <2>1. block_after(hdr, b) <= c \/ c + size <= b
    BY <1>1, <1>2, <1>7, BlocksAvoidFresh
  <2>2. size \in Nat /\ size >= HEADER_SIZE
    BY <1>2, <1>7 DEF FreshRegion
  <2> QED
    BY <1>1, <1>2, <1>3, <2>1, <2>2 DEF Disjoint
<1> QED
  BY <1>5, <1>6, <1>7 DEF MayWrite

\* A step that keeps the headers of what the client keeps, and writes only where
\* it may, leaves what the client holds untouched.
LEMMA UntouchedStep ==
  ASSUME HInv,
         \A b \in Blocks : ~hdr[b].is_free /\ contents(b) \in DOMAIN live' =>
           /\ b \in DOMAIN hdr'
           /\ hdr'[b].capacity = hdr[b].capacity
           /\ hdr'[b].is_free = hdr[b].is_free,
         \A c \in DOMAIN hdr' : c \notin Blocks => MayWrite(c)
  PROVE  HeldUntouchedStep
<1> SUFFICES ASSUME NEW p \in DOMAIN live \cap DOMAIN live'
             PROVE  LET b == block_get_header(p)
                    IN  /\ b \in DOMAIN hdr'
                        /\ hdr'[b].capacity = hdr[b].capacity
                        /\ hdr'[b].is_free = hdr[b].is_free
                        /\ \A c \in DOMAIN hdr' :
                             (c \notin Blocks \/ hdr'[c] # hdr[c])
                               => Disjoint(c, HEADER_SIZE, p, live[p])
  BY DEF HeldUntouchedStep
<1> DEFINE b == block_get_header(p)
<1>1. b \in Blocks /\ ~hdr[b].is_free /\ contents(b) = p
  BY ContentsHeader DEF HInv, AllocatedBlocks
<1>2. \A c \in DOMAIN hdr' : MayWrite(c)
  BY InvTypes DEF MayWrite
<1>3. \A c \in DOMAIN hdr' : Disjoint(c, HEADER_SIZE, p, live[p])
  BY <1>2, WritesApart
<1> QED
  BY <1>1, <1>3

\* A step that writes no header.
LEMMA NoWrite ==
  ASSUME HInv, UNCHANGED hdr
  PROVE  HeldUntouchedStep
BY UntouchedStep

LEMMA MergeUntouched ==
  ASSUME HInv, NEW b \in Blocks, CanMerge(hdr, b), hdr' = MergedWithNext(hdr, b)
  PROVE  HeldUntouchedStep
<1>1. IsMerge(hdr, hdr', b)
  BY InvTypes, MergeWrites
<1>2. \A c \in Blocks : ~hdr[c].is_free => c \in DOMAIN hdr' /\ hdr'[c] = hdr[c]
  BY <1>1 DEF IsMerge
<1>3. DOMAIN hdr' \subseteq Blocks
  BY <1>1 DEF IsMerge
<1> QED
  BY <1>2, <1>3, UntouchedStep

LEMMA AllocateUntouched ==
  ASSUME HInv, allocate
  PROVE  HeldUntouchedStep
<1> DEFINE h == split_if_too_big(hdr, cur, query)
<1>1. /\ cur \in Blocks /\ hdr[cur].is_free /\ hdr[cur].capacity >= query
      /\ hdr' = [h EXCEPT ![cur].is_free = FALSE]
      /\ query \in Nat /\ query >= BLOCK_MIN_CAPACITY
  BY InvTypes, SizesAssumption
     DEF allocate, HInv, CursorOnBlock, RunningCall, IsGood, block_is_big_enough, size_max
<1> HIDE DEF h
<1>2. /\ \A b \in Blocks : b # cur => b \in DOMAIN h /\ h[b] = hdr[b]
      /\ \A c \in DOMAIN h : c \notin Blocks => MayWrite(c)
  <2>1. CASE block_splittable(hdr, cur, query)
    <3>1. IsSplit(hdr, h, cur, query)
      BY <1>1, <2>1, InvTypes, SplitWrites DEF h
    <3> DEFINE rest == contents(cur) + query
    <3>2. /\ rest \in Nat /\ cur <= rest
          /\ rest + HEADER_SIZE <= block_after(hdr, cur)
      <4>1. /\ cur \in Nat /\ hdr[cur].capacity \in Nat /\ HEADER_SIZE \in Nat
            /\ hdr[cur].capacity - query - HEADER_SIZE \in Nat
        BY <1>1, <3>1, InvTypes DEF IsSplit
      <4> QED
        BY <1>1, <4>1 DEF contents, block_after
    <3>3. MayWrite(rest)
      BY <1>1, <3>2 DEF MayWrite
    <3> QED
      BY <3>1, <3>3 DEF IsSplit
  <2>2. CASE ~block_splittable(hdr, cur, query)
    BY <2>2 DEF split_if_too_big, h
  <2> QED
    BY <2>1, <2>2
<1>3. DOMAIN hdr' = DOMAIN h /\ \A b \in DOMAIN h : b # cur => hdr'[b] = h[b]
  BY <1>1
<1>4. \A b \in Blocks : ~hdr[b].is_free => b \in DOMAIN hdr' /\ hdr'[b] = hdr[b]
  BY <1>1, <1>2, <1>3
<1> QED
  BY <1>2, <1>3, <1>4, UntouchedStep

LEMMA HeapInitUntouched ==
  ASSUME HInv, NEW i \in INITIALS, heap_init(i)
  PROVE  HeldUntouchedStep
<1>1. PICK r \in alloc_region(HEAP_START, i) :
        ~region_is_invalid(r) /\ hdr' = block_init(hdr, r.addr, r.size, NULL)
  BY DEF heap_init
<1>2. i \in Nat /\ HEAP_START \in Nat
  BY QueryAssumption, AddressAssumption, SizesAssumption
<1>3. FreshRegion(regions, r.addr, r.size)
  BY <1>1, <1>2, AllocRegion, InvTypes DEF region_is_invalid, REGION_INVALID
<1>4. IsNewBlock(hdr, hdr', r.addr, r.size)
  BY <1>1, <1>3, InvTypes, NewBlockWrites
<1>5. MayWrite(r.addr)
  BY <1>3 DEF MayWrite, FreshRegion
<1>6. /\ \A b \in Blocks : b \in DOMAIN hdr' /\ hdr'[b] = hdr[b]
      /\ \A c \in DOMAIN hdr' : c \notin Blocks => MayWrite(c)
  BY <1>4, <1>5 DEF IsNewBlock
<1> QED
  BY <1>6, UntouchedStep

LEMMA GrowFailsUntouched ==
  ASSUME HInv, grow_fails
  PROVE  HeldUntouchedStep
<1>1. PICK n : hdr' = [hdr EXCEPT ![cur].next = n]
  BY DEF grow_fails
<1>2. DOMAIN hdr' = Blocks
  BY <1>1
<1>3. \A b \in Blocks : hdr'[b].capacity = hdr[b].capacity /\ hdr'[b].is_free = hdr[b].is_free
  BY <1>1, InvTypes DEF Header
<1> QED
  BY <1>2, <1>3, UntouchedStep

LEMMA GrowHeapUntouched ==
  ASSUME HInv, grow_heap
  PROVE  HeldUntouchedStep
<1>1. PICK r \in alloc_region(block_after(hdr, cur), query) :
        ~region_is_invalid(r) /\ hdr' = GrownHeap(r)
  BY DEF grow_heap
<1> DEFINE h == block_init(hdr, r.addr, r.size, NULL)
           g == [h EXCEPT ![cur].next = r.addr]
<1>2. cur \in Blocks /\ query \in Nat /\ block_after(hdr, cur) \in Nat
  <2>1. cur \in Blocks
    BY DEF grow_heap, HInv, CursorOnBlock
  <2> QED
    BY <2>1, InvTypes, BlockNumbers
<1>3. FreshRegion(regions, r.addr, r.size)
  BY <1>1, <1>2, AllocRegion, InvTypes DEF region_is_invalid, REGION_INVALID
<1>4. IsNewBlock(hdr, h, r.addr, r.size)
  BY <1>3, InvTypes, NewBlockWrites
<1>5. MayWrite(r.addr)
  BY <1>3 DEF MayWrite, FreshRegion
<1>6. \/ hdr' = g
      \/ /\ hdr[cur].is_free /\ CanMerge(g, cur)
         /\ hdr' = Drop(block_init(g, cur,
                          Word(size_from_capacity(g[cur].capacity)
                                 + size_from_capacity(g[g[cur].next].capacity)),
                          g[g[cur].next].next), g[cur].next)
  BY <1>1 DEF GrownHeap, MergedWithNext
<1> HIDE DEF h
<1>7. /\ DOMAIN g = Blocks \cup {r.addr} /\ r.addr \notin Blocks
      /\ g[cur].next = r.addr
      /\ \A b \in Blocks : b # cur => g[b] = hdr[b]
      /\ g[cur].capacity = hdr[cur].capacity /\ g[cur].is_free = hdr[cur].is_free
  <2>1. h[cur] = hdr[cur] /\ cur \in DOMAIN h /\ hdr[cur] \in Header
    BY <1>2, <1>4, InvTypes DEF IsNewBlock
  <2> QED
    BY <1>2, <1>4, <2>1 DEF IsNewBlock, Header
<1> HIDE DEF g
<1>8. /\ DOMAIN hdr' \subseteq Blocks \cup {r.addr}
      /\ \A b \in Blocks : ~hdr[b].is_free =>
           /\ b \in DOMAIN hdr'
           /\ hdr'[b].capacity = hdr[b].capacity
           /\ hdr'[b].is_free = hdr[b].is_free
  <2>1. CASE hdr' = g
    BY <1>2, <1>7, <2>1
  <2>2. CASE hdr' # g
    <3>1. /\ hdr[cur].is_free
          /\ DOMAIN hdr' = Blocks
          /\ \A b \in Blocks : b # cur => hdr'[b] = g[b]
      BY <1>2, <1>6, <1>7, <2>2 DEF Drop, block_init, Put
    <3> QED
      BY <1>7, <3>1
  <2> QED
    BY <2>1, <2>2
<1> QED
  BY <1>5, <1>8, UntouchedStep

LEMMA FreeUntouched ==
  ASSUME HInv, NEW p \in DOMAIN live, free(p)
  PROVE  HeldUntouchedStep
<1> DEFINE b == block_get_header(p)
<1>1. /\ DOMAIN live' = DOMAIN live \ {p}
      /\ hdr' = [hdr EXCEPT ![b].is_free = TRUE]
  BY DEF free, Drop
<1>2. contents(b) = p
  BY ContentsHeader
<1> HIDE DEF b
<1>3. DOMAIN hdr' = Blocks /\ \A c \in Blocks : c # b => hdr'[c] = hdr[c]
  BY <1>1
<1>4. \A c \in Blocks : contents(c) \in DOMAIN live' => hdr'[c] = hdr[c]
  BY <1>1, <1>2, <1>3
<1> QED
  BY <1>3, <1>4, UntouchedStep

\* One step per action of Next.
LEMMA NextUntouched == HInv /\ [Next]_vars => [HeldUntouchedStep]_vars
<1> SUFFICES ASSUME HInv, Next PROVE HeldUntouchedStep
  OBVIOUS
<1>1. ASSUME NEW i \in INITIALS, heap_init(i) PROVE HeldUntouchedStep
  BY <1>1, HeapInitUntouched
<1>2. ASSUME NEW q \in QUERIES, malloc(q) \/ malloc_no_heap(q) PROVE HeldUntouchedStep
  BY <1>2, NoWrite DEF malloc, malloc_no_heap
<1>3. ASSUME NEW p \in DOMAIN live, free(p) PROVE HeldUntouchedStep
  BY <1>3, FreeUntouched
<1>4. CASE search_merge \/ free_merge
  BY <1>4, MergeUntouched DEF search_merge, free_merge, HInv, CursorOnBlock
<1>5. CASE search_next \/ search_end \/ return_last \/ free_return
  BY <1>5, NoWrite DEF search_next, search_end, return_last, free_return
<1>6. CASE allocate
  BY <1>6, AllocateUntouched
<1>7. CASE grow_heap \/ grow_fails
  BY <1>7, GrowHeapUntouched, GrowFailsUntouched
<1>8. CASE OtherCode \/ Crashed
  BY <1>8, NoWrite DEF OtherCode, Crashed, vars, heapvars
<1> QED
  BY <1>1, <1>2, <1>3, <1>4, <1>5, <1>6, <1>7, <1>8 DEF Next, Call, Running

\* While the client holds an allocation, no step writes into it or changes its
\* header's capacity or mark.
THEOREM HeldStaysUntouched == Spec => HeldMemoryUntouched
BY NextUntouched, SpecHInv, PTL DEF Spec, HeldMemoryUntouched

-----------------------------------------------------------------------------
(***************************************************************************)
(* The refinement of AllocSpec, one lemma per action that changes memory.  *)
(***************************************************************************)

\* A byte of a block is in a region.
LEMMA BlocksInArena ==
  ASSUME HInv, NEW b \in Blocks, NEW x \in Int, b <= x, x < block_after(hdr, b)
  PROVE  \E r \in Arena : r.addr <= x /\ x < r.addr + r.size
<1>1. x \in 0 .. ADDRESS_TOP
  <2>1. b \in Nat /\ block_after(hdr, b) \in Nat /\ block_after(hdr, b) <= ADDRESS_TOP
    BY InvTypes, BlockNumbers
  <2> QED
    BY <2>1, AddressAssumption
<1>2. PICK i \in DOMAIN regions : Inside(x, regions[i].addr, regions[i].size)
  BY <1>1 DEF HInv, Layout, Covers, Blocks
<1> QED
  BY <1>2 DEF Arena, Inside

\* No byte is in two allocations that the client holds.
THEOREM ClientMemoryDisjoint == Spec => []HeldDisjoint
<1>1. ASSUME HInv, NEW p \in DOMAIN live, NEW q \in DOMAIN live, p < q
      PROVE  p + live[p] <= q
  <2> DEFINE b == block_get_header(p)
             c == block_get_header(q)
  <2>1. /\ b \in Blocks /\ p = b + HEADER_SIZE /\ p \in Nat /\ live[p] \in Nat
        /\ p + live[p] <= block_after(hdr, b)
    BY <1>1, HeldInBlock
  <2>2. c \in Blocks /\ q = c + HEADER_SIZE /\ q \in Nat
    BY <1>1, HeldInBlock
  <2> HIDE DEF b, c
  <2>3. /\ b \in Nat /\ c \in Nat /\ HEADER_SIZE \in Nat
        /\ block_after(hdr, b) \in Nat
    BY <1>1, <2>1, <2>2, InvTypes, BlockNumbers
  <2>4. block_after(hdr, b) <= c
    BY <1>1, <2>1, <2>2, <2>3, InvTypes DEF BlocksApart
  <2> QED
    BY <2>1, <2>2, <2>3, <2>4
<1>2. HInv => HeldDisjoint
  BY <1>1 DEF HeldDisjoint, A!HeldDisjoint
<1> QED
  BY <1>2, SpecHInv, PTL

-----------------------------------------------------------------------------
\* The mapping on the initial states.
LEMMA InitRefines == Init => A!AInit
<1> SUFFICES ASSUME Init PROVE A!AInit
  OBVIOUS
<1>1. Arena = {}
  BY DEF Init, SpaceInit, Arena
<1>2. live = [a \in {} |-> 0]
  BY DEF Init, NoBlocks
<1> QED
  BY <1>1, <1>2 DEF A!AInit

\* A region that heap_init or grow_heap maps extends the arena.
LEMMA RegionExtends ==
  ASSUME HInv, NEW a, NEW size \in RegionSizes, FreshRegion(regions, a, size),
         regions' = Append(regions, [addr |-> a, size |-> size]), UNCHANGED live
  PROVE  A!ANext
<1> DEFINE new == [addr |-> a, size |-> size]
<1>1. a \in 0 .. ADDRESS_TOP /\ IsPageAddress(a)
  BY SizesAssumption, AddressAssumption DEF FreshRegion
<1>2. new \in PossibleRegions
  BY <1>1 DEF PossibleRegions
<1>3. Arena' = Arena \cup {new}
  <2> HIDE DEF new
  <2>1. regions \in Seq([addr : Nat, size : Nat]) /\ regions' = Append(regions, new)
    BY InvTypes DEF RegionsApart, new
  <2>2. /\ DOMAIN regions' = DOMAIN regions \cup {Len(regions) + 1}
        /\ regions'[Len(regions) + 1] = new
        /\ \A i \in DOMAIN regions : regions'[i] = regions[i]
    BY <2>1
  <2> QED
    BY <2>2 DEF Arena
<1>4. \A r \in Arena : A!Apart(new.addr, new.size, r.addr, r.size)
  BY DEF Arena, A!Apart, FreshRegion, Disjoint
<1>5. A!Extend(new)
  BY <1>3, <1>4 DEF A!Extend
<1> QED
  BY <1>2, <1>5 DEF A!ANext

LEMMA HeapInitRefines ==
  ASSUME HInv, NEW i \in INITIALS, heap_init(i)
  PROVE  A!ANext
<1>1. PICK r \in alloc_region(HEAP_START, i) :
        ~region_is_invalid(r) /\ regions' = RegionsWith(r)
  BY DEF heap_init
<1>2. i \in Nat /\ HEAP_START \in Nat
  BY QueryAssumption, AddressAssumption, SizesAssumption
<1>3. r.size = region_size_for(i) /\ FreshRegion(regions, r.addr, region_size_for(i))
  BY <1>1, <1>2, AllocRegion, InvTypes DEF region_is_invalid, REGION_INVALID
<1>4. region_size_for(i) \in RegionSizes
  BY DEF RegionSizes
<1>5. UNCHANGED live /\ regions' = Append(regions, [addr |-> r.addr, size |-> r.size])
  BY <1>1 DEF heap_init, RegionsWith
<1> QED
  BY <1>3, <1>4, <1>5, RegionExtends

LEMMA GrowHeapRefines ==
  ASSUME HInv, grow_heap, request \in QUERIES
  PROVE  A!ANext
<1>1. PICK r \in alloc_region(block_after(hdr, cur), query) :
        ~region_is_invalid(r) /\ regions' = RegionsWith(r)
  BY DEF grow_heap
<1>2. /\ cur \in Blocks /\ request \in QUERIES
      /\ query = size_max(request, BLOCK_MIN_CAPACITY)
  BY DEF grow_heap, HInv, CursorOnBlock, RunningCall
<1>3. query \in Nat /\ block_after(hdr, cur) \in Nat
  BY <1>2, InvTypes, BlockNumbers
<1>4. r.size = region_size_for(query) /\ FreshRegion(regions, r.addr, region_size_for(query))
  BY <1>1, <1>3, AllocRegion, InvTypes DEF region_is_invalid, REGION_INVALID
<1>5. region_size_for(query) \in RegionSizes
  BY <1>2 DEF RegionSizes
<1>6. UNCHANGED live /\ regions' = Append(regions, [addr |-> r.addr, size |-> r.size])
  BY <1>1 DEF grow_heap, RegionsWith
<1> QED
  BY <1>4, <1>5, <1>6, RegionExtends

\* The block that memalloc returns is memory of the heap that nobody holds.
LEMMA AllocateRefines ==
  ASSUME HInv, allocate, request \in QUERIES
  PROVE  A!ANext
<1> DEFINE p == contents(cur)
<1>1. /\ cur \in Blocks /\ hdr[cur].is_free /\ hdr[cur].capacity >= query
      /\ request \in QUERIES /\ query = size_max(request, BLOCK_MIN_CAPACITY)
      /\ live' = Put(live, p, request) /\ UNCHANGED regions
  BY DEF allocate, HInv, CursorOnBlock, RunningCall, IsGood, block_is_big_enough, Return
<1>2. /\ cur \in Nat /\ request \in Nat /\ HEADER_SIZE \in Nat
      /\ hdr[cur].capacity \in Nat /\ hdr[cur].capacity >= request
  BY <1>1, InvTypes, SizesAssumption DEF size_max
<1>3. /\ p \in Nat /\ p = cur + HEADER_SIZE
      /\ p + request <= block_after(hdr, cur)
      /\ block_after(hdr, cur) \in Nat /\ block_after(hdr, cur) <= ADDRESS_TOP
  BY <1>1, <1>2, InvTypes, BlockNumbers DEF contents, block_after
<1>4. p \notin DOMAIN live
  BY <1>1, ContentsHeader DEF HInv, AllocatedBlocks
<1> HIDE DEF p
<1>5. A!InArena(p, request)
  <2> SUFFICES ASSUME NEW x \in p .. p + request - 1
               PROVE  \E r \in Arena : r.addr <= x /\ x < r.addr + r.size
    BY DEF A!InArena
  <2>1. x \in Int /\ cur <= x /\ x < block_after(hdr, cur)
    BY <1>2, <1>3
  <2> QED
    BY <1>1, <2>1, BlocksInArena
<1>6. ASSUME NEW o \in DOMAIN live
      PROVE  A!Apart(p, request, o, live[o])
  <2> DEFINE b == block_get_header(o)
  <2>1. /\ b \in Blocks /\ ~hdr[b].is_free /\ o = b + HEADER_SIZE /\ o \in Nat
        /\ live[o] \in Nat /\ o + live[o] <= block_after(hdr, b)
    BY HeldInBlock
  <2> HIDE DEF b
  <2>2. b \in Nat /\ b # cur /\ block_after(hdr, b) \in Nat
    BY <1>1, <2>1, InvTypes, BlockNumbers
  <2>3. block_after(hdr, b) <= cur \/ block_after(hdr, cur) <= b
    BY <1>1, <1>2, <2>1, <2>2, InvTypes DEF BlocksApart
  <2> QED
    BY <1>2, <1>3, <2>1, <2>2, <2>3 DEF A!Apart
<1>7. Arena' = Arena
  BY <1>1 DEF Arena
<1>8. A!Allocate(p, request)
  BY <1>1, <1>4, <1>5, <1>6, <1>7 DEF A!Allocate, Put
<1>9. p \in 0 .. ADDRESS_TOP
  BY <1>2, <1>3, AddressAssumption
<1> QED
  BY <1>1, <1>8, <1>9 DEF A!ANext

LEMMA FreeRefines ==
  ASSUME HInv, NEW p \in DOMAIN live, free(p)
  PROVE  A!ANext
<1>1. Arena' = Arena
  BY DEF free, Arena
<1>2. A!Release(p)
  BY <1>1 DEF free, A!Release, Drop
<1> QED
  BY <1>2 DEF A!ANext

\* Every step of Heap is a step of the abstract allocator or a stutter.
LEMMA NextRefines == IInv /\ [Next]_vars => [A!ANext]_(A!avars)
<1> SUFFICES ASSUME IInv, [Next]_vars PROVE A!ANext \/ UNCHANGED <<Arena, live>>
  BY DEF A!avars
<1>0. HInv /\ (pc \in {"search", "grow"} => request \in QUERIES)
  BY DEF IInv
<1>1. ASSUME NEW i \in INITIALS, heap_init(i) PROVE A!ANext
  BY <1>0, <1>1, HeapInitRefines
<1>2. ASSUME NEW q \in QUERIES, malloc(q) \/ malloc_no_heap(q)
      PROVE  UNCHANGED <<Arena, live>>
  BY <1>2 DEF malloc, malloc_no_heap, Arena
<1>3. ASSUME NEW p \in DOMAIN live, free(p) PROVE A!ANext
  BY <1>0, <1>3, FreeRefines
<1>4. CASE grow_heap
  BY <1>0, <1>4, GrowHeapRefines DEF grow_heap
<1>5. CASE allocate
  BY <1>0, <1>5, AllocateRefines DEF allocate
<1>6. CASE \/ search_merge \/ search_next \/ search_end
           \/ grow_fails \/ free_merge \/ free_return
  BY <1>6 DEF search_merge, search_next, search_end, grow_fails, free_merge,
              free_return, Arena
<1>7. CASE return_last
  BY <1>7, NeverReturnsLast
<1>8. CASE OtherCode
  BY <1>8 DEF OtherCode, ForeignMap, ForeignUnmap, heapvars, Arena
<1>9. CASE UNCHANGED vars
  BY <1>9 DEF vars, heapvars, Arena
<1> QED
  BY <1>1, <1>2, <1>3, <1>4, <1>5, <1>6, <1>7, <1>8, <1>9
     DEF Next, Call, Running, Crashed

\* mem.c, as modelled by Heap, implements the abstract allocator.
THEOREM Refinement == Spec => ImplementsAllocSpec
<1>1. Spec => A!AInit /\ [][A!ANext]_(A!avars)
  BY InitRefines, NextRefines, Invariance, PTL DEF Spec
<1> QED
  BY <1>1 DEF ImplementsAllocSpec, A!ASpec
=============================================================================
