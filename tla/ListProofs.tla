----------------------------- MODULE ListProofs -----------------------------
(***************************************************************************)
(* The order of the block list: it visits the regions in the order they    *)
(* were mapped and each of them upward, and the search leaves nothing      *)
(* behind that would have served.  ListInv is inductive beside IInv.  At   *)
(* the end, what remains of both for a client that asks for any size.      *)
(***************************************************************************)
EXTENDS HeapProofs, HugeQueries, Arithmetic

(* The order of the bytes of the heap.                                     *)

InSome(rs, x) == \E i \in DOMAIN rs : Inside(x, rs[i].addr, rs[i].size)

\* A byte lies in one region only.
LEMMA OneRegion ==
  ASSUME NEW rs, RegionsApart(rs), NEW i \in DOMAIN rs, NEW j \in DOMAIN rs, NEW x \in Int,
         Inside(x, rs[i].addr, rs[i].size), Inside(x, rs[j].addr, rs[j].size)
  PROVE  i = j
<1>1. /\ rs[i].addr \in Nat /\ rs[i].size \in Nat
      /\ rs[j].addr \in Nat /\ rs[j].size \in Nat
  BY RegionNumbers
<1>2. i # j => Disjoint(rs[i].addr, rs[i].size, rs[j].addr, rs[j].size)
  BY DEF RegionsApart
<1> QED
  BY <1>1, <1>2 DEF Disjoint, Inside

LEMMA IndexNumbers ==
  ASSUME NEW rs, RegionsApart(rs)
  PROVE  \A i \in DOMAIN rs : i \in Nat
<1>1. rs \in Seq([addr : Nat, size : Nat])
  BY DEF RegionsApart
<1> QED
  BY <1>1

LEMMA EarlierTransitive ==
  ASSUME NEW rs, RegionsApart(rs), NEW x \in Int, NEW y \in Int, NEW z \in Int,
         Earlier(rs, x, y), Earlier(rs, y, z)
  PROVE  Earlier(rs, x, z)
<1>1. PICK i, j \in DOMAIN rs : /\ Inside(x, rs[i].addr, rs[i].size)
                                /\ Inside(y, rs[j].addr, rs[j].size)
                                /\ i < j \/ (i = j /\ x < y)
  BY DEF Earlier
<1>2. PICK k, l \in DOMAIN rs : /\ Inside(y, rs[k].addr, rs[k].size)
                                /\ Inside(z, rs[l].addr, rs[l].size)
                                /\ k < l \/ (k = l /\ y < z)
  BY DEF Earlier
<1>3. j = k
  BY <1>1, <1>2, OneRegion
<1>4. i < l \/ (i = l /\ x < z)
  BY <1>1, <1>2, <1>3, IndexNumbers
<1> QED
  BY <1>1, <1>2, <1>4 DEF Earlier

LEMMA EarlierStrict ==
  ASSUME NEW rs, RegionsApart(rs), NEW x \in Int, NEW y \in Int, Earlier(rs, x, y)
  PROVE  x # y /\ ~Earlier(rs, y, x)
<1>1. ASSUME NEW z \in Int, Earlier(rs, z, z) PROVE FALSE
  <2>1. PICK i, j \in DOMAIN rs : /\ Inside(z, rs[i].addr, rs[i].size)
                                  /\ Inside(z, rs[j].addr, rs[j].size)
                                  /\ i < j \/ (i = j /\ z < z)
    BY <1>1 DEF Earlier
  <2>2. i = j
    BY <2>1, OneRegion
  <2> QED
    BY <2>1, <2>2, IndexNumbers
<1> QED
  BY <1>1, EarlierTransitive

\* Of two bytes of the heap one is earlier.
LEMMA EarlierTotal ==
  ASSUME NEW rs, RegionsApart(rs), NEW x \in Int, NEW y \in Int, x # y,
         InSome(rs, x), InSome(rs, y)
  PROVE  Earlier(rs, x, y) \/ Earlier(rs, y, x)
<1>1. PICK i \in DOMAIN rs : Inside(x, rs[i].addr, rs[i].size)
  BY DEF InSome
<1>2. PICK j \in DOMAIN rs : Inside(y, rs[j].addr, rs[j].size)
  BY DEF InSome
<1>3. i < j \/ j < i \/ (i = j /\ (x < y \/ y < x))
  BY <1>1, <1>2, IndexNumbers
<1> QED
  BY <1>1, <1>2, <1>3 DEF Earlier

LEMMA EarlierInSome ==
  ASSUME NEW rs, NEW x, NEW y, Earlier(rs, x, y)
  PROVE  InSome(rs, x) /\ InSome(rs, y)
BY DEF Earlier, InSome

\* mmap gives the heap one more region.
Maps(rs, ss, a, size) ==
  FreshRegion(rs, a, size) /\ ss = Append(rs, [addr |-> a, size |-> size])

\* A region that is mapped comes last, and changes nothing between the others.
LEMMA EarlierMapped ==
  ASSUME NEW rs, RegionsApart(rs), NEW ss, NEW a, NEW size, Maps(rs, ss, a, size)
  PROVE  /\ \A x \in Int, y \in Int : InSome(rs, y) => (Earlier(ss, x, y) <=> Earlier(rs, x, y))
         /\ \A x, y \in Int : InSome(rs, x) /\ Inside(y, a, size) => Earlier(ss, x, y)
         /\ \A x, y \in Int : Inside(x, a, size) /\ Inside(y, a, size) /\ x < y
                                => Earlier(ss, x, y)
<1> DEFINE new == [addr |-> a, size |-> size]
           n == Len(rs) + 1
<1>1. /\ DOMAIN ss = DOMAIN rs \cup {n}
      /\ ss[n] = new
      /\ \A i \in DOMAIN rs : ss[i] = rs[i] /\ i < n /\ i \in Nat
      /\ n \in Nat
  <2> HIDE DEF new
  <2>1. rs \in Seq([addr : Nat, size : Nat]) /\ ss = Append(rs, new)
    BY DEF RegionsApart, Maps, new
  <2> QED
    BY <2>1
<1> HIDE DEF n
<1>2. RegionsApart(ss)
  BY RegionsStayApart DEF Maps
<1>3. ASSUME NEW x \in Int, NEW y \in Int, InSome(rs, y), Earlier(ss, x, y)
      PROVE  Earlier(rs, x, y)
  <2>1. PICK k \in DOMAIN rs : Inside(y, rs[k].addr, rs[k].size)
    BY <1>3 DEF InSome
  <2>2. PICK i, j \in DOMAIN ss : /\ Inside(x, ss[i].addr, ss[i].size)
                                  /\ Inside(y, ss[j].addr, ss[j].size)
                                  /\ i < j \/ (i = j /\ x < y)
    BY <1>3 DEF Earlier
  <2>3. j = k
    BY <1>1, <1>2, <2>1, <2>2, OneRegion
  <2>4. i \in DOMAIN rs
    BY <1>1, <2>2, <2>3
  <2> QED
    BY <1>1, <2>2, <2>3, <2>4 DEF Earlier
<1>4. ASSUME NEW x \in Int, NEW y \in Int, Earlier(rs, x, y)
      PROVE  Earlier(ss, x, y)
  BY <1>1, <1>4 DEF Earlier
<1>5. ASSUME NEW x \in Int, NEW y \in Int, InSome(rs, x), Inside(y, a, size)
      PROVE  Earlier(ss, x, y)
  <2>1. PICK i \in DOMAIN rs : Inside(x, rs[i].addr, rs[i].size)
    BY <1>5 DEF InSome
  <2>2. /\ i \in DOMAIN ss /\ Inside(x, ss[i].addr, ss[i].size) /\ i < n
        /\ n \in DOMAIN ss /\ Inside(y, ss[n].addr, ss[n].size)
    BY <1>1, <1>5, <2>1
  <2> QED
    BY <2>2 DEF Earlier
<1>6. ASSUME NEW x \in Int, NEW y \in Int,
             Inside(x, a, size), Inside(y, a, size), x < y
      PROVE  Earlier(ss, x, y)
  <2>1. n \in DOMAIN ss /\ ss[n].addr = a /\ ss[n].size = size
    BY <1>1
  <2> QED
    BY <1>6, <2>1 DEF Earlier
<1> QED
  BY <1>3, <1>4, <1>5, <1>6

\* The bytes of blocks are bytes of the heap.
LEMMA BlockBytes ==
  ASSUME NEW h, NEW rs, Layout(h, rs), NEW b \in DOMAIN h,
         NEW x \in b .. block_after(h, b) - 1
  PROVE  InSome(rs, x)
<1>1. /\ b \in Nat /\ block_after(h, b) \in Nat /\ block_after(h, b) <= ADDRESS_TOP
      /\ ADDRESS_TOP \in Nat
  BY BlockNumbers, AddressAssumption DEF Layout
<1>2. x \in 0 .. ADDRESS_TOP /\ b <= x /\ x < block_after(h, b)
  BY <1>1
<1> QED
  BY <1>2 DEF Layout, Covers, InSome

LEMMA BlockStarts ==
  ASSUME NEW h, NEW rs, Layout(h, rs), NEW b \in DOMAIN h
  PROVE  /\ InSome(rs, b)
         /\ b \in Int /\ h[b].next \in Int /\ block_after(h, b) \in Int
         /\ b \in b .. block_after(h, b) - 1
<1>1. /\ b \in Int /\ h[b].next \in Int /\ block_after(h, b) \in Int
      /\ b < block_after(h, b)
  BY BlockNumbers, SizesAssumption DEF Layout
<1>2. b \in b .. block_after(h, b) - 1
  BY <1>1
<1> QED
  BY <1>1, <1>2, BlockBytes
-----------------------------------------------------------------------------
(* Merging, splitting, marking and growing keep the list in order.         *)

\* The absorbed block was the next in the order, and its successor is the one
\* after that.
LEMMA MergeKeepsOrder ==
  ASSUME NEW h, NEW rs, NEW b \in DOMAIN h, NEW g,
         RegionsApart(rs), Layout(h, rs), Ordered(h, rs), IsMerge(h, g, b)
  PROVE  Ordered(g, rs)
<1> DEFINE n == h[b].next
           m == h[n].next
<1>1. /\ n \in DOMAIN h /\ n # b /\ n = block_after(h, b)
      /\ DOMAIN g = DOMAIN h \ {n}
      /\ \A c \in DOMAIN g : c # b => g[c] = h[c]
      /\ g[b].next = m
      /\ block_after(g, b) = block_after(h, n)
  BY DEF IsMerge
<1>2. /\ b \in Int /\ n \in Int /\ m \in Int /\ block_after(h, n) \in Int /\ n # NULL
  BY <1>1, BlockStarts, BlockNumbers DEF Layout, NULL
<1>3. n \in n .. block_after(h, n) - 1
  BY <1>1, BlockStarts
<1> HIDE DEF n, m
<1>4. ASSUME NEW x \in b .. block_after(g, b) - 1
      PROVE  \/ x \in b .. block_after(h, b) - 1 /\ Earlier(rs, x, n)
             \/ x \in n .. block_after(h, n) - 1 /\ (x = n \/ Earlier(rs, n, x))
  <2>1. CASE x < n
    <3>1. x \in b .. block_after(h, b) - 1
      BY <1>1, <1>2, <2>1
    <3> QED
      BY <1>2, <3>1 DEF Ordered, n
  <2>2. CASE n <= x
    <3>1. x \in n .. block_after(h, n) - 1 /\ (n < x \/ x = n)
      BY <1>1, <1>2, <2>2
    <3> QED
      BY <1>1, <1>3, <3>1 DEF Ordered
  <2> QED
    BY <1>2, <2>1, <2>2
<1>5. \A x \in b .. block_after(g, b) - 1 : x \in Int
  OBVIOUS
<1>6. ASSUME NEW x \in b .. block_after(g, b) - 1,
             NEW y \in b .. block_after(g, b) - 1, x < y
      PROVE  Earlier(rs, x, y)
  <2>1. CASE x < n /\ y < n
    <3>1. x \in b .. block_after(h, b) - 1 /\ y \in b .. block_after(h, b) - 1
      BY <1>1, <1>2, <2>1
    <3> QED
      BY <1>6, <3>1 DEF Ordered
  <2>2. CASE x < n /\ n <= y
    <3>1. Earlier(rs, x, n) /\ (y = n \/ Earlier(rs, n, y))
      <4>1. ~(x \in n .. block_after(h, n) - 1) /\ ~(y \in b .. block_after(h, b) - 1)
        BY <1>1, <1>2, <2>2
      <4> QED
        BY <1>4, <4>1
    <3> QED
      BY <1>2, <1>5, <3>1, EarlierTransitive
  <2>3. CASE n <= x
    <3>1. x \in n .. block_after(h, n) - 1 /\ y \in n .. block_after(h, n) - 1
      BY <1>1, <1>2, <1>6, <2>3
    <3> QED
      BY <1>1, <1>6, <3>1 DEF Ordered
  <2> QED
    BY <1>2, <1>6, <2>1, <2>2, <2>3
<1>7. ASSUME NEW x \in b .. block_after(g, b) - 1, m # NULL
      PROVE  Earlier(rs, x, m)
  <2>1. \A y \in n .. block_after(h, n) - 1 : Earlier(rs, y, m)
    BY <1>1, <1>7 DEF Ordered, m
  <2> QED
    BY <1>2, <1>3, <1>4, <1>5, <2>1, EarlierTransitive
<1>8. ASSUME NEW c \in DOMAIN g, c # b
      PROVE  /\ c \in DOMAIN h /\ g[c].next = h[c].next
             /\ block_after(g, c) = block_after(h, c)
  BY <1>1, <1>8 DEF block_after
<1> QED
  BY <1>1, <1>6, <1>7, <1>8 DEF Ordered

\* The list misses the absorbed block, and nothing else.
LEMMA MergeKeepsChain ==
  ASSUME NEW h, NEW rs, NEW S, NEW b \in DOMAIN h, NEW g,
         RegionsApart(rs), Layout(h, rs), Ordered(h, rs), Chained(h, rs, S),
         IsMerge(h, g, b)
  PROVE  Chained(g, rs, S)
<1> DEFINE n == h[b].next
           m == h[n].next
<1>1. /\ n \in DOMAIN h /\ n # b
      /\ DOMAIN g = DOMAIN h \ {n}
      /\ \A c \in DOMAIN g : c # b => g[c] = h[c]
      /\ g[b].next = m
  BY DEF IsMerge
<1>2. n # NULL /\ b \in Int /\ n \in Int
  BY <1>1, BlockNumbers DEF Layout, NULL
<1>3. b \notin S /\ n \notin S
  BY <1>2 DEF Chained
<1>4. Earlier(rs, b, n)
  BY <1>2, BlockStarts DEF Ordered
<1> HIDE DEF n, m
<1>5. \A c \in S : c \in DOMAIN g /\ g[c] = h[c]
  BY <1>1, <1>3 DEF Chained
<1>6. \A c \in DOMAIN g : g[c].next \notin S
  BY <1>1 DEF Chained, m
<1>7. ASSUME NEW c \in DOMAIN g \ S, NEW d \in DOMAIN g \ S, Earlier(rs, c, d)
      PROVE  g[c].next # NULL /\ (d = g[c].next \/ Earlier(rs, g[c].next, d))
  <2>1. CASE c # b
    BY <1>1, <1>7, <2>1 DEF Chained
  <2>2. CASE c = b
    <3>1. Earlier(rs, n, d)
      BY <1>1, <1>7, <2>2 DEF Chained, n
    <3> QED
      BY <1>1, <1>3, <2>2, <3>1 DEF Chained, m
  <2> QED
    BY <2>1, <2>2
<1>8. HEAP_START # n
  <2>1. b = HEAP_START \/ Earlier(rs, HEAP_START, b)
    BY <1>3 DEF Chained
  <2> QED
    BY <1>1, <1>2, <1>4, <2>1, EarlierStrict
<1>9. \A c \in DOMAIN g \ S :
        HEAP_START \in DOMAIN g /\ (c = HEAP_START \/ Earlier(rs, HEAP_START, c))
  BY <1>1, <1>8 DEF Chained
<1> QED
  BY <1>5, <1>6, <1>7, <1>9 DEF Chained

\* The rest of a block that is split comes between it and its successor.
LEMMA SplitKeepsOrder ==
  ASSUME NEW h, NEW rs, NEW b \in DOMAIN h, NEW q, NEW g,
         RegionsApart(rs), Layout(h, rs), Ordered(h, rs), IsSplit(h, g, b, q)
  PROVE  Ordered(g, rs)
<1> DEFINE r == contents(b) + q
<1>1. /\ r \in Nat /\ b < r /\ r < block_after(h, b)
      /\ DOMAIN g = DOMAIN h \cup {r} /\ r \notin DOMAIN h
      /\ \A c \in DOMAIN h : c # b => g[c] = h[c]
      /\ g[b].next = r /\ g[r].next = h[b].next
      /\ block_after(g, b) = r
      /\ block_after(g, r) = block_after(h, b)
  BY DEF IsSplit
<1> HIDE DEF r
<1>2. b \in Int /\ block_after(h, b) \in Int
  BY BlockStarts
<1>3. /\ \A x \in b .. r - 1 : x \in b .. block_after(h, b) - 1 /\ x < r
      /\ \A x \in r .. block_after(h, b) - 1 : x \in b .. block_after(h, b) - 1
      /\ r \in b .. block_after(h, b) - 1
  BY <1>1, <1>2
<1>4. \A x \in b .. r - 1 : /\ \A y \in b .. r - 1 : x < y => Earlier(rs, x, y)
                            /\ Earlier(rs, x, r)
  BY <1>3 DEF Ordered
<1>5. \A x \in r .. block_after(h, b) - 1 :
        /\ \A y \in r .. block_after(h, b) - 1 : x < y => Earlier(rs, x, y)
        /\ h[b].next # NULL => Earlier(rs, x, h[b].next)
  BY <1>3 DEF Ordered
<1>6. ASSUME NEW c \in DOMAIN h, c # b
      PROVE  g[c].next = h[c].next /\ block_after(g, c) = block_after(h, c)
  BY <1>1, <1>6 DEF block_after
<1> QED
  BY <1>1, <1>4, <1>5, <1>6 DEF Ordered

LEMMA SplitKeepsChain ==
  ASSUME NEW h, NEW rs, NEW S, NEW b \in DOMAIN h \ S, NEW q, NEW g,
         RegionsApart(rs), Layout(h, rs), Ordered(h, rs), Chained(h, rs, S),
         IsSplit(h, g, b, q)
  PROVE  Chained(g, rs, S)
<1> DEFINE r == contents(b) + q
           n == h[b].next
<1>1. /\ r \in Nat /\ b < r /\ r < block_after(h, b)
      /\ DOMAIN g = DOMAIN h \cup {r} /\ r \notin DOMAIN h
      /\ \A c \in DOMAIN h : c # b => g[c] = h[c]
      /\ g[b].next = r /\ g[r].next = n
  BY DEF IsSplit
<1> HIDE DEF r
<1>2. /\ r \in Int /\ r # NULL /\ r \notin S
      /\ \A c \in DOMAIN h : c \in Int /\ h[c].next \in Int /\ InSome(rs, c)
      /\ b \in Nat /\ block_after(h, b) \in Int
  BY <1>1, BlockStarts, BlockNumbers DEF Chained, Layout, NULL
<1>3. /\ r \in b .. block_after(h, b) - 1
      /\ b \in b .. block_after(h, b) - 1
  BY <1>1, <1>2
<1>4. Earlier(rs, b, r) /\ (n # NULL => Earlier(rs, r, n))
  BY <1>1, <1>3 DEF Ordered
<1> HIDE DEF n
<1>5. ASSUME NEW d \in DOMAIN h \ S, Earlier(rs, b, d)
      PROVE  /\ n # NULL /\ (d = n \/ Earlier(rs, n, d))
             /\ Earlier(rs, r, d)
  <2>1. n # NULL /\ (d = n \/ Earlier(rs, n, d))
    BY <1>5 DEF Chained, n
  <2> QED
    BY <1>2, <1>4, <2>1, EarlierTransitive DEF n
<1>6. ASSUME NEW c \in DOMAIN h \ S, Earlier(rs, c, r), c # b
      PROVE  h[c].next # NULL /\ Earlier(rs, h[c].next, r)
  <2>1. Earlier(rs, c, b)
    <3>1. Earlier(rs, b, c) => Earlier(rs, r, c)
      BY <1>5
    <3> QED
      BY <1>2, <1>6, <3>1, EarlierTotal, EarlierStrict
  <2>2. h[c].next # NULL /\ (b = h[c].next \/ Earlier(rs, h[c].next, b))
    BY <2>1 DEF Chained
  <2> QED
    BY <1>2, <1>4, <2>2, EarlierTransitive
<1>7. ASSUME NEW c \in DOMAIN g \ S, NEW d \in DOMAIN g \ S, Earlier(rs, c, d)
      PROVE  g[c].next # NULL /\ (d = g[c].next \/ Earlier(rs, g[c].next, d))
  <2>1. CASE c = b
    BY <1>1, <1>2, <1>5, <1>7, <2>1
  <2>2. CASE c = r
    <3>1. d # r /\ Earlier(rs, b, d)
      BY <1>1, <1>2, <1>4, <1>7, <2>2, EarlierStrict, EarlierTransitive
    <3> QED
      BY <1>1, <1>5, <2>2, <3>1
  <2>3. CASE c \in DOMAIN h \ {b} /\ d = r
    BY <1>1, <1>6, <1>7, <2>3
  <2>4. CASE c \in DOMAIN h \ {b} /\ d \in DOMAIN h
    BY <1>1, <1>7, <2>4 DEF Chained
  <2> QED
    BY <1>1, <2>1, <2>2, <2>3, <2>4
<1>8. ASSUME NEW c \in DOMAIN g \ S
      PROVE  HEAP_START \in DOMAIN g /\ (c = HEAP_START \/ Earlier(rs, HEAP_START, c))
  <2>1. HEAP_START \in DOMAIN h /\ (b = HEAP_START \/ Earlier(rs, HEAP_START, b))
    BY DEF Chained
  <2>2. CASE c = r
    BY <1>1, <1>2, <1>4, <2>1, <2>2, EarlierTransitive
  <2>3. CASE c # r
    BY <1>1, <2>1, <2>3 DEF Chained
  <2> QED
    BY <2>2, <2>3
<1>9. \A c \in S : c \in DOMAIN g /\ g[c] = h[c]
  BY <1>1 DEF Chained
<1>10. \A c \in DOMAIN g : g[c].next \notin S
  BY <1>1, <1>2 DEF Chained, n
<1> QED
  BY <1>7, <1>8, <1>9, <1>10 DEF Chained

\* Marks have no part in it, but for stray heads being free.
LEMMA SameLinks ==
  ASSUME NEW h, NEW rs, NEW S, NEW g, DOMAIN g = DOMAIN h,
         \A c \in DOMAIN h : g[c].next = h[c].next /\ g[c].capacity = h[c].capacity,
         \A c \in S : g[c].is_free,
         Ordered(h, rs), Chained(h, rs, S)
  PROVE  Ordered(g, rs) /\ Chained(g, rs, S)
<1>1. \A c \in DOMAIN h : block_after(g, c) = block_after(h, c)
  BY DEF block_after
<1>2. Ordered(g, rs)
  BY <1>1 DEF Ordered
<1>3. Chained(g, rs, S)
  BY DEF Chained
<1> QED
  BY <1>2, <1>3

\* The bytes of a block that is laid over a new region are in order.
LEMMA NewBlockInOrder ==
  ASSUME NEW h, NEW rs, RegionsApart(rs), Layout(h, rs),
         NEW ss, NEW a, NEW size, Maps(rs, ss, a, size),
         NEW x \in a .. a + size - 1
  PROVE  /\ \A y \in a .. a + size - 1 : x < y => Earlier(ss, x, y)
         /\ \A y \in Int : InSome(rs, y) => Earlier(ss, y, x) /\ ~Earlier(ss, x, y)
<1>1. a \in Nat /\ size \in Nat
  BY DEF Maps, FreshRegion
<1>2. \A y \in a .. a + size - 1 : y \in Int /\ Inside(y, a, size)
  BY <1>1 DEF Inside
<1>3. RegionsApart(ss)
  BY RegionsStayApart DEF Maps
<1> QED
  BY <1>2, <1>3, EarlierMapped, EarlierStrict

\* What was in order stays so when a region is mapped, and a region that is
\* chained to a block is behind it.
LEMMA NewBlockKeepsOrder ==
  ASSUME NEW h, NEW rs, RegionsApart(rs), Layout(h, rs), Ordered(h, rs),
         NEW ss, NEW a, NEW size, Maps(rs, ss, a, size),
         NEW g, DOMAIN g = DOMAIN h \cup {a}, a \notin DOMAIN h,
         \A c \in DOMAIN h : /\ g[c].next \in {h[c].next, a}
                             /\ block_after(g, c) = block_after(h, c),
         g[a].next = NULL, block_after(g, a) = a + size
  PROVE  Ordered(g, ss)
<1>1. a \in Nat /\ size \in Nat /\ a \in a .. a + size - 1
  BY SizesAssumption DEF Maps, FreshRegion
<1>2. ASSUME NEW c \in DOMAIN h, NEW x \in c .. block_after(h, c) - 1
      PROVE  /\ x \in Int /\ InSome(rs, x)
             /\ \A y \in c .. block_after(h, c) - 1 : x < y => Earlier(ss, x, y)
             /\ g[c].next # NULL => Earlier(ss, x, g[c].next)
  <2>1. x \in Int /\ InSome(rs, x)
    BY <1>2, BlockBytes
  <2>2. \A y \in c .. block_after(h, c) - 1 : y \in Int /\ InSome(rs, y)
    BY BlockBytes
  <2>3. \A y \in c .. block_after(h, c) - 1 : x < y => Earlier(ss, x, y)
    BY <2>1, <2>2, EarlierMapped DEF Ordered
  <2>4. ASSUME h[c].next # NULL PROVE Earlier(ss, x, h[c].next)
    <3>1. h[c].next \in DOMAIN h
      BY <2>4 DEF Layout, NextValid
    <3>2. h[c].next \in Int /\ InSome(rs, h[c].next) /\ Earlier(rs, x, h[c].next)
      BY <2>4, <3>1, BlockStarts DEF Ordered
    <3> QED
      BY <2>1, <3>2, EarlierMapped
  <2>5. Earlier(ss, x, a)
    BY <1>1, <2>1, NewBlockInOrder
  <2> QED
    BY <2>1, <2>3, <2>4, <2>5
<1>3. \A x \in a .. a + size - 1 : \A y \in a .. a + size - 1 : x < y => Earlier(ss, x, y)
  BY NewBlockInOrder
<1>4. ASSUME NEW c \in DOMAIN g, NEW x \in c .. block_after(g, c) - 1
      PROVE  /\ \A y \in c .. block_after(g, c) - 1 : x < y => Earlier(ss, x, y)
             /\ g[c].next # NULL => Earlier(ss, x, g[c].next)
  <2>1. CASE c = a
    <3>1. block_after(g, c) = a + size /\ g[c].next = NULL
      BY <2>1
    <3>2. c .. block_after(g, c) - 1 = a .. a + size - 1
      BY <1>1, <2>1, <3>1
    <3> QED
      BY <1>3, <3>1, <3>2
  <2>2. CASE c # a
    <3>1. c \in DOMAIN h /\ block_after(g, c) = block_after(h, c)
      BY <2>2
    <3> QED
      BY <1>2, <3>1
  <2> QED
    BY <2>1, <2>2
<1> QED
  BY <1>4 DEF Ordered

\* heap_init at HEAP_START begins the list, and elsewhere leaves it alone.
LEMMA NewHeapKeepsChain ==
  ASSUME NEW h, NEW rs, RegionsApart(rs), Layout(h, rs),
         NEW ss, NEW a, NEW size, Maps(rs, ss, a, size),
         NEW g, IsNewBlock(h, g, a, size),
         NEW S, Chained(h, rs, S \ {HEAP_START})
  PROVE  Chained(g, ss, (S \cup {a}) \ {HEAP_START})
<1> DEFINE T == S \ {HEAP_START}
           U == (S \cup {a}) \ {HEAP_START}
<1>1. /\ a \in Nat /\ a # NULL /\ a \notin DOMAIN h
      /\ DOMAIN g = DOMAIN h \cup {a}
      /\ \A c \in DOMAIN h : g[c] = h[c]
      /\ g[a].next = NULL /\ g[a].is_free
      /\ block_after(g, a) = a + size
  BY DEF IsNewBlock, Maps, FreshRegion, IsPageAddress, NULL
<1>2. \A c \in DOMAIN h : c \in Int /\ InSome(rs, c)
  BY BlockStarts
<1>3. \A c \in DOMAIN h : h[c].next = NULL \/ h[c].next \in DOMAIN h
  BY DEF Layout, NextValid
<1>4. Chained(h, rs, T)
  OBVIOUS
<1>5. U = IF a = HEAP_START THEN T ELSE T \cup {a}
  OBVIOUS
<1>6. T \subseteq DOMAIN h /\ \A c \in DOMAIN h : h[c].next \notin T
  BY <1>4 DEF Chained
<1> SUFFICES Chained(g, ss, U)
  OBVIOUS
<1> HIDE DEF T, U
<1>7. \A c \in U : c \in DOMAIN g /\ g[c].is_free /\ g[c].next = NULL
  BY <1>1, <1>4, <1>5 DEF Chained
<1>8. \A c \in DOMAIN g : g[c].next \notin U
  <2>1. NULL \notin T
    BY <1>6, BlockNumbers DEF Layout, NULL
  <2> QED
    BY <1>1, <1>3, <1>5, <1>6, <2>1
<1>9. CASE a = HEAP_START
  <2>1. DOMAIN h \ T = {} /\ DOMAIN g \ U = {a}
    BY <1>1, <1>4, <1>5, <1>6, <1>9 DEF Chained
  <2>2. a \in a .. a + size - 1 /\ a \in Int /\ RegionsApart(ss)
    BY <1>1, SizesAssumption, RegionsStayApart DEF Maps, FreshRegion
  <2>3. ~Earlier(ss, a, a)
    BY <2>2, EarlierStrict
  <2> QED
    BY <1>1, <1>7, <1>8, <1>9, <2>1, <2>3 DEF Chained
<1>10. CASE a # HEAP_START
  <2>1. DOMAIN g \ U = DOMAIN h \ T
    BY <1>1, <1>5, <1>10
  <2>2. ASSUME NEW c \in DOMAIN h \ T, NEW d \in DOMAIN h \ T, Earlier(ss, c, d)
        PROVE  g[c].next # NULL /\ (d = g[c].next \/ Earlier(ss, g[c].next, d))
    <3>1. Earlier(rs, c, d)
      BY <1>2, <2>2, EarlierMapped
    <3>2. h[c].next # NULL /\ (d = h[c].next \/ Earlier(rs, h[c].next, d))
      BY <1>4, <3>1 DEF Chained
    <3> QED
      BY <1>1, <1>2, <1>3, <3>2, EarlierMapped
  <2>3. ASSUME NEW c \in DOMAIN h \ T
        PROVE  HEAP_START \in DOMAIN g /\ (c = HEAP_START \/ Earlier(ss, HEAP_START, c))
    <3>1. HEAP_START \in DOMAIN h /\ (c = HEAP_START \/ Earlier(rs, HEAP_START, c))
      BY <1>4 DEF Chained
    <3> QED
      BY <1>1, <1>2, <3>1, EarlierMapped
  <2>4. \A c, d \in DOMAIN g \ U : Earlier(ss, c, d) =>
          g[c].next # NULL /\ (d = g[c].next \/ Earlier(ss, g[c].next, d))
    BY <2>1, <2>2
  <2>5. \A c \in DOMAIN g \ U :
          HEAP_START \in DOMAIN g /\ (c = HEAP_START \/ Earlier(ss, HEAP_START, c))
    BY <2>1, <2>3
  <2> QED
    BY <1>7, <1>8, <2>4, <2>5 DEF Chained
<1> QED
  BY <1>9, <1>10

\* A region that is chained to the last block of the list continues it.
LEMMA GrowKeepsChain ==
  ASSUME NEW h, NEW rs, RegionsApart(rs), Layout(h, rs),
         NEW S, Chained(h, rs, S),
         NEW ss, NEW a, NEW size, Maps(rs, ss, a, size),
         NEW b \in DOMAIN h \ S, h[b].next = NULL,
         NEW g, DOMAIN g = DOMAIN h \cup {a}, a \notin DOMAIN h,
         \A c \in DOMAIN h \ {b} : g[c] = h[c],
         g[b].next = a, g[a].next = NULL
  PROVE  Chained(g, ss, S)
<1>1. a \in Nat /\ a \in Int /\ a # NULL /\ a \in a .. a + size - 1
  BY SizesAssumption DEF Maps, FreshRegion, IsPageAddress, NULL
<1>2. \A c \in DOMAIN h : c \in Int /\ InSome(rs, c)
  BY BlockStarts
<1>3. \A c \in DOMAIN h : h[c].next = NULL \/ h[c].next \in DOMAIN h
  BY DEF Layout, NextValid
<1>4. S \subseteq DOMAIN h /\ a \notin S
  BY DEF Chained
<1>5. \A c \in DOMAIN h : Earlier(ss, c, a) /\ ~Earlier(ss, a, c)
  BY <1>1, <1>2, NewBlockInOrder
<1>6. ~Earlier(ss, a, a)
  BY <1>1, EarlierStrict, RegionsStayApart DEF Maps
<1>7. \A d \in DOMAIN h \ S : ~Earlier(rs, b, d)
  BY DEF Chained
<1>8. ASSUME NEW c \in DOMAIN g \ S, NEW d \in DOMAIN g \ S, Earlier(ss, c, d)
      PROVE  g[c].next # NULL /\ (d = g[c].next \/ Earlier(ss, g[c].next, d))
  <2>1. c # a /\ c \in DOMAIN h \ S
    BY <1>5, <1>6, <1>8
  <2>2. CASE d = a /\ c = b
    BY <1>1, <2>2
  <2>3. CASE d = a /\ c # b
    <3>1. Earlier(rs, c, b)
      BY <1>2, <1>7, <2>1, <2>3, EarlierTotal
    <3>2. h[c].next # NULL
      BY <2>1, <3>1 DEF Chained
    <3> QED
      BY <1>3, <1>5, <2>1, <2>3, <3>2
  <2>4. CASE d # a
    <3>1. d \in DOMAIN h \ S /\ Earlier(rs, c, d)
      BY <1>2, <1>8, <2>1, <2>4, EarlierMapped
    <3>2. c # b /\ h[c].next # NULL /\ (d = h[c].next \/ Earlier(rs, h[c].next, d))
      BY <1>7, <2>1, <3>1 DEF Chained
    <3> QED
      BY <1>2, <1>3, <2>1, <3>1, <3>2, EarlierMapped
  <2> QED
    BY <2>2, <2>3, <2>4
<1>9. ASSUME NEW c \in DOMAIN g \ S
      PROVE  HEAP_START \in DOMAIN g /\ (c = HEAP_START \/ Earlier(ss, HEAP_START, c))
  <2>1. HEAP_START \in DOMAIN h
    BY DEF Chained
  <2>2. CASE c = a
    BY <1>5, <2>1, <2>2
  <2>3. CASE c # a
    <3>1. c \in DOMAIN h /\ (c = HEAP_START \/ Earlier(rs, HEAP_START, c))
      BY <2>3 DEF Chained
    <3> QED
      BY <1>2, <2>1, <3>1, EarlierMapped
  <2> QED
    BY <2>2, <2>3
<1>10. \A c \in S : c \in DOMAIN g /\ g[c].is_free /\ g[c].next = NULL
  BY DEF Chained
<1>11. \A c \in DOMAIN g : g[c].next \notin S
  <2>1. NULL \notin S
    BY BlockNumbers DEF Chained, Layout, NULL
  <2> QED
    BY <1>4, <2>1 DEF Chained
<1> QED
  BY <1>8, <1>9, <1>10, <1>11 DEF Chained

-----------------------------------------------------------------------------
(* ListInv of any state of the heap, and one lemma per action.             *)

\* IsPassed, of any headers and query.
Passed(h, q, b) == h[b].is_free => ~CanMerge(h, b) /\ ~block_is_big_enough(h, q, b)

\* The running call is at block c of the list.
AtBlock(h, rs, S, at, c, q) ==
  /\ at \in {"search", "grow", "free"} => c \in DOMAIN h \ S
  /\ at = "search" => \A b \in DOMAIN h \ S : Earlier(rs, b, c) => Passed(h, q, b)
  /\ at = "grow" => \A b \in DOMAIN h \ S : Passed(h, q, b)

InList(h, rs, S, at, c, q) ==
  Ordered(h, rs) /\ Chained(h, rs, S) /\ AtBlock(h, rs, S, at, c, q)

LEMMA ListInvIs ==
  /\ ListInv <=> InList(hdr, regions, heads \ {HEAP_START}, pc, cur, query)
  /\ ListInv' <=> InList(hdr', regions', heads' \ {HEAP_START}, pc', cur', query')
<1>1. /\ \A x, y : Before(x, y) <=> Earlier(regions, x, y)
      /\ \A b : IsPassed(b) <=> Passed(hdr, query, b)
      /\ Listed = DOMAIN hdr \ (heads \ {HEAP_START})
      /\ StrayHeads = heads \ {HEAP_START}
  BY DEF Before, InRegion, Earlier, IsPassed, Passed, Listed, Blocks, StrayHeads
<1>2. /\ \A x, y : Before(x, y)' <=> Earlier(regions', x, y)
      /\ \A b : IsPassed(b)' <=> Passed(hdr', query', b)
      /\ Listed' = DOMAIN hdr' \ (heads' \ {HEAP_START})
      /\ StrayHeads' = heads' \ {HEAP_START}
  BY DEF Before, InRegion, Earlier, IsPassed, Passed, Listed, Blocks, StrayHeads
<1>3. ListInv <=> InList(hdr, regions, heads \ {HEAP_START}, pc, cur, query)
  BY <1>1 DEF ListInv, SearchedBlocksAreUnfit, InList, AtBlock
<1>4. ListInv' <=> InList(hdr', regions', heads' \ {HEAP_START}, pc', cur', query')
  BY <1>2 DEF ListInv, SearchedBlocksAreUnfit, InList, AtBlock
<1> QED
  BY <1>3, <1>4

\* What the two invariants say of a state, in the form the steps use.
LEMMA ListFacts ==
  ASSUME HInv, ListInv
  PROVE  LET S == heads \ {HEAP_START}
         IN  /\ RegionsApart(regions) /\ Layout(hdr, regions)
             /\ Ordered(hdr, regions) /\ Chained(hdr, regions, S)
             /\ AtBlock(hdr, regions, S, pc, cur, query)
             /\ \A b \in DOMAIN hdr : /\ b \in Int /\ hdr[b].next \in Int
                                      /\ InSome(regions, b)
                                      /\ hdr[b].next # NULL => hdr[b].next \in DOMAIN hdr
                                      /\ IsPassed(b) <=> Passed(hdr, query, b)
<1>1. RegionsApart(regions) /\ Layout(hdr, regions)
  BY InvTypes
<1>2. \A b \in DOMAIN hdr : /\ b \in Int /\ hdr[b].next \in Int
                            /\ InSome(regions, b)
                            /\ hdr[b].next # NULL => hdr[b].next \in DOMAIN hdr
  BY <1>1, BlockStarts DEF Layout, NextValid
<1> QED
  BY <1>1, <1>2, ListInvIs DEF InList, IsPassed, Passed

\* A merge further on in the list changes nothing for a block that was passed.
LEMMA MergeKeepsPassed ==
  ASSUME NEW h, NEW rs, Layout(h, rs), NEW b \in DOMAIN h, NEW g, IsMerge(h, g, b),
         NEW q, NEW c \in DOMAIN g, c # b, Passed(h, q, c)
  PROVE  Passed(g, q, c)
<1> DEFINE n == h[b].next
<1>1. /\ n \in DOMAIN h /\ h[b].is_free /\ g[b].is_free
      /\ g[c] = h[c] /\ c \in DOMAIN h
      /\ \A d \in DOMAIN h : d # b /\ d # n => g[d] = h[d]
  BY DEF IsMerge
<1>2. n # NULL
  BY <1>1, BlockNumbers DEF Layout, NULL
<1>3. h[c].next # n
  BY <1>1, <1>2 DEF Layout, NextValid
<1> HIDE DEF n
<1>4. CanMerge(g, c) => CanMerge(h, c)
  <2> SUFFICES ASSUME CanMerge(g, c) PROVE CanMerge(h, c)
    OBVIOUS
  <2> DEFINE m == h[c].next
  <2>1. /\ m # NULL /\ m \in DOMAIN h /\ h[c].is_free /\ g[m].is_free
        /\ m = block_after(g, c)
    BY <1>1 DEF CanMerge, mergeable, Layout, NextValid
  <2>2. block_after(g, c) = block_after(h, c)
    BY <1>1 DEF block_after
  <2>3. h[m].is_free
    BY <1>1, <1>3, <2>1
  <2> QED
    BY <2>1, <2>2, <2>3 DEF CanMerge, mergeable
<1> QED
  BY <1>1, <1>4 DEF Passed, block_is_big_enough

LEMMA HeapInitList ==
  ASSUME HInv, ListInv, NEW i \in INITIALS, heap_init(i)
  PROVE  ListInv'
<1>1. PICK r \in alloc_region(HEAP_START, i) :
        /\ ~region_is_invalid(r)
        /\ regions' = RegionsWith(r)
        /\ hdr' = block_init(hdr, r.addr, r.size, NULL)
        /\ heads' = heads \cup {r.addr}
  BY DEF heap_init
<1>2. i \in Nat /\ HEAP_START \in Nat
  BY QueryAssumption, AddressAssumption, SizesAssumption
<1>3. r = [addr |-> r.addr, size |-> region_size_for(i), extends |-> r.addr = HEAP_START]
      /\ FreshRegion(regions, r.addr, region_size_for(i))
  BY <1>1, <1>2, AllocRegion, InvTypes DEF region_is_invalid, REGION_INVALID
<1> DEFINE size == region_size_for(i)
           S == heads \ {HEAP_START}
<1>4. r.size = size
  BY <1>3
<1> HIDE DEF size
<1>5. Maps(regions, regions', r.addr, size)
  BY <1>1, <1>3, <1>4 DEF Maps, RegionsWith, size
<1>6. /\ RegionsApart(regions) /\ Layout(hdr, regions)
      /\ Ordered(hdr, regions) /\ Chained(hdr, regions, S)
  BY ListFacts
<1>7. IsNewBlock(hdr, hdr', r.addr, size)
  BY <1>1, <1>4, <1>5, <1>6, NewBlockWrites DEF Maps
<1>8. Ordered(hdr', regions')
  <2>1. /\ r.addr \notin DOMAIN hdr /\ DOMAIN hdr' = DOMAIN hdr \cup {r.addr}
        /\ hdr'[r.addr].next = NULL /\ block_after(hdr', r.addr) = r.addr + size
        /\ \A c \in DOMAIN hdr : hdr'[c] = hdr[c]
    BY <1>7 DEF IsNewBlock
  <2>2. \A c \in DOMAIN hdr : /\ hdr'[c].next \in {hdr[c].next, r.addr}
                              /\ block_after(hdr', c) = block_after(hdr, c)
    BY <2>1 DEF block_after
  <2> QED
    BY <1>5, <1>6, <2>1, <2>2, NewBlockKeepsOrder
<1>9. Chained(hdr', regions', heads' \ {HEAP_START})
  BY <1>1, <1>5, <1>6, <1>7, NewHeapKeepsChain
<1>10. AtBlock(hdr', regions', heads' \ {HEAP_START}, pc', cur', query')
  BY DEF heap_init, AtBlock
<1> QED
  BY <1>8, <1>9, <1>10, ListInvIs DEF InList

\* Nothing comes before HEAP_START.
LEMMA MallocList ==
  ASSUME HInv, ListInv, NEW q \in Nat, malloc(q) \/ malloc_no_heap(q)
  PROVE  ListInv'
<1> DEFINE S == heads \ {HEAP_START}
<1>1. /\ regions' = regions /\ hdr' = hdr /\ heads' = heads
      /\ \/ pc' = "search" /\ cur' = HEAP_START /\ HEAP_START \in DOMAIN hdr
         \/ pc' = "undefined"
  BY DEF malloc, malloc_no_heap
<1>2. /\ RegionsApart(regions) /\ Ordered(hdr, regions) /\ Chained(hdr, regions, S)
      /\ \A b \in DOMAIN hdr : b \in Int
  BY ListFacts
<1>3. HEAP_START \in DOMAIN hdr => \A b \in DOMAIN hdr \ S : ~Earlier(regions, b, HEAP_START)
  BY <1>2, EarlierStrict DEF Chained
<1>4. AtBlock(hdr', regions', heads' \ {HEAP_START}, pc', cur', query')
  BY <1>1, <1>3 DEF AtBlock
<1> QED
  BY <1>1, <1>2, <1>4, ListInvIs DEF InList

LEMMA SearchMergeList ==
  ASSUME HInv, ListInv, search_merge
  PROVE  ListInv'
<1> DEFINE S == heads \ {HEAP_START}
<1>1. /\ pc = "search" /\ CanMerge(hdr, cur)
      /\ hdr' = MergedWithNext(hdr, cur)
      /\ UNCHANGED <<regions, pc, cur, query, heads>>
  BY DEF search_merge
<1>2. /\ RegionsApart(regions) /\ Layout(hdr, regions)
      /\ Ordered(hdr, regions) /\ Chained(hdr, regions, S)
      /\ AtBlock(hdr, regions, S, pc, cur, query)
      /\ \A b \in DOMAIN hdr : b \in Int
  BY ListFacts
<1>3. cur \in DOMAIN hdr \ S
  BY <1>1, <1>2 DEF AtBlock
<1>4. IsMerge(hdr, hdr', cur)
  BY <1>1, <1>2, <1>3, MergeWrites
<1>5. Ordered(hdr', regions) /\ Chained(hdr', regions, S)
  BY <1>2, <1>3, <1>4, MergeKeepsOrder, MergeKeepsChain
<1>6. DOMAIN hdr' \subseteq DOMAIN hdr /\ cur \in DOMAIN hdr'
  BY <1>3, <1>4 DEF IsMerge
<1>7. ASSUME NEW b \in DOMAIN hdr' \ S, Earlier(regions, b, cur)
      PROVE  Passed(hdr', query, b)
  <2>1. b # cur
    BY <1>2, <1>3, <1>7, EarlierStrict
  <2>2. Passed(hdr, query, b)
    BY <1>1, <1>2, <1>6, <1>7 DEF AtBlock
  <2> QED
    BY <1>2, <1>3, <1>4, <2>1, <2>2, MergeKeepsPassed
<1>8. AtBlock(hdr', regions', heads' \ {HEAP_START}, pc', cur', query')
  BY <1>1, <1>3, <1>6, <1>7 DEF AtBlock
<1> QED
  BY <1>1, <1>5, <1>8, ListInvIs DEF InList

\* What comes before the successor of a block comes before the block, or is it.
LEMMA SearchNextList ==
  ASSUME HInv, ListInv, search_next
  PROVE  ListInv'
<1> DEFINE S == heads \ {HEAP_START}
           n == hdr[cur].next
<1>1. /\ pc = "search" /\ IsPassed(cur) /\ n # NULL /\ cur' = n
      /\ UNCHANGED <<regions, hdr, pc, query, heads>>
  BY DEF search_next
<1>2. /\ RegionsApart(regions) /\ Ordered(hdr, regions) /\ Chained(hdr, regions, S)
      /\ AtBlock(hdr, regions, S, pc, cur, query)
      /\ \A b \in DOMAIN hdr : b \in Int /\ InSome(regions, b)
      /\ cur \in DOMAIN hdr => n \in DOMAIN hdr /\ Passed(hdr, query, cur)
  BY <1>1, ListFacts
<1>3. cur \in DOMAIN hdr \ S
  BY <1>1, <1>2 DEF AtBlock
<1>4. n \in DOMAIN hdr \ S
  BY <1>2, <1>3 DEF Chained
<1>5. ASSUME NEW b \in DOMAIN hdr \ S, Earlier(regions, b, n)
      PROVE  Passed(hdr, query, b)
  <2>1. ~Earlier(regions, cur, b)
    <3>1. Earlier(regions, cur, b) => b = n \/ Earlier(regions, n, b)
      BY <1>2, <1>3 DEF Chained
    <3> QED
      BY <1>2, <1>4, <1>5, <3>1, EarlierStrict
  <2>2. b = cur \/ Earlier(regions, b, cur)
    BY <1>2, <1>3, <2>1, EarlierTotal
  <2> QED
    BY <1>1, <1>2, <1>3, <2>2 DEF AtBlock
<1>6. AtBlock(hdr', regions', heads' \ {HEAP_START}, pc', cur', query')
  BY <1>1, <1>4, <1>5 DEF AtBlock
<1> QED
  BY <1>1, <1>2, <1>6, ListInvIs DEF InList

LEMMA AllocateList ==
  ASSUME HInv, ListInv, allocate
  PROVE  ListInv'
<1> DEFINE S == heads \ {HEAP_START}
           h == split_if_too_big(hdr, cur, query)
<1>1. /\ pc = "search" /\ hdr[cur].is_free /\ hdr[cur].capacity >= query
      /\ hdr' = [h EXCEPT ![cur].is_free = FALSE]
      /\ pc' = "idle" /\ UNCHANGED <<regions, heads>>
  BY DEF allocate, IsGood, block_is_big_enough, Return
<1>2. /\ RegionsApart(regions) /\ Layout(hdr, regions)
      /\ Ordered(hdr, regions) /\ Chained(hdr, regions, S)
      /\ AtBlock(hdr, regions, S, pc, cur, query)
  BY ListFacts
<1>3. cur \in DOMAIN hdr \ S
  BY <1>1, <1>2 DEF AtBlock
<1>4. query \in Nat /\ query >= BLOCK_MIN_CAPACITY
  BY <1>1, InvTypes, SizesAssumption DEF HInv, RunningCall, size_max
<1> HIDE DEF h
<1>5. cur \in DOMAIN h /\ h \in [DOMAIN h -> Header] /\ Ordered(h, regions) /\ Chained(h, regions, S)
  <2>1. CASE block_splittable(hdr, cur, query)
    <3>1. IsSplit(hdr, h, cur, query) /\ Layout(h, regions)
      BY <1>1, <1>2, <1>3, <1>4, <2>1, SplitWrites, SplitKeepsLayout DEF h
    <3> QED
      BY <1>2, <1>3, <3>1, SplitKeepsOrder, SplitKeepsChain DEF IsSplit, Layout, HeadersTyped
  <2>2. CASE ~block_splittable(hdr, cur, query)
    BY <1>2, <1>3, <2>2 DEF split_if_too_big, h, Layout, HeadersTyped
  <2> QED
    BY <2>1, <2>2
<1>6. /\ DOMAIN hdr' = DOMAIN h
      /\ \A c \in DOMAIN h : hdr'[c].next = h[c].next /\ hdr'[c].capacity = h[c].capacity
      /\ \A c \in DOMAIN h : c # cur => hdr'[c].is_free = h[c].is_free
  BY <1>1, <1>5 DEF Header
<1>7. \A c \in S : hdr'[c].is_free
  BY <1>3, <1>5, <1>6 DEF Chained
<1>8. Ordered(hdr', regions) /\ Chained(hdr', regions, S)
  BY <1>5, <1>6, <1>7, SameLinks
<1>9. AtBlock(hdr', regions', heads' \ {HEAP_START}, pc', cur', query')
  BY <1>1 DEF AtBlock
<1> QED
  BY <1>1, <1>8, <1>9, ListInvIs DEF InList

\* The block without a successor is the last of the list.
LEMMA LastOfList ==
  ASSUME HInv, ListInv, NEW b \in DOMAIN hdr \ (heads \ {HEAP_START}), hdr[b].next = NULL
  PROVE  \A c \in DOMAIN hdr \ (heads \ {HEAP_START}) : c = b \/ Earlier(regions, c, b)
<1> DEFINE S == heads \ {HEAP_START}
<1>1. /\ RegionsApart(regions) /\ Chained(hdr, regions, S)
      /\ \A c \in DOMAIN hdr : c \in Int /\ InSome(regions, c)
  BY ListFacts
<1>2. \A c \in DOMAIN hdr \ S : ~Earlier(regions, b, c)
  BY <1>1 DEF Chained
<1> QED
  BY <1>1, <1>2, EarlierTotal

LEMMA SearchEndList ==
  ASSUME HInv, ListInv, search_end
  PROVE  ListInv'
<1> DEFINE S == heads \ {HEAP_START}
<1>1. /\ pc = "search" /\ pc' = "grow" /\ IsPassed(cur) /\ hdr[cur].next = NULL
      /\ UNCHANGED <<regions, hdr, cur, query, heads>>
  BY DEF search_end
<1>2. /\ Ordered(hdr, regions) /\ Chained(hdr, regions, S)
      /\ AtBlock(hdr, regions, S, pc, cur, query)
      /\ cur \in DOMAIN hdr => Passed(hdr, query, cur)
  BY <1>1, ListFacts
<1>3. cur \in DOMAIN hdr \ S
  BY <1>1, <1>2 DEF AtBlock
<1>4. \A b \in DOMAIN hdr \ S : Passed(hdr, query, b)
  BY <1>1, <1>2, <1>3, LastOfList DEF AtBlock
<1>5. AtBlock(hdr', regions', heads' \ {HEAP_START}, pc', cur', query')
  BY <1>1, <1>3, <1>4 DEF AtBlock
<1> QED
  BY <1>1, <1>2, <1>5, ListInvIs DEF InList

LEMMA GrowFailsList ==
  ASSUME HInv, ListInv, grow_fails
  PROVE  ListInv'
<1>1. PICK r \in alloc_region(block_after(hdr, cur), query) :
        region_is_invalid(r) /\ hdr' = [hdr EXCEPT ![cur].next = r.addr]
  BY DEF grow_fails
<1>2. /\ pc = "grow" /\ cur \in DOMAIN hdr /\ hdr[cur].next = NULL
      /\ pc' = "idle" /\ UNCHANGED <<regions, heads>>
  BY DEF grow_fails, HInv, CursorOnBlock, RunningCall, Return, Blocks
<1>3. /\ DOMAIN hdr' = DOMAIN hdr
      /\ \A c \in DOMAIN hdr : /\ hdr'[c].next = hdr[c].next
                               /\ hdr'[c].capacity = hdr[c].capacity
                               /\ hdr'[c].is_free = hdr[c].is_free
  <2>1. hdr \in [DOMAIN hdr -> Header] /\ r.addr = NULL
    BY <1>1, InvTypes DEF region_is_invalid, Blocks
  <2> QED
    BY <1>1, <1>2, <2>1 DEF Header
<1>4. /\ Ordered(hdr, regions) /\ Chained(hdr, regions, heads \ {HEAP_START})
  BY ListFacts
<1>5. \A c \in heads \ {HEAP_START} : hdr'[c].is_free
  BY <1>3, <1>4 DEF Chained
<1>6. Ordered(hdr', regions) /\ Chained(hdr', regions, heads \ {HEAP_START})
  BY <1>3, <1>4, <1>5, SameLinks
<1>7. AtBlock(hdr', regions', heads' \ {HEAP_START}, pc', cur', query')
  BY <1>2 DEF AtBlock
<1> QED
  BY <1>2, <1>6, <1>7, ListInvIs DEF InList

\* The second search starts at the new region, or at the last block where that
\* has taken the region over; what comes before was passed by the first search.
LEMMA GrowHeapList ==
  ASSUME HInv, ListInv, grow_heap
  PROVE  ListInv'
<1> DEFINE S == heads \ {HEAP_START}
<1>1. PICK a, size, g : IsGrowth(a, size, g)
  BY GrowWrites
<1>2. /\ pc = "grow" /\ cur \in DOMAIN hdr /\ hdr[cur].next = NULL
      /\ pc' = "search" /\ UNCHANGED <<query, heads>>
  BY DEF grow_heap, HInv, CursorOnBlock, RunningCall, Blocks
<1>3. /\ RegionsApart(regions) /\ Layout(hdr, regions)
      /\ Ordered(hdr, regions) /\ Chained(hdr, regions, S)
      /\ AtBlock(hdr, regions, S, pc, cur, query)
      /\ \A b \in DOMAIN hdr : b \in Int /\ (hdr[b].next # NULL => hdr[b].next \in DOMAIN hdr)
  BY ListFacts
<1>4. cur \in DOMAIN hdr \ S /\ \A b \in DOMAIN hdr \ S : Passed(hdr, query, b)
  BY <1>2, <1>3 DEF AtBlock
<1>5. /\ Maps(regions, regions', a, size) /\ Layout(g, regions')
      /\ a \notin DOMAIN hdr /\ DOMAIN g = DOMAIN hdr \cup {a}
      /\ \A c \in DOMAIN hdr \ {cur} : g[c] = hdr[c]
      /\ g[cur].next = a /\ g[a].next = NULL
      /\ g[cur].capacity = hdr[cur].capacity /\ g[cur].is_free = hdr[cur].is_free
      /\ block_after(g, a) = a + size
  BY <1>1 DEF IsGrowth, Maps
<1>6. IF CanMerge(g, cur) THEN hdr' = MergedWithNext(g, cur) /\ cur' = cur
                          ELSE hdr' = g /\ cur' = a
  BY <1>1 DEF IsGrowth
<1>7. RegionsApart(regions') /\ a \in Int /\ a \notin S
  <2>1. RegionsApart(regions')
    BY <1>3, <1>5, RegionsStayApart DEF Maps
  <2>2. a \in Int
    BY <1>5 DEF Maps, FreshRegion
  <2>3. a \notin S
    BY <1>3, <1>5 DEF Chained
  <2> QED
    BY <2>1, <2>2, <2>3
<1>8. \A c \in DOMAIN hdr : block_after(g, c) = block_after(hdr, c)
  BY <1>5 DEF block_after
<1>9. Ordered(g, regions')
  <2>1. \A c \in DOMAIN hdr : /\ g[c].next \in {hdr[c].next, a}
                              /\ block_after(g, c) = block_after(hdr, c)
    BY <1>5, <1>8
  <2> QED
    BY <1>3, <1>5, <2>1, NewBlockKeepsOrder
<1>10. Chained(g, regions', S)
  BY <1>2, <1>3, <1>4, <1>5, GrowKeepsChain
<1>11. ASSUME NEW b \in DOMAIN hdr \ S, b # cur
       PROVE  Passed(g, query, b)
  <2>1. Passed(hdr, query, b) /\ g[b] = hdr[b]
    BY <1>4, <1>5, <1>11
  <2>2. CanMerge(g, b) => CanMerge(hdr, b)
    <3> SUFFICES ASSUME CanMerge(g, b) PROVE CanMerge(hdr, b)
      OBVIOUS
    <3> DEFINE m == hdr[b].next
    <3>1. /\ m # NULL /\ m \in DOMAIN hdr /\ hdr[b].is_free /\ g[m].is_free
          /\ m = block_after(hdr, b)
      BY <1>3, <1>8, <2>1 DEF CanMerge, mergeable
    <3>2. hdr[m].is_free
      BY <1>5, <3>1
    <3> QED
      BY <3>1, <3>2 DEF CanMerge, mergeable
  <2> QED
    BY <2>1, <2>2 DEF Passed, block_is_big_enough
<1>12. CASE CanMerge(g, cur)
  <2>1. hdr' = MergedWithNext(g, cur) /\ cur' = cur
    BY <1>6, <1>12
  <2>2. IsMerge(g, hdr', cur)
    BY <1>2, <1>5, <1>12, <2>1, MergeWrites
  <2>3. Ordered(hdr', regions') /\ Chained(hdr', regions', S)
    BY <1>2, <1>5, <1>7, <1>9, <1>10, <2>2, MergeKeepsOrder, MergeKeepsChain
  <2>4. DOMAIN hdr' = DOMAIN hdr
    <3>1. DOMAIN hdr' = DOMAIN g \ {a}
      BY <1>5, <2>2 DEF IsMerge
    <3> QED
      BY <1>5, <3>1
  <2>5. ASSUME NEW b \in DOMAIN hdr' \ S, Earlier(regions', b, cur)
        PROVE  Passed(hdr', query, b)
    <3>1. b # cur
      BY <1>2, <1>3, <1>7, <2>5, EarlierStrict
    <3>2. Passed(g, query, b)
      BY <1>11, <2>4, <3>1
    <3> QED
      BY <1>2, <1>5, <2>2, <3>1, <3>2, MergeKeepsPassed
  <2>6. AtBlock(hdr', regions', heads' \ {HEAP_START}, pc', cur', query')
    BY <1>2, <1>4, <2>1, <2>4, <2>5 DEF AtBlock
  <2> QED
    BY <1>2, <2>3, <2>6, ListInvIs DEF InList
<1>13. CASE ~CanMerge(g, cur)
  <2>1. hdr' = g /\ cur' = a
    BY <1>6, <1>13
  <2>2. Passed(g, query, cur)
    BY <1>4, <1>5, <1>13 DEF Passed, block_is_big_enough
  <2>3. ASSUME NEW b \in DOMAIN g \ S, Earlier(regions', b, a)
        PROVE  Passed(g, query, b)
    <3>1. b # a
      BY <1>7, <2>3, EarlierStrict
    <3> QED
      BY <1>5, <1>11, <2>2, <3>1
  <2>4. AtBlock(hdr', regions', heads' \ {HEAP_START}, pc', cur', query')
    BY <1>2, <1>5, <1>7, <2>1, <2>3 DEF AtBlock
  <2> QED
    BY <1>2, <1>9, <1>10, <2>1, <2>4, ListInvIs DEF InList
<1> QED
  BY <1>12, <1>13

\* A block in use is on the list: stray heads stay free.
LEMMA FreeList ==
  ASSUME HInv, ListInv, NEW p \in DOMAIN live, free(p)
  PROVE  ListInv'
<1> DEFINE b == block_get_header(p)
           S == heads \ {HEAP_START}
<1>1. /\ hdr' = [hdr EXCEPT ![b].is_free = TRUE]
      /\ pc' = "free" /\ cur' = b /\ UNCHANGED <<regions, heads>>
  BY DEF free
<1>2. b \in DOMAIN hdr /\ ~hdr[b].is_free
  BY DEF HInv, AllocatedBlocks, Blocks
<1> HIDE DEF b
<1>3. Ordered(hdr, regions) /\ Chained(hdr, regions, S)
  BY ListFacts
<1>4. b \notin S
  BY <1>2, <1>3 DEF Chained
<1>5. /\ DOMAIN hdr' = DOMAIN hdr
      /\ \A c \in DOMAIN hdr : hdr'[c].next = hdr[c].next /\ hdr'[c].capacity = hdr[c].capacity
      /\ \A c \in DOMAIN hdr : c # b => hdr'[c] = hdr[c]
  <2>1. hdr \in [DOMAIN hdr -> Header]
    BY InvTypes DEF Blocks
  <2> QED
    BY <1>1, <1>2, <2>1 DEF Header
<1>6. \A c \in S : hdr'[c].is_free
  BY <1>3, <1>4, <1>5 DEF Chained
<1>7. Ordered(hdr', regions) /\ Chained(hdr', regions, S)
  BY <1>3, <1>5, <1>6, SameLinks
<1>8. AtBlock(hdr', regions', heads' \ {HEAP_START}, pc', cur', query')
  BY <1>1, <1>2, <1>4, <1>5 DEF AtBlock
<1> QED
  BY <1>1, <1>7, <1>8, ListInvIs DEF InList

LEMMA FreeMergeList ==
  ASSUME HInv, ListInv, free_merge
  PROVE  ListInv'
<1> DEFINE S == heads \ {HEAP_START}
<1>1. /\ pc = "free" /\ CanMerge(hdr, cur)
      /\ hdr' = MergedWithNext(hdr, cur)
      /\ UNCHANGED <<regions, pc, cur, heads>>
  BY DEF free_merge
<1>2. /\ RegionsApart(regions) /\ Layout(hdr, regions)
      /\ Ordered(hdr, regions) /\ Chained(hdr, regions, S)
      /\ AtBlock(hdr, regions, S, pc, cur, query)
  BY ListFacts
<1>3. cur \in DOMAIN hdr \ S
  BY <1>1, <1>2 DEF AtBlock
<1>4. IsMerge(hdr, hdr', cur)
  BY <1>1, <1>2, <1>3, MergeWrites
<1>5. Ordered(hdr', regions) /\ Chained(hdr', regions, S)
  BY <1>2, <1>3, <1>4, MergeKeepsOrder, MergeKeepsChain
<1>6. cur \in DOMAIN hdr'
  BY <1>3, <1>4 DEF IsMerge
<1>7. AtBlock(hdr', regions', heads' \ {HEAP_START}, pc', cur', query')
  BY <1>1, <1>3, <1>6 DEF AtBlock
<1> QED
  BY <1>1, <1>5, <1>7, ListInvIs DEF InList

\* Steps that change neither headers nor regions, and leave the call where it is
\* or end it.
LEMMA OtherList ==
  ASSUME HInv, ListInv, UNCHANGED <<regions, hdr, heads>>,
         pc' = "idle" \/ UNCHANGED <<pc, cur, query>>
  PROVE  ListInv'
<1>1. InList(hdr, regions, heads \ {HEAP_START}, pc, cur, query)
  BY ListInvIs
<1>2. AtBlock(hdr', regions', heads' \ {HEAP_START}, pc', cur', query')
  BY <1>1 DEF InList, AtBlock
<1> QED
  BY <1>1, <1>2, ListInvIs DEF InList

-----------------------------------------------------------------------------
LEMMA InitList == Init => ListInv
<1> SUFFICES ASSUME Init PROVE ListInv
  OBVIOUS
<1>1. DOMAIN hdr = {} /\ heads = {} /\ pc = "idle"
  BY DEF Init, NoBlocks
<1>2. InList(hdr, regions, heads \ {HEAP_START}, pc, cur, query)
  BY <1>1 DEF InList, Ordered, Chained, AtBlock
<1> QED
  BY <1>2, ListInvIs

LEMMA NextList == HInv /\ ListInv /\ [Next]_vars => ListInv'
<1> SUFFICES ASSUME HInv, ListInv, [Next]_vars PROVE ListInv'
  OBVIOUS
<1>1. ASSUME NEW i \in INITIALS, heap_init(i) PROVE ListInv'
  BY <1>1, HeapInitList
<1>2. ASSUME NEW q \in QUERIES, malloc(q) \/ malloc_no_heap(q) PROVE ListInv'
  BY <1>2, MallocList, QueryAssumption
<1>3. ASSUME NEW p \in DOMAIN live, free(p) PROVE ListInv'
  BY <1>3, FreeList
<1>4. CASE Running
  <2>1. CASE free_return \/ return_last
    BY <2>1, OtherList DEF free_return, return_last, Return
  <2> QED
    BY <1>4, <2>1, SearchMergeList, SearchNextList, AllocateList, SearchEndList,
       GrowFailsList, GrowHeapList, FreeMergeList DEF Running
<1>5. CASE OtherCode
  <2>1. UNCHANGED regions /\ UNCHANGED heapvars
    BY <1>5 DEF OtherCode, ForeignMap, ForeignUnmap
  <2> QED
    BY <2>1, OtherList DEF heapvars
<1>6. CASE UNCHANGED vars
  BY <1>6, OtherList DEF vars, heapvars
<1> QED
  BY <1>1, <1>2, <1>3, <1>4, <1>5, <1>6 DEF Next, Call, Crashed

\* The order of the list holds in every state of every behaviour.
THEOREM ListInvariance == Spec => [](IInv /\ ListInv)
<1>1. Init => ListInv
  BY InitInv, InitList
<1> QED
  BY <1>1, NextList, SpecHInv, Invariance, PTL DEF Spec

LEMMA SpecListInv == Spec => [](HInv /\ ListInv)
BY ListInvariance, SpecHInv, PTL

\* Wherever mmap puts the regions, and after any splits, merges and growths,
\* next leads to a block further on: the list has no cycle and no dangling pointer.
THEOREM NextLeadsOn == Spec => []ListOrdered
<1>1. ASSUME HInv, ListInv
      PROVE  ListOrdered
  <2> SUFFICES ASSUME NEW b \in Blocks, hdr[b].next # NULL
               PROVE  hdr[b].next \in Blocks /\ Before(b, hdr[b].next)
    BY DEF ListOrdered
  <2>1. hdr[b].next \in DOMAIN hdr /\ Layout(hdr, regions) /\ Ordered(hdr, regions)
    BY <1>1, ListFacts DEF Blocks
  <2>2. Earlier(regions, b, hdr[b].next)
    BY <2>1, BlockStarts DEF Ordered, Blocks
  <2> QED
    BY <2>1, <2>2 DEF Earlier, Before, InRegion, Blocks
<1> QED
  BY <1>1, SpecListInv, PTL

\* find_good_or_last is first fit, and grow_heap runs only when no block of the
\* list serves, even after merging.
THEOREM SearchMissesNothing == Spec => []SearchedBlocksAreUnfit
<1>1. ListInv => SearchedBlocksAreUnfit
  BY DEF ListInv
<1> QED
  BY <1>1, SpecListInv, PTL

-----------------------------------------------------------------------------
(***************************************************************************)
(* Every block of the list is reached from HEAP_START.  The inductions go  *)
(* by least elements of well-founded orders.                               *)
(***************************************************************************)

\* The blocks that one more step along the list reaches.
Reached(h, R) == R \cup ({ h[b].next : b \in R } \cap DOMAIN h)

\* The blocks that up to k steps from those of B reach: f is the function that
\* EveryBlockListed defines if f = Walk(h, B, k, f).
Walk(h, B, k, f) == [n \in 0 .. k |-> IF n = 0 THEN B ELSE Reached(h, f[n - 1])]

\* The recursive definition has a solution.
LEMMA WalkExists ==
  ASSUME NEW h, NEW B, NEW k \in Nat
  PROVE  \E f : f = Walk(h, B, k, f)
<1> USE DEF Walk
<1> DEFINE Solved(m) == \E f : f = [n \in 0 .. m |-> IF n = 0 THEN B ELSE Reached(h, f[n - 1])]
           T == { m \in Nat : ~Solved(m) }
<1>1. Solved(0)
  <2> DEFINE f == [n \in 0 .. 0 |-> B]
  <2>1. f = [n \in 0 .. 0 |-> IF n = 0 THEN B ELSE Reached(h, f[n - 1])]
    OBVIOUS
  <2> QED
    BY <2>1
<1>2. ASSUME NEW m \in Nat, m # 0, Solved(m - 1)
      PROVE  Solved(m)
  <2>1. PICK f : f = [n \in 0 .. m - 1 |-> IF n = 0 THEN B ELSE Reached(h, f[n - 1])]
    BY <1>2
  <2> DEFINE g == [n \in 0 .. m |-> IF n = m THEN Reached(h, f[m - 1]) ELSE f[n]]
  <2>2. \A n \in 0 .. m - 1 : g[n] = f[n]
    OBVIOUS
  <2>3. ASSUME NEW n \in 0 .. m
        PROVE  g[n] = IF n = 0 THEN B ELSE Reached(h, g[n - 1])
    <3>1. CASE n = m
      <4>1. g[n] = Reached(h, f[m - 1]) /\ g[n - 1] = f[m - 1] /\ n # 0
        BY <1>2, <2>2, <3>1
      <4> QED
        BY <3>1, <4>1
    <3>2. CASE n # m
      <4>1. n \in 0 .. m - 1 /\ g[n] = f[n]
        BY <3>2
      <4>2. n # 0 => g[n - 1] = f[n - 1]
        BY <2>2, <4>1
      <4> HIDE DEF g
      <4> QED
        BY <2>1, <4>1, <4>2
    <3> QED
      BY <3>1, <3>2
  <2>4. g = [n \in 0 .. m |-> g[n]]
    OBVIOUS
  <2> HIDE DEF g
  <2>5. g = [n \in 0 .. m |-> IF n = 0 THEN B ELSE Reached(h, g[n - 1])]
    BY <2>3, <2>4
  <2> QED
    BY <2>5
<1> HIDE DEF Solved
<1>3. T = {}
  <2> SUFFICES ASSUME T # {} PROVE FALSE
    OBVIOUS
  <2>1. PICK m \in T : \A n \in T : m <= n
    BY LeastNumber
  <2>2. m \in Nat /\ ~Solved(m) /\ m # 0
    BY <1>1
  <2>3. m - 1 \in Nat /\ Solved(m - 1)
    BY <2>1, <2>2
  <2> QED
    BY <1>2, <2>2, <2>3
<1>4. Solved(k)
  BY <1>3
<1> QED
  BY <1>4 DEF Solved

\* A part of the list that has its beginning and goes on with each of its blocks
\* is the whole list: else some block c is missing, and of the blocks before c in
\* the part, the last one would lead to c or to a later one before c.
LEMMA ClosedIsAll ==
  ASSUME NEW h, NEW rs, RegionsApart(rs), Layout(h, rs), Ordered(h, rs),
         IsFiniteSet(DOMAIN h), NEW S, Chained(h, rs, S),
         NEW R, R \subseteq DOMAIN h \ S, HEAP_START \in R,
         \A b \in R : h[b].next \in DOMAIN h => h[b].next \in R
  PROVE  R = DOMAIN h \ S
<1> SUFFICES ASSUME NEW c \in DOMAIN h \ S, c \notin R
             PROVE  FALSE
  OBVIOUS
<1> DEFINE D == DOMAIN h
           After(b) == { d \in D : Earlier(rs, b, d) }
           T == { After(b) : b \in { r \in R : Earlier(rs, r, c) } }
<1>1. \A b \in D : b \in Int
  BY BlockStarts
<1>2. After(HEAP_START) \in T
  BY DEF Chained
<1>3. T \subseteq FiniteSubsetsOf(D)
  BY FS_Subset DEF FiniteSubsetsOf
<1>4. PICK U \in T : \A V \in T : <<V, U>> \notin StrictSubsetOrdering(D)
  <2> HIDE DEF T, After
  <2> QED
    BY <1>2, <1>3, FS_StrictSubsetOrderingWellFounded, WFMin, Zenon
<1>5. PICK b \in R : Earlier(rs, b, c) /\ U = After(b)
  OBVIOUS
<1> DEFINE n == h[b].next
<1>6. n \in R /\ n \in D /\ n # NULL /\ Earlier(rs, n, c)
  BY <1>5 DEF Chained, Layout, NextValid
<1>7. Earlier(rs, b, n)
  BY <1>6, BlockStarts DEF Ordered
<1>8. n \in After(b) /\ n \notin After(n)
  BY <1>1, <1>6, <1>7, EarlierStrict
<1>9. After(n) \subseteq After(b)
  BY <1>1, <1>6, <1>7, EarlierTransitive
<1>10. <<After(n), After(b)>> \in StrictSubsetOrdering(D)
  <2>1. After(n) \in SUBSET D /\ After(b) \in SUBSET D
    OBVIOUS
  <2> HIDE DEF After, D, n
  <2> QED
    BY <2>1, <1>8, <1>9 DEF StrictSubsetOrdering
<1>11. After(n) \in T
  BY <1>6
<1> QED
  BY <1>4, <1>5, <1>10, <1>11

\* Each step along the list reaches another block until all are reached, and there
\* are as many steps as blocks.
LEMMA AllReached ==
  ASSUME NEW h, NEW rs, RegionsApart(rs), Layout(h, rs), Ordered(h, rs),
         IsFiniteSet(DOMAIN h), NEW S, Chained(h, rs, S), HEAP_START \notin S,
         NEW K, K = Cardinality(DOMAIN h),
         NEW f, f = Walk(h, {HEAP_START} \cap DOMAIN h, K, f)
  PROVE  f[K] = DOMAIN h \ S
<1> DEFINE D == DOMAIN h
           L == D \ S
<1>1. K \in Nat
  BY FS_CardinalityType
<1>2. /\ f[0] = {HEAP_START} \cap D
      /\ \A n \in 1 .. K : f[n] = Reached(h, f[n - 1])
  <2>1. \A n \in 0 .. K : Walk(h, {HEAP_START} \cap D, K, f)[n]
                            = IF n = 0 THEN {HEAP_START} \cap D ELSE Reached(h, f[n - 1])
    BY DEF Walk
  <2>2. \A n \in 0 .. K : f[n] = IF n = 0 THEN {HEAP_START} \cap D ELSE Reached(h, f[n - 1])
    BY <2>1
  <2> QED
    BY <1>1, <2>2
<1> DEFINE Good(n) == /\ f[n] \subseteq L
                      /\ HEAP_START \in D => HEAP_START \in f[n]
                      /\ f[n] = L \/ Cardinality(f[n]) >= n + 1
           T == { n \in 0 .. K : ~Good(n) }
<1>3. Good(0)
  <2>1. f[0] \subseteq L /\ (HEAP_START \in D => HEAP_START \in f[0])
    BY <1>2
  <2>2. CASE HEAP_START \in D
    <3>1. f[0] = {HEAP_START}
      BY <1>2, <2>2
    <3>2. Cardinality(f[0]) = 1
      BY <3>1, FS_Singleton
    <3> QED
      BY <2>1, <3>2
  <2>3. CASE HEAP_START \notin D
    <3>1. L = {} /\ f[0] = {}
      BY <1>2, <2>3 DEF Chained
    <3> QED
      BY <2>1, <3>1
  <2> QED
    BY <2>2, <2>3
<1>4. ASSUME NEW n \in 1 .. K, Good(n - 1)
      PROVE  Good(n)
  <2> DEFINE P == f[n - 1]
  <2>1. f[n] = P \cup ({ h[b].next : b \in P } \cap D)
    BY <1>2 DEF Reached
  <2>2. P \subseteq L /\ (HEAP_START \in D => HEAP_START \in P)
    BY <1>4
  <2>3. f[n] \subseteq L /\ P \subseteq f[n]
    <3> HIDE DEF P
    <3>1. \A b \in P : h[b].next \notin S
      BY <2>2 DEF Chained
    <3> QED
      BY <2>1, <2>2, <3>1
  <2>4. IsFiniteSet(L) /\ IsFiniteSet(f[n]) /\ IsFiniteSet(P)
    BY <2>2, <2>3, FS_Subset
  <2>5. CASE f[n] = P
    <3>1. CASE HEAP_START \in D
      <4>1. \A b \in P : h[b].next \in D => h[b].next \in P
        BY <2>1, <2>5
      <4>2. P = L
        <5> HIDE DEF P
        <5> QED
          BY <2>2, <3>1, <4>1, ClosedIsAll
      <4> QED
        BY <2>2, <2>5, <4>2
    <3>2. CASE HEAP_START \notin D
      <4>1. L = {}
        BY <3>2 DEF Chained
      <4> QED
        BY <2>3, <3>2, <4>1
    <3> QED
      BY <3>1, <3>2
  <2>6. CASE f[n] # P
    <3>1. P # L
      BY <2>3, <2>6
    <3>2. Cardinality(P) >= (n - 1) + 1
      BY <1>4, <3>1
    <3>3. /\ Cardinality(P) \in Nat /\ Cardinality(f[n]) \in Nat
          /\ Cardinality(P) <= Cardinality(f[n])
          /\ Cardinality(P) # Cardinality(f[n])
      BY <2>3, <2>4, <2>6, FS_Subset, FS_CardinalityType
    <3>4. Cardinality(f[n]) >= n + 1
      <4> HIDE DEF P
      <4> QED
        BY <3>2, <3>3
    <3> QED
      BY <2>2, <2>3, <3>4
  <2> QED
    BY <2>5, <2>6
<1>5. T = {}
  <2> SUFFICES ASSUME T # {} PROVE FALSE
    OBVIOUS
  <2>1. T \subseteq Nat
    BY <1>1
  <2>2. PICK n \in T : \A m \in T : n <= m
    <3> HIDE DEF T
    <3> QED
      BY <2>1, LeastNumber
  <2> HIDE DEF Good
  <2>3. n \in 1 .. K /\ ~Good(n) /\ n - 1 \in 0 .. K
    BY <1>1, <1>3
  <2>4. Good(n - 1)
    BY <2>2, <2>3
  <2> QED
    BY <1>4, <2>3, <2>4
<1>6. Good(K)
  <2> HIDE DEF Good
  <2> QED
    BY <1>1, <1>5
<1>7. IsFiniteSet(L) /\ Cardinality(L) <= K
  BY FS_Subset
<1>8. Cardinality(f[K]) <= K /\ Cardinality(f[K]) \in Nat
  BY <1>6, <1>7, FS_Subset, FS_CardinalityType
<1> QED
  <2> HIDE DEF L
  <2>1. f[K] = L
    BY <1>1, <1>6, <1>8
  <2> QED
    BY <2>1 DEF L

\* No splitting, merging or growing takes a block off the list: every block of the
\* heap at HEAP_START is reached from there.
THEOREM NothingFallsOffTheList == Spec => []EveryBlockListed
<1>1. ASSUME HInv, ListInv
      PROVE  EveryBlockListed
  <2> DEFINE K == Cardinality(Blocks)
             reach == CHOOSE g : g = Walk(hdr, {HEAP_START} \cap Blocks, K, g)
  <2>1. /\ RegionsApart(regions) /\ Layout(hdr, regions)
        /\ Ordered(hdr, regions) /\ Chained(hdr, regions, StrayHeads)
    BY <1>1, ListFacts DEF StrayHeads
  <2>2. IsFiniteSet(Blocks)
    <3>1. ADDRESS_TOP \in Nat
      BY AddressAssumption
    <3>2. ASSUME NEW b \in Blocks PROVE b \in 0 .. ADDRESS_TOP
      <4>1. /\ b \in Nat /\ block_after(hdr, b) <= ADDRESS_TOP
            /\ b < block_after(hdr, b) /\ block_after(hdr, b) \in Nat
        BY <2>1, BlockNumbers, SizesAssumption DEF Layout, Blocks
      <4> QED
        BY <3>1, <4>1
    <3>3. Blocks \in SUBSET (0 .. ADDRESS_TOP) /\ IsFiniteSet(0 .. ADDRESS_TOP)
      BY <3>1, <3>2, FS_Interval
    <3> QED
      BY <3>3, FS_Subset
  <2>3. K \in Nat
    BY <2>2, FS_CardinalityType
  <2>4. \E g : g = Walk(hdr, {HEAP_START} \cap Blocks, K, g)
    <3> HIDE DEF K
    <3> QED
      BY <2>3, WalkExists
  <2>5. reach = Walk(hdr, {HEAP_START} \cap Blocks, K, reach)
    BY <2>4
  <2>6. reach[K] = Listed
    <3> HIDE DEF reach
    <3> QED
      BY <2>1, <2>2, <2>5, AllReached DEF Blocks, Listed, StrayHeads
  <2> QED
    BY <2>6 DEF EveryBlockListed, Reached, Walk, Blocks
<1> QED
  BY <1>1, SpecListInv, PTL

-----------------------------------------------------------------------------
(***************************************************************************)
(* The same for a client that also asks for sizes near 2^64: until one of  *)
(* these is misserved everything is as before, and no other ever is.       *)
(***************************************************************************)

USE DEF Blocks

\* In use, with room for the request: nobody is misserved.
LEMMA NobodyMisserved ==
  ASSUME HInv, NEW p \in DOMAIN live
  PROVE  ~Misserved(p)
<1>1. /\ block_get_header(p) \in Blocks
      /\ ~hdr[block_get_header(p)].is_free
      /\ hdr[block_get_header(p)].capacity >= live[p]
  BY DEF HInv, AllocatedBlocks
<1>2. hdr[block_get_header(p)].capacity \in Nat /\ live[p] \in Nat
  BY <1>1, InvTypes
<1> QED
  BY <1>1, <1>2 DEF Misserved

\* The last block of the second search goes to a client whose request wraps; it
\* is nobody else's.
LEMMA LastToWrapped ==
  ASSUME HInv, return_last
  PROVE  OnlyWrappedMisserved' /\ ~HeadersIntact'
<1>1. /\ cur \in Blocks /\ hdr[cur].is_free
      /\ query = size_max(request, BLOCK_MIN_CAPACITY)
      /\ ~(query + HEADER_SIZE <= SIZE_T - PAGE_SIZE)
  BY ReturnsLastIfWrapped
<1>2. request \in Nat /\ request + HEADER_SIZE > SIZE_T - PAGE_SIZE
  BY <1>1, InvTypes, SizesAssumption DEF size_max
<1>3. PICK p : p = contents(cur)
  OBVIOUS
<1>4. /\ UNCHANGED hdr
      /\ DOMAIN live' = DOMAIN live \cup {p}
      /\ live'[p] = request
      /\ \A o \in DOMAIN live : o # p => live'[o] = live[o]
  BY <1>3 DEF return_last, Put
<1>5. ASSUME NEW o \in DOMAIN live', o # p
      PROVE  ~Misserved(o)'
  <2>1. o \in DOMAIN live /\ live'[o] = live[o]
    BY <1>4, <1>5
  <2> QED
    BY <1>4, <2>1, NobodyMisserved DEF Misserved
<1>6. Misserved(p)'
  <2>1. block_get_header(p) = cur
    BY <1>1, <1>3, ContentsHeader
  <2> QED
    BY <1>1, <1>4, <2>1 DEF Misserved
<1>7. OnlyWrappedMisserved'
  BY <1>2, <1>4, <1>5 DEF OnlyWrappedMisserved
<1> QED
  BY <1>4, <1>6, <1>7 DEF HeadersIntact

\* The invariants hold as long as the client does not write over headers.
HugeInv == (HeadersIntact => HInv /\ ListInv) /\ OnlyWrappedMisserved

LEMMA HugeInvInit == Init => HugeInv
<1>1. Init => HInv /\ ListInv
  BY InitInv, InitList
<1>2. HInv => OnlyWrappedMisserved
  BY NobodyMisserved DEF OnlyWrappedMisserved
<1> QED
  BY <1>1, <1>2 DEF HugeInv

LEMMA HugeInvNext == HugeInv /\ [HugeNext]_vars /\ [HeadersIntact]_vars => HugeInv'
<1> SUFFICES ASSUME HugeInv, [HugeNext]_vars, [HeadersIntact]_vars PROVE HugeInv'
  OBVIOUS
<1>1. HInv' /\ ListInv' => HugeInv'
  <2> SUFFICES ASSUME HInv' PROVE OnlyWrappedMisserved'
    BY DEF HugeInv
  <2>1. ASSUME NEW p \in DOMAIN live' PROVE ~Misserved(p)'
    <3>1. \A o \in DOMAIN live' :
            /\ block_get_header(o) \in DOMAIN hdr'
            /\ ~hdr'[block_get_header(o)].is_free
            /\ hdr'[block_get_header(o)].capacity >= live'[o]
      BY DEF HInv, AllocatedBlocks
    <3>2. /\ hdr'[block_get_header(p)].capacity \in Nat /\ live'[p] \in Nat
      <4>1. hdr' \in [DOMAIN hdr' -> Header] /\ live' \in [DOMAIN live' -> Nat]
        BY DEF HInv, TypeOK
      <4> QED
        BY <3>1, <4>1 DEF Header
    <3> QED
      BY <3>1, <3>2 DEF Misserved
  <2> QED
    BY <2>1 DEF OnlyWrappedMisserved
<1>2. CASE HeadersIntact /\ [Next]_vars /\ ~return_last
  BY <1>1, <1>2, StepInv, NextList DEF HugeInv
<1>3. CASE HeadersIntact /\ return_last
  BY <1>3, LastToWrapped DEF HugeInv
<1>4. ASSUME HeadersIntact, NEW q \in HUGE_QUERIES, malloc(q)
      PROVE  HugeInv'
  BY <1>1, <1>4, MallocInv, MallocList, HugeAssumption DEF HugeInv
<1>5. CASE UNCHANGED vars
  <2>1. UNCHANGED <<hdr, live>>
    BY <1>5 DEF vars, heapvars
  <2>2. (HeadersIntact' <=> HeadersIntact) /\ OnlyWrappedMisserved'
    BY <2>1 DEF HugeInv, HeadersIntact, OnlyWrappedMisserved, Misserved
  <2>3. HeadersIntact => HInv' /\ ListInv'
    <3>1. [Next]_vars /\ ~return_last
      BY <1>5 DEF return_last, Return, vars, heapvars
    <3> QED
      BY <3>1, StepInv, NextList DEF HugeInv
  <2> QED
    BY <2>2, <2>3 DEF HugeInv
<1> QED
  BY <1>2, <1>3, <1>4, <1>5 DEF HugeNext, HugeCall

(***************************************************************************)
(* As long as nobody was misserved, the heap and its list are as for other *)
(* clients, whatever sizes were asked for.                                 *)
(***************************************************************************)
THEOREM SoundUntilMisserved ==
  HugeSpec /\ StopsMisserved => [](HeadersIntact => HInv /\ ListInv)
<1>1. HugeInv => (HeadersIntact => HInv /\ ListInv)
  BY DEF HugeInv
<1> QED
  BY <1>1, HugeInvInit, HugeInvNext, PTL DEF HugeSpec, StopsMisserved

\* memalloc returns a block that is no good only for a request that wraps.
THEOREM OnlyWrapped == HugeSpec /\ StopsMisserved => []OnlyWrappedMisserved
<1>1. HugeInv => OnlyWrappedMisserved
  BY DEF HugeInv
<1> QED
  BY <1>1, HugeInvInit, HugeInvNext, PTL DEF HugeSpec, StopsMisserved
=============================================================================
