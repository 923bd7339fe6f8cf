-------------------------- MODULE ChunkSizesProofs --------------------------
(***************************************************************************)
(* Proofs about the size arithmetic of malloc-impl.c: the properties of    *)
(* ChunkSizesCheck, but for PvallocRoundsUp, which is about bits, hold for *)
(* every width of a size_t and every table of large bins that fits.        *)
(***************************************************************************)
EXTENDS ChunkSizesCheck, Arithmetic

-----------------------------------------------------------------------------
(* Rounding.                                                               *)

\* No multiple lies strictly between two that are one unit apart.
LEMMA LessMultiple ==
  ASSUME NEW d \in Nat \ {0}, NEW x \in Int, NEW y \in Int, x % d = 0, y % d = 0, x < y + d
  PROVE  x <= y
<1>1. PICK j \in Int : x = d * j
  BY Divides
<1>2. PICK k \in Int : y = d * k
  BY Divides
<1> DEFINE e == j - k
<1>3. e \in Int /\ d * e = x - y
  BY <1>1, <1>2
<1> HIDE DEF e
<1>4. d * e < d
  BY <1>3
<1>5. e < 1
  BY <1>3, <1>4
<1>6. d * e <= 0
  BY <1>3, <1>5
<1> QED
  BY <1>3, <1>6

\* Rounding down gives the greatest multiple that is not larger.
LEMMA Down ==
  ASSUME NEW d \in Nat \ {0}, NEW m \in Int
  PROVE  /\ AlignDown(m, d) \in Int
         /\ AlignDown(m, d) % d = 0
         /\ AlignDown(m, d) <= m
         /\ AlignDown(m, d) > m - d
<1> DEFINE r == m % d
<1>1. r \in 0 .. d - 1 /\ \E k \in Int : m = d * k + r
  BY Division
<1> HIDE DEF r
<1>2. PICK k \in Int : m = d * k + r
  BY <1>1
<1> DEFINE b == m - r
<1>3. b \in Int /\ b = d * k /\ b <= m /\ b > m - d
  BY <1>1, <1>2
<1> HIDE DEF b
<1>4. b % d = 0
  BY <1>3, Divides
<1> QED
  BY <1>3, <1>4 DEF AlignDown, r, b

\* What n % -d adds to reach a multiple.
LEMMA Up ==
  ASSUME NEW d \in Nat \ {0}, NEW m \in Int
  PROVE  (-m) % d \in 0 .. d - 1 /\ (m + ((-m) % d)) % d = 0
<1> DEFINE w == -m
           r == w % d
<1>1. w \in Int /\ m = -w
  OBVIOUS
<1> HIDE DEF w
<1>2. r \in 0 .. d - 1 /\ \E k \in Int : w = d * k + r
  BY <1>1, Division
<1> HIDE DEF r
<1>3. PICK k \in Int : w = d * k + r
  BY <1>2
<1>4. m + r = d * (-k) /\ -k \in Int /\ m + r \in Int
  BY <1>1, <1>2, <1>3
<1>5. (m + r) % d = 0
  BY <1>4, Divides
<1> QED
  BY <1>2, <1>5 DEF r, w

\* Division rounds down.
LEMMA Quotient ==
  ASSUME NEW d \in Nat \ {0}, NEW m \in Nat
  PROVE  /\ m \div d \in Nat
         /\ \A k \in Nat : k <= m \div d <=> k * d <= m
<1> DEFINE q == m \div d
<1>1. q \in Int /\ d * q <= m /\ m < d * q + d
  OBVIOUS
<1> HIDE DEF q
<1>2. q >= 0
  <2>1. d * (q + 1) > 0
    BY <1>1
  <2>2. q + 1 > 0
    BY <1>1, <2>1
  <2> QED
    BY <1>1, <2>2
<1>3. ASSUME NEW k \in Nat PROVE k <= q <=> k * d <= m
  <2> DEFINE e == q - k
  <2>1. e \in Int /\ d * q = d * k + d * e
    BY <1>1
  <2>2. k <= q <=> e >= 0
    BY <1>1
  <2> HIDE DEF e
  <2>3. e >= 0 => d * e >= 0
    BY <2>1
  <2>4. e < 0 => d * e <= -d
    <3> SUFFICES ASSUME e < 0 PROVE d * e <= -d
      OBVIOUS
    <3>1. d * (-(e + 1)) >= 0
      BY <2>1
    <3> QED
      BY <2>1, <3>1
  <2>5. d * k = k * d /\ d * k \in Int /\ d * e \in Int /\ d * q \in Int
    BY <1>1, <2>1
  <2> QED
    BY <1>1, <2>1, <2>2, <2>3, <2>4, <2>5
<1> QED
  BY <1>1, <1>2, <1>3 DEF q

\* It keeps the order.
LEMMA QuotientOrder ==
  ASSUME NEW d \in Nat \ {0}, NEW l \in Nat, NEW m \in Nat, l <= m
  PROVE  l \div d <= m \div d
<1> DEFINE k == l \div d
<1>1. k \in Nat /\ k * d <= l
  BY Quotient
<1> HIDE DEF k
<1>2. k * d <= m
  BY <1>1
<1>3. k <= m \div d
  BY <1>1, <1>2, Quotient
<1> QED
  BY <1>3 DEF k

-----------------------------------------------------------------------------
(* Requests.                                                               *)

\* How the units relate.
LEMMA Units ==
  /\ SIZE_SZ \in Nat \ {0} /\ MALLOC_ALIGNMENT \in Nat \ {0}
  /\ MALLOC_ALIGNMENT >= 2 * SIZE_SZ
  /\ SIZE_T \in Nat \ {0} /\ SIZE_T > 8 * MALLOC_ALIGNMENT + 8 * SIZE_SZ
  /\ PTRDIFF_MAX \in Nat /\ 2 * PTRDIFF_MAX + 2 <= SIZE_T
<1>1. /\ SIZE_SZ \in Nat \ {0} /\ MALLOC_ALIGNMENT \in Nat \ {0}
      /\ MALLOC_ALIGNMENT % (2 * SIZE_SZ) = 0
  BY ChunkSizesAssumption
<1>2. SIZE_T \in Nat /\ SIZE_T > 8 * MALLOC_ALIGNMENT + 8 * SIZE_SZ
  BY ChunkSizesAssumption DEF SIZE_T
<1>3. MALLOC_ALIGNMENT >= 2 * SIZE_SZ
  <2> DEFINE u == 2 * SIZE_SZ
  <2>1. u \in Nat \ {0} /\ 0 \in Int /\ MALLOC_ALIGNMENT \in Int
    BY <1>1
  <2>2. 0 % u = 0
    BY <2>1
  <2>3. MALLOC_ALIGNMENT < 0 + u => MALLOC_ALIGNMENT <= 0
    BY <1>1, <2>1, <2>2, LessMultiple
  <2> QED
    BY <1>1, <2>3
<1>4. PTRDIFF_MAX \in Nat /\ 2 * PTRDIFF_MAX + 2 <= SIZE_T
  <2>1. SIZE_T > 2
    BY <1>1, <1>2
  <2> QED
    BY <1>2, <2>1 DEF PTRDIFF_MAX
<1> QED
  BY <1>1, <1>2, <1>3, <1>4

\* What is less than 2^WORD_BITS does not wrap.
LEMMA NoWrap ==
  ASSUME NEW m \in Nat, m < SIZE_T
  PROVE  Wrap(m) = m
<1>1. (SIZE_T * 0 + m) % SIZE_T = m
  <2>1. SIZE_T \in Nat \ {0} /\ 0 \in Int /\ m \in 0 .. SIZE_T - 1
    BY Units
  <2> QED
    BY <2>1, RestIs
<1>2. SIZE_T * 0 + m = m
  BY Units
<1> QED
  BY <1>1, <1>2 DEF Wrap

\* The least chunk is the least multiple that holds four words.
LEMMA LeastChunk ==
  /\ MINSIZE \in Nat /\ MINSIZE % MALLOC_ALIGNMENT = 0
  /\ MINSIZE >= 4 * SIZE_SZ /\ MINSIZE >= MALLOC_ALIGNMENT
  /\ MINSIZE < 4 * SIZE_SZ + MALLOC_ALIGNMENT
<1> DEFINE m == 4 * SIZE_SZ + MALLOC_ALIGNMENT - 1
<1>1. m \in Int /\ MALLOC_ALIGNMENT \in Nat \ {0} /\ SIZE_SZ \in Nat \ {0}
  BY Units
<1>2. MINSIZE = AlignDown(m, MALLOC_ALIGNMENT)
  BY DEF MINSIZE, MIN_CHUNK_SIZE
<1> HIDE DEF m
<1>3. /\ MINSIZE \in Int /\ MINSIZE % MALLOC_ALIGNMENT = 0
      /\ MINSIZE <= m /\ MINSIZE > m - MALLOC_ALIGNMENT
  BY <1>1, <1>2, Down
<1>4. MINSIZE >= 4 * SIZE_SZ /\ MINSIZE < 4 * SIZE_SZ + MALLOC_ALIGNMENT
  BY <1>1, <1>3 DEF m
<1>5. MINSIZE >= MALLOC_ALIGNMENT
  <2>1. MALLOC_ALIGNMENT < MINSIZE + MALLOC_ALIGNMENT
    BY <1>1, <1>3, <1>4
  <2>2. MALLOC_ALIGNMENT % MALLOC_ALIGNMENT = 0
    BY <1>1
  <2> QED
    BY <1>1, <1>3, <2>1, <2>2, LessMultiple
<1> QED
  BY <1>1, <1>3, <1>4, <1>5

\* A request whose padding does not wrap gets a chunk that holds it, and whose
\* rounding is less than MALLOC_ALIGNMENT unless it is the least chunk.
LEMMA Request ==
  ASSUME NEW req \in Nat, req + SIZE_SZ + MALLOC_ALIGNMENT - 1 < SIZE_T
  PROVE  /\ request2size(req) \in Nat
         /\ ChunkSize(request2size(req))
         /\ request2size(req) >= req + SIZE_SZ
         /\ request2size(req) = MINSIZE \/ request2size(req) < req + SIZE_SZ + MALLOC_ALIGNMENT
<1> DEFINE padded == req + SIZE_SZ + MALLOC_ALIGNMENT - 1
           r == request2size(req)
<1>1. padded \in Nat /\ MALLOC_ALIGNMENT \in Nat \ {0} /\ SIZE_SZ \in Nat \ {0}
  BY Units
<1>2. Wrap(padded) = padded
  BY <1>1, NoWrap
<1>3. r = IF padded < MINSIZE THEN MINSIZE ELSE AlignDown(padded, MALLOC_ALIGNMENT)
  BY <1>2 DEF request2size
<1> HIDE DEF r
<1>4. CASE padded < MINSIZE
  <2>1. r = MINSIZE
    BY <1>3, <1>4
  <2> QED
    BY <1>1, <1>4, <2>1, LeastChunk DEF ChunkSize, r
<1>5. CASE ~(padded < MINSIZE)
  <2>1. r = AlignDown(padded, MALLOC_ALIGNMENT)
    BY <1>3, <1>5
  <2>2. /\ r \in Int /\ r % MALLOC_ALIGNMENT = 0
        /\ r <= padded /\ r > padded - MALLOC_ALIGNMENT
    BY <1>1, <2>1, Down
  <2>3. r >= MINSIZE
    <3>1. MINSIZE < r + MALLOC_ALIGNMENT
      BY <1>1, <1>5, <2>2, LeastChunk
    <3>2. MINSIZE \in Int /\ MINSIZE % MALLOC_ALIGNMENT = 0
      BY LeastChunk
    <3>3. MINSIZE <= r
      BY <1>1, <2>2, <3>1, <3>2, LessMultiple
    <3> QED
      BY <2>2, <3>2, <3>3
  <2> QED
    BY <1>1, <2>2, <2>3, LeastChunk DEF ChunkSize, r
<1> QED
  BY <1>4, <1>5

\* It is the least that does.
LEMMA LeastForRequest ==
  ASSUME NEW req \in Nat, req + SIZE_SZ + MALLOC_ALIGNMENT - 1 < SIZE_T,
         NEW s \in Nat, ChunkSize(s), s >= req + SIZE_SZ
  PROVE  request2size(req) <= s
<1> DEFINE r == request2size(req)
<1>1. /\ r \in Nat /\ ChunkSize(r) /\ MALLOC_ALIGNMENT \in Nat \ {0} /\ SIZE_SZ \in Nat
      /\ r = MINSIZE \/ r < req + SIZE_SZ + MALLOC_ALIGNMENT
  BY Request, Units
<1> HIDE DEF r
<1>2. ASSUME r < s + MALLOC_ALIGNMENT PROVE r <= s
  <2>1. r \in Int /\ s \in Int /\ r % MALLOC_ALIGNMENT = 0 /\ s % MALLOC_ALIGNMENT = 0
    BY <1>1 DEF ChunkSize
  <2> QED
    BY <1>1, <1>2, <2>1, LessMultiple
<1> QED
  BY <1>1, <1>2 DEF ChunkSize, r

-----------------------------------------------------------------------------
(* The number under comparison is a size_t.                                *)

NumberOK == n \in Nat /\ n < SIZE_T

LEMMA NumberInv == Spec => []NumberOK
<1>1. Init => NumberOK
  BY Units DEF Init, NumberOK
<1>2. NumberOK /\ [Next]_n => NumberOK'
  <2> SUFFICES ASSUME NumberOK, [Next]_n PROVE NumberOK'
    OBVIOUS
  <2>1. CASE Next
    <3>1. SIZE_T \in Nat \ {0} /\ n + 1 \in Int
      BY Units DEF NumberOK
    <3>2. (n + 1) % SIZE_T \in 0 .. SIZE_T - 1
      BY <3>1, Division
    <3> QED
      BY <2>1, <3>1, <3>2 DEF Next, Wrap, NumberOK
  <2>2. CASE UNCHANGED n
    BY <2>2 DEF NumberOK
  <2> QED
    BY <2>1, <2>2
<1> QED
  BY <1>1, <1>2, PTL DEF Spec

\* Sizes of chunks and addresses of chunks are multiples but for the header.
LEMMA SizeAndChunk ==
  ASSUME NumberOK
  PROVE  /\ size \in Nat /\ ChunkSize(size)
         /\ chunk \in Int /\ (chunk + CHUNK_HDR_SZ) % MALLOC_ALIGNMENT = 0
<1>1. n \in Nat /\ MALLOC_ALIGNMENT \in Nat \ {0} /\ SIZE_SZ \in Nat
  BY Units DEF NumberOK
<1>2. n * MALLOC_ALIGNMENT \in Nat /\ n * MALLOC_ALIGNMENT = MALLOC_ALIGNMENT * n
  BY <1>1
<1>3. (n * MALLOC_ALIGNMENT) % MALLOC_ALIGNMENT = 0
  BY <1>1, <1>2, Divides
<1>4. (MINSIZE + n * MALLOC_ALIGNMENT) % MALLOC_ALIGNMENT = 0
  <2> DEFINE m == n * MALLOC_ALIGNMENT
  <2>1. m \in Int /\ m % MALLOC_ALIGNMENT = 0
    BY <1>2, <1>3
  <2> HIDE DEF m
  <2>2. MINSIZE \in Int /\ MINSIZE % MALLOC_ALIGNMENT = 0
    BY LeastChunk
  <2>3. (MINSIZE + m) % MALLOC_ALIGNMENT = 0
    BY <1>1, <2>1, <2>2, SumOfMultiples
  <2> QED
    BY <2>3 DEF m
<1>5. ((n + 2) * MALLOC_ALIGNMENT) % MALLOC_ALIGNMENT = 0 /\ (n + 2) * MALLOC_ALIGNMENT \in Int
  <2> DEFINE k == n + 2
             m == k * MALLOC_ALIGNMENT
  <2>1. k \in Int
    BY <1>1
  <2> HIDE DEF k
  <2>2. m \in Int /\ m = MALLOC_ALIGNMENT * k
    BY <1>1, <2>1
  <2>3. m % MALLOC_ALIGNMENT = 0
    BY <1>1, <2>1, <2>2, Divides
  <2> QED
    BY <2>2, <2>3 DEF m, k
<1>6. size \in Nat /\ ChunkSize(size)
  <2>1. size = MINSIZE + n * MALLOC_ALIGNMENT
    BY DEF size
  <2>2. size \in Nat /\ size >= MINSIZE
    BY <1>2, <2>1, LeastChunk
  <2> QED
    BY <1>4, <2>1, <2>2 DEF ChunkSize
<1>7. chunk \in Int /\ chunk + CHUNK_HDR_SZ = (n + 2) * MALLOC_ALIGNMENT
  BY <1>1, <1>5 DEF chunk, CHUNK_HDR_SZ
<1> QED
  BY <1>5, <1>6, <1>7

-----------------------------------------------------------------------------
LEMMA RequestsFit == ASSUME NumberOK PROVE RequestGetsLeastChunk
<1> DEFINE r == checked_request2size(n)
<1>1. n \in Nat /\ MALLOC_ALIGNMENT \in Nat \ {0} /\ SIZE_SZ \in Nat \ {0}
  BY Units DEF NumberOK
<1>2. CASE n > PTRDIFF_MAX
  <2>1. r = [ok |-> FALSE, sz |-> 0]
    BY <1>2 DEF checked_request2size
  <2>2. ~r.ok /\ ~(n <= PTRDIFF_MAX)
    BY <1>1, <1>2, <2>1, Units
  <2> QED
    BY <2>2 DEF RequestGetsLeastChunk
<1>3. CASE ~(n > PTRDIFF_MAX)
  <2>1. r = [ok |-> TRUE, sz |-> request2size(n)]
    BY <1>3 DEF checked_request2size
  <2>2. r.ok /\ r.sz = request2size(n)
    BY <2>1
  <2>3. n <= PTRDIFF_MAX /\ n + SIZE_SZ + MALLOC_ALIGNMENT - 1 < SIZE_T
    BY <1>1, <1>3, Units
  <2>4. /\ r.sz \in Nat /\ ChunkSize(r.sz) /\ r.sz >= n + SIZE_SZ
        /\ r.sz = MINSIZE \/ r.sz < n + SIZE_SZ + MALLOC_ALIGNMENT
    BY <1>1, <2>2, <2>3, Request
  <2>5. r.sz - SIZE_SZ >= n /\ (r.sz = MINSIZE \/ r.sz - SIZE_SZ - n < MALLOC_ALIGNMENT)
    BY <1>1, <2>4
  <2> QED
    BY <2>2, <2>3, <2>4, <2>5 DEF RequestGetsLeastChunk
<1> QED
  BY <1>2, <1>3

-----------------------------------------------------------------------------
(* Fastbins and the thread cache.                                          *)

\* global_max_fast after mallopt.
LEMMA MaxFast ==
  ASSUME NEW s \in Nat, s <= MAX_FAST_SIZE
  PROVE  /\ set_max_fast(s) \in Int
         /\ set_max_fast(s) <= MAX_FAST_SIZE
         /\ \/ set_max_fast(s) = 2 * SIZE_SZ
            \/ set_max_fast(s) <= s + SIZE_SZ
         /\ s = 0 => set_max_fast(s) = 2 * SIZE_SZ
<1>1. MALLOC_ALIGNMENT \in Nat \ {0} /\ SIZE_SZ \in Nat \ {0} /\ MALLOC_ALIGNMENT >= 2 * SIZE_SZ
  BY Units
<1>2. MAX_FAST_SIZE = 20 * SIZE_SZ /\ MIN_CHUNK_SIZE \div 2 = 2 * SIZE_SZ
  BY <1>1 DEF MAX_FAST_SIZE, MIN_CHUNK_SIZE
<1>3. CASE s <= MALLOC_ALIGNMENT - 1 - SIZE_SZ
  <2>1. set_max_fast(s) = 2 * SIZE_SZ
    BY <1>2, <1>3 DEF set_max_fast
  <2> QED
    BY <1>1, <1>2, <2>1
<1>4. CASE ~(s <= MALLOC_ALIGNMENT - 1 - SIZE_SZ)
  <2> DEFINE m == s + SIZE_SZ
             x == set_max_fast(s)
             u == 2 * SIZE_SZ
             ten == 20 * SIZE_SZ
  <2>1. x = AlignDown(m, MALLOC_ALIGNMENT)
    BY <1>4 DEF set_max_fast
  <2>2. m \in Int /\ m <= 21 * SIZE_SZ
    BY <1>1, <1>2
  <2> HIDE DEF m, x
  <2>3. x \in Int /\ x % MALLOC_ALIGNMENT = 0 /\ x <= m
    BY <1>1, <2>1, <2>2, Down
  <2>4. u \in Nat \ {0} /\ ten = u * 10 /\ MALLOC_ALIGNMENT % u = 0
    BY <1>1, ChunkSizesAssumption
  <2> HIDE DEF u
  <2>5. x % u = 0
    BY <1>1, <2>3, <2>4, MultipleOfMultiple
  <2>6. ten \in Int /\ x < ten + u /\ ten <= 21 * SIZE_SZ
    BY <1>1, <2>2, <2>3 DEF u
  <2> HIDE DEF ten
  <2>7. ten % u = 0
    BY <2>4, <2>6, Divides
  <2>8. x <= ten
    BY <2>3, <2>4, <2>5, <2>6, <2>7, LessMultiple
  <2>9. ~(s = 0)
    BY <1>1, <1>4
  <2> QED
    BY <1>2, <2>3, <2>8, <2>9 DEF m, x, ten
<1> QED
  BY <1>3, <1>4

\* The fastbin of a chunk.
LEMMA FastbinIndex ==
  ASSUME NEW s \in Nat, ChunkSize(s)
  PROVE  fastbin_index(s) \in Nat /\ s = 2 * SIZE_SZ * (fastbin_index(s) + 2)
<1> DEFINE u == 2 * SIZE_SZ
           q == s \div u
<1>1. u \in Nat \ {0} /\ MALLOC_ALIGNMENT \in Nat \ {0} /\ MALLOC_ALIGNMENT % u = 0 /\ MINSIZE >= 2 * u
  BY Units, LeastChunk, ChunkSizesAssumption
<1>2. fastbin_index(s) = q - 2
  BY DEF fastbin_index
<1> HIDE DEF u
<1>3. s % u = 0
  <2>1. s \in Int /\ s % MALLOC_ALIGNMENT = 0
    BY DEF ChunkSize
  <2> QED
    BY <1>1, <2>1, MultipleOfMultiple
<1>4. s = u * q /\ q \in Int
  BY <1>1, <1>3
<1>5. 2 <= q
  <2>1. 2 * u <= s
    BY <1>1, LeastChunk DEF ChunkSize
  <2> QED
    BY <1>1, <2>1, Quotient
<1> HIDE DEF q
<1> QED
  BY <1>2, <1>4, <1>5 DEF u

LEMMA FastbinsFit == ASSUME NumberOK PROVE FastbinsMatchLimit
<1> DEFINE max  == set_max_fast(n)
           fast == { s \in MINSIZE .. max : ChunkSize(s) }
<1> SUFFICES ASSUME n <= MAX_FAST_SIZE
             PROVE  /\ max <= MAX_FAST_SIZE
                    /\ \A s \in fast : fastbin_index(s) \in 0 .. NFASTBINS - 1
                    /\ \A s, t \in fast : fastbin_index(s) = fastbin_index(t) => s = t
                    /\ n = 0 => fast = {}
                    /\ request2size(n + 1) \notin fast
  BY DEF FastbinsMatchLimit
<1>1. /\ n \in Nat /\ n + 1 \in Nat /\ MALLOC_ALIGNMENT \in Nat \ {0} /\ SIZE_SZ \in Nat \ {0}
      /\ MALLOC_ALIGNMENT >= 2 * SIZE_SZ
  BY Units DEF NumberOK
<1>2. /\ MAX_FAST_SIZE = 20 * SIZE_SZ
      /\ MINSIZE \in Nat /\ MINSIZE >= 4 * SIZE_SZ
  BY <1>1, LeastChunk DEF MAX_FAST_SIZE
<1>3. /\ max \in Int /\ max <= MAX_FAST_SIZE
      /\ max = 2 * SIZE_SZ \/ max <= n + SIZE_SZ
      /\ n = 0 => max = 2 * SIZE_SZ
  BY <1>1, MaxFast
<1> HIDE DEF max
<1>4. ASSUME NEW s \in fast
      PROVE  /\ s \in Nat /\ ChunkSize(s) /\ s <= max /\ MINSIZE <= s
             /\ fastbin_index(s) \in Nat
             /\ s = 2 * SIZE_SZ * (fastbin_index(s) + 2)
  <2>1. s \in Nat /\ ChunkSize(s) /\ s <= max /\ MINSIZE <= s
    BY <1>2, <1>3
  <2> QED
    BY <2>1, FastbinIndex
<1>5. ASSUME NEW s \in fast PROVE fastbin_index(s) \in 0 .. NFASTBINS - 1
  <2> DEFINE r == request2size(MAX_FAST_SIZE)
             u == 2 * SIZE_SZ
  <2>1. r \in Nat /\ r >= 20 * SIZE_SZ + SIZE_SZ
    <3>1. MAX_FAST_SIZE \in Nat /\ MAX_FAST_SIZE + SIZE_SZ + MALLOC_ALIGNMENT - 1 < SIZE_T
      BY <1>1, <1>2, Units
    <3> QED
      BY <1>2, <3>1, Request
  <2>2. NFASTBINS - 1 = (r \div u) - 2 /\ fastbin_index(s) = (s \div u) - 2
    <3>1. r \div u \in Int
      BY <1>1, <2>1
    <3>2. NFASTBINS = ((r \div u) - 2) + 1
      BY DEF NFASTBINS, fastbin_index
    <3> QED
      BY <3>1, <3>2 DEF fastbin_index
  <2> HIDE DEF r
  <2>3. s \in Nat /\ s <= r /\ u \in Nat \ {0}
    BY <1>1, <1>2, <1>3, <1>4, <2>1
  <2> HIDE DEF u
  <2>4. s \div u <= r \div u /\ s \div u \in Nat /\ r \div u \in Nat
    BY <2>1, <2>3, QuotientOrder, Quotient
  <2> QED
    BY <1>4, <2>2, <2>4
<1>6. ASSUME NEW s \in fast, NEW t \in fast, fastbin_index(s) = fastbin_index(t) PROVE s = t
  BY <1>4, <1>6
<1>7. ASSUME n = 0 PROVE fast = {}
  BY <1>1, <1>2, <1>3, <1>7
<1>8. ASSUME request2size(n + 1) \in fast PROVE FALSE
  <2>1. n + 1 + SIZE_SZ + MALLOC_ALIGNMENT - 1 < SIZE_T
    BY <1>1, <1>2, Units
  <2>2. request2size(n + 1) \in Nat /\ request2size(n + 1) >= n + 1 + SIZE_SZ
    BY <1>1, <2>1, Request
  <2>3. request2size(n + 1) <= max /\ MINSIZE <= request2size(n + 1)
    BY <1>4, <1>8
  <2> QED
    BY <1>1, <1>2, <1>3, <2>2, <2>3
<1> QED
  BY <1>3, <1>5, <1>6, <1>7, <1>8

\* The bin of the thread cache that a chunk is put into, and what fits there.
LEMMA TcacheIndex ==
  ASSUME NEW c \in Nat, ChunkSize(c)
  PROVE  csize2tidx(c) \in Nat /\ c = MINSIZE + MALLOC_ALIGNMENT * csize2tidx(c)
<1> DEFINE d == MALLOC_ALIGNMENT
           m == c - MINSIZE
           q == csize2tidx(c)
<1>1. d \in Nat \ {0} /\ MINSIZE \in Nat /\ MINSIZE % d = 0
  BY Units, LeastChunk
<1>2. m \in Nat /\ m \in Int /\ m % d = 0
  <2>1. c \in Int /\ MINSIZE \in Int /\ c >= MINSIZE /\ c % d = 0
    BY <1>1 DEF ChunkSize
  <2> HIDE DEF d
  <2>2. (c - MINSIZE) % d = 0
    BY <1>1, <2>1, SumOfMultiples
  <2> QED
    BY <2>1, <2>2
<1>3. q = (m + d - 1) \div d
  BY DEF csize2tidx
<1> HIDE DEF m, d, q
<1>4. PICK k \in Int : m = d * k
  BY <1>1, <1>2, Divides
<1>5. k >= 0
  <2>1. k < 0 => d * k < 0
    BY <1>1, <1>4
  <2> QED
    BY <1>2, <1>4, <2>1
<1>6. q \in Nat /\ \A j \in Nat : j <= q <=> j * d <= m + d - 1
  <2>1. m + d - 1 \in Nat
    BY <1>1, <1>2
  <2> QED
    BY <1>1, <1>3, <2>1, Quotient
<1>7. k <= q
  <2>1. k \in Nat /\ k * d <= m + d - 1
    BY <1>1, <1>4, <1>5
  <2> QED
    BY <1>6, <2>1
<1>8. ~(k + 1 <= q)
  <2>1. k + 1 \in Nat /\ ~((k + 1) * d <= m + d - 1)
    BY <1>1, <1>4, <1>5
  <2> QED
    BY <1>6, <2>1
<1>9. q = k
  BY <1>5, <1>6, <1>7, <1>8
<1> QED
  BY <1>1, <1>2, <1>4, <1>6, <1>9 DEF m, q, d

LEMMA TcacheFitsLimit == ASSUME NumberOK PROVE TcacheBinsMatchLimit
<1> DEFINE c   == request2size(n)
           idx == csize2tidx(c)
<1> SUFFICES ASSUME n <= MAX_TCACHE_SIZE
             PROVE  /\ do_set_tcache_max(n, 1) \in 1 .. TCACHE_MAX_BINS
                    /\ usize2tidx(n) < do_set_tcache_max(n, 1)
                    /\ n <= tidx2usize(usize2tidx(n))
                    /\ tidx2usize(csize2tidx(c)) <= c - SIZE_SZ
  BY DEF TcacheBinsMatchLimit
<1>1. /\ n \in Nat /\ MALLOC_ALIGNMENT \in Nat \ {0} /\ SIZE_SZ \in Nat \ {0}
      /\ MINSIZE \in Nat /\ MINSIZE % MALLOC_ALIGNMENT = 0
      /\ TCACHE_MAX_BINS \in Nat \ {0} /\ MAX_TCACHE_SIZE <= PTRDIFF_MAX
  BY Units, LeastChunk, TablesAssumption DEF NumberOK, TcacheFits
<1> DEFINE top == (TCACHE_MAX_BINS - 1) * MALLOC_ALIGNMENT
<1>2. /\ MAX_TCACHE_SIZE = top + MINSIZE - SIZE_SZ /\ top \in Nat
      /\ top = MALLOC_ALIGNMENT * (TCACHE_MAX_BINS - 1)
  BY <1>1 DEF MAX_TCACHE_SIZE, tidx2usize
<1> HIDE DEF top
<1>3. n + SIZE_SZ + MALLOC_ALIGNMENT - 1 < SIZE_T
  BY <1>1, <1>2, Units
<1>4. c \in Nat /\ ChunkSize(c) /\ c >= n + SIZE_SZ
  BY <1>1, <1>3, Request
<1>5. c <= MINSIZE + top
  <2>1. MINSIZE + top \in Nat /\ MINSIZE + top >= MINSIZE /\ MINSIZE + top >= n + SIZE_SZ
    BY <1>1, <1>2
  <2>2. (MINSIZE + top) % MALLOC_ALIGNMENT = 0
    <3>1. top % MALLOC_ALIGNMENT = 0
      BY <1>1, <1>2, Divides
    <3>2. MINSIZE \in Int /\ top \in Int
      BY <1>1, <1>2
    <3> QED
      BY <1>1, <3>1, <3>2, SumOfMultiples
  <2> DEFINE s == MINSIZE + top
  <2>3. s \in Nat /\ ChunkSize(s) /\ s >= n + SIZE_SZ
    BY <2>1, <2>2 DEF ChunkSize
  <2> HIDE DEF s
  <2>4. request2size(n) <= s
    BY <1>1, <1>3, <2>3, LeastForRequest
  <2> QED
    BY <2>4 DEF s
<1>6. /\ usize2tidx(n) = idx /\ do_set_tcache_max(n, 1) = idx + 1
  BY DEF usize2tidx, do_set_tcache_max
<1> HIDE DEF c
<1>7. idx \in Nat /\ c = MINSIZE + MALLOC_ALIGNMENT * idx
  BY <1>4, TcacheIndex
<1> HIDE DEF idx
<1>8. tidx2usize(idx) = c - SIZE_SZ
  <2>1. idx * MALLOC_ALIGNMENT = MALLOC_ALIGNMENT * idx /\ MALLOC_ALIGNMENT * idx \in Int
    BY <1>1, <1>7
  <2> QED
    BY <1>1, <1>4, <1>7, <2>1 DEF tidx2usize
<1>9. idx <= TCACHE_MAX_BINS - 1
  <2> DEFINE e == idx - (TCACHE_MAX_BINS - 1)
  <2>1. e \in Int /\ MALLOC_ALIGNMENT * e <= 0
    BY <1>1, <1>2, <1>5, <1>7
  <2> HIDE DEF e
  <2>2. e <= 0
    BY <1>1, <2>1
  <2> QED
    BY <1>1, <1>7, <2>2 DEF e
<1>10. idx + 1 \in 1 .. TCACHE_MAX_BINS /\ idx < idx + 1 /\ n <= c - SIZE_SZ
  BY <1>1, <1>4, <1>7, <1>9
<1>11. tidx2usize(idx) <= c - SIZE_SZ /\ n <= tidx2usize(idx)
  BY <1>1, <1>4, <1>8, <1>10
<1>12. /\ do_set_tcache_max(n, 1) \in 1 .. TCACHE_MAX_BINS
       /\ usize2tidx(n) < do_set_tcache_max(n, 1)
       /\ n <= tidx2usize(usize2tidx(n))
  BY <1>6, <1>10, <1>11
<1> QED
  BY <1>11, <1>12 DEF idx, c

-----------------------------------------------------------------------------
(* Bins.                                                                   *)

\* Row r of the table is the one for s.
RowOf(r, s) ==
  /\ r \in DOMAIN LARGE_STEPS
  /\ s \div LARGE_STEPS[r].width <= LARGE_STEPS[r].last
  /\ \A q \in DOMAIN LARGE_STEPS : q < r => ~(s \div LARGE_STEPS[q].width <= LARGE_STEPS[q].last)

\* What a row is.
LEMMA Rows ==
  ASSUME NEW r \in DOMAIN LARGE_STEPS
  PROVE  /\ r \in Nat
         /\ LARGE_STEPS[r].width \in Nat \ {0} /\ LARGE_STEPS[r].last \in Nat
         /\ LARGE_STEPS[r].base \in Nat
         /\ LARGE_STEPS[r].base + LARGE_STEPS[r].last <= NBINS - 2
         /\ NSMALLBINS <= LARGE_STEPS[r].base + (MIN_LARGE_SIZE \div LARGE_STEPS[r].width)
  BY TablesAssumption DEF LargeStepsFit, RowsMeet

\* Either a row is for s, or the last bin is.
LEMMA LargeIndex ==
  ASSUME NEW s \in Nat
  PROVE  \/ /\ \A r \in DOMAIN LARGE_STEPS : ~(s \div LARGE_STEPS[r].width <= LARGE_STEPS[r].last)
            /\ largebin_index(s) = NBINS - 2
         \/ \E r : RowOf(r, s) /\ largebin_index(s) = LARGE_STEPS[r].base + (s \div LARGE_STEPS[r].width)
<1> DEFINE rows == { r \in DOMAIN LARGE_STEPS : s \div LARGE_STEPS[r].width <= LARGE_STEPS[r].last }
<1>1. largebin_index(s) = IF rows = {} THEN NBINS - 2
                          ELSE LARGE_STEPS[Min(rows)].base + (s \div LARGE_STEPS[Min(rows)].width)
  BY DEF largebin_index
<1>2. CASE rows = {}
  BY <1>1, <1>2
<1>3. CASE rows # {}
  <2>1. rows \subseteq Nat
    BY Rows
  <2>2. \E m \in rows : \A q \in rows : m <= q
    BY <1>3, <2>1, LeastNumber
  <2> DEFINE r == Min(rows)
  <2>3. r \in rows /\ \A q \in rows : r <= q
    BY <2>2 DEF Min
  <2>4. largebin_index(s) = LARGE_STEPS[r].base + (s \div LARGE_STEPS[r].width)
    BY <1>1, <1>3
  <2> HIDE DEF r
  <2>5. RowOf(r, s)
    BY <2>1, <2>3 DEF RowOf
  <2> QED
    BY <2>4, <2>5
<1> QED
  BY <1>2, <1>3

\* The numbers of large bins.
LEMMA LargeRange ==
  ASSUME NEW s \in Nat
  PROVE  /\ largebin_index(s) \in Nat /\ largebin_index(s) <= NBINS - 2
         /\ ~in_smallbin_range(s) => largebin_index(s) >= NSMALLBINS
<1>1. NBINS \in Nat /\ NSMALLBINS \in Nat \ {0} /\ NSMALLBINS <= NBINS - 2
  BY TablesAssumption DEF LargeStepsFit
<1>2. CASE largebin_index(s) = NBINS - 2
  BY <1>1, <1>2
<1>3. ASSUME NEW r, RowOf(r, s), largebin_index(s) = LARGE_STEPS[r].base + (s \div LARGE_STEPS[r].width)
      PROVE  /\ largebin_index(s) \in Nat /\ largebin_index(s) <= NBINS - 2
             /\ ~in_smallbin_range(s) => largebin_index(s) >= NSMALLBINS
  <2> DEFINE w == LARGE_STEPS[r].width
             last == LARGE_STEPS[r].last
             base == LARGE_STEPS[r].base
             q == s \div w
             l == MIN_LARGE_SIZE \div w
  <2>1. /\ w \in Nat \ {0} /\ last \in Nat /\ base \in Nat
        /\ base + last <= NBINS - 2 /\ NSMALLBINS <= base + l
        /\ q <= last /\ largebin_index(s) = base + q
    BY <1>3, Rows DEF RowOf
  <2> HIDE DEF w, last, base
  <2>2. q \in Nat
    BY <2>1, Quotient
  <2>3. MIN_LARGE_SIZE \in Nat
    <3>1. SMALLBIN_CORRECTION \in {0, 1}
      BY DEF SMALLBIN_CORRECTION
    <3>2. NSMALLBINS - SMALLBIN_CORRECTION \in Nat /\ MALLOC_ALIGNMENT \in Nat
      BY <1>1, <3>1, Units
    <3> QED
      BY <3>2 DEF MIN_LARGE_SIZE
  <2>4. l \in Nat
    BY <2>1, <2>3, Quotient
  <2>5. ~in_smallbin_range(s) => l <= q
    <3> SUFFICES ASSUME ~in_smallbin_range(s) PROVE l <= q
      OBVIOUS
    <3>1. MIN_LARGE_SIZE <= s
      BY <2>3 DEF in_smallbin_range
    <3> QED
      BY <2>1, <2>3, <3>1, QuotientOrder
  <2> HIDE DEF q, l
  <2> QED
    BY <1>1, <2>1, <2>2, <2>4, <2>5
<1> QED
  BY <1>2, <1>3, LargeIndex

\* Large bins are in order of size.
LEMMA LargeOrder ==
  ASSUME NEW s \in Nat, NEW t \in Nat, s <= t
  PROVE  largebin_index(s) <= largebin_index(t)
<1>1. largebin_index(s) \in Nat /\ largebin_index(s) <= NBINS - 2
  BY LargeRange
<1>2. CASE largebin_index(t) = NBINS - 2
  BY <1>1, <1>2
<1>3. ASSUME NEW q, RowOf(q, t), largebin_index(t) = LARGE_STEPS[q].base + (t \div LARGE_STEPS[q].width)
      PROVE  largebin_index(s) <= largebin_index(t)
  <2> DEFINE wq == LARGE_STEPS[q].width
             bq == LARGE_STEPS[q].base
  <2>1. q \in DOMAIN LARGE_STEPS /\ q \in Nat /\ wq \in Nat \ {0} /\ bq \in Nat
    BY <1>3, Rows DEF RowOf
  <2>2. s \div wq <= t \div wq /\ s \div wq \in Nat /\ t \div wq \in Nat
    BY <2>1, QuotientOrder, Quotient
  <2>3. s \div wq <= LARGE_STEPS[q].last
    <3>1. t \div wq <= LARGE_STEPS[q].last /\ LARGE_STEPS[q].last \in Nat
      BY <1>3, Rows DEF RowOf
    <3> QED
      BY <2>2, <3>1
  <2>4. PICK r : RowOf(r, s) /\ largebin_index(s) = LARGE_STEPS[r].base + (s \div LARGE_STEPS[r].width)
    BY <2>1, <2>3, LargeIndex
  <2> DEFINE wr == LARGE_STEPS[r].width
             br == LARGE_STEPS[r].base
             last == LARGE_STEPS[r].last
  <2>5. /\ r \in DOMAIN LARGE_STEPS /\ r \in Nat
        /\ wr \in Nat \ {0} /\ br \in Nat /\ last \in Nat /\ s \div wr <= last
    BY <2>4, Rows DEF RowOf
  <2>6. r <= q
    BY <2>1, <2>3, <2>4, <2>5 DEF RowOf
  <2>7. CASE r = q
    BY <1>3, <2>1, <2>2, <2>4, <2>7
  <2>8. CASE r < q
    <3>1. br + last <= bq + (((last + 1) * wr) \div wq)
      BY <2>1, <2>5, <2>8, TablesAssumption DEF LargeStepsFit, RowsMeet
    <3>2. ~(t \div wr <= last)
      BY <1>3, <2>5, <2>8 DEF RowOf
    <3> HIDE DEF wr, wq, br, bq, last
    <3>3. (last + 1) * wr <= t
      <4>1. t \div wr \in Nat /\ last + 1 \in Nat
        BY <2>5, Quotient
      <4>2. last + 1 <= t \div wr
        BY <2>5, <3>2, <4>1
      <4> QED
        BY <2>5, <4>1, <4>2, Quotient
    <3>4. (last + 1) * wr \in Nat
      BY <2>5
    <3> DEFINE m == (last + 1) * wr
    <3>5. m \in Nat /\ m <= t
      BY <3>3, <3>4
    <3> HIDE DEF m
    <3>6. m \div wq <= t \div wq /\ m \div wq \in Nat
      BY <2>1, <3>5, QuotientOrder, Quotient
    <3>7. br + last <= bq + (m \div wq)
      BY <3>1 DEF m
    <3>8. s \div wr \in Nat
      BY <2>5, Quotient
    <3>9. largebin_index(s) = br + (s \div wr) /\ largebin_index(t) = bq + (t \div wq)
      BY <1>3, <2>4 DEF wr, wq, br, bq
    <3> DEFINE x == s \div wr
               y == t \div wq
               z == m \div wq
    <3> HIDE DEF x, y, z
    <3>10. /\ x \in Nat /\ y \in Nat /\ z \in Nat /\ x <= last /\ z <= y /\ br + last <= bq + z
           /\ largebin_index(s) = br + x /\ largebin_index(t) = bq + y
      BY <2>2, <2>5, <3>6, <3>7, <3>8, <3>9 DEF x, y, z
    <3> QED
      BY <2>1, <2>5, <3>10
  <2> QED
    BY <2>1, <2>5, <2>6, <2>7, <2>8
<1> QED
  BY <1>2, <1>3, LargeIndex

\* The numbers of small bins.
LEMMA SmallRange ==
  ASSUME NEW s \in Nat, in_smallbin_range(s)
  PROVE  /\ smallbin_index(s) \in Nat /\ smallbin_index(s) < NSMALLBINS
         /\ s >= MINSIZE => smallbin_index(s) >= 2
<1> DEFINE q == s \div MALLOC_ALIGNMENT
           slots == NSMALLBINS - SMALLBIN_CORRECTION
<1>1. /\ NSMALLBINS \in Nat \ {0} /\ MALLOC_ALIGNMENT \in Nat \ {0} /\ SIZE_SZ \in Nat \ {0}
      /\ MALLOC_ALIGNMENT >= 2 * SIZE_SZ
  BY Units, TablesAssumption DEF LargeStepsFit
<1>2. /\ SMALLBIN_CORRECTION \in {0, 1}
      /\ SMALLBIN_CORRECTION = 0 => MALLOC_ALIGNMENT <= 2 * SIZE_SZ
  BY <1>1 DEF SMALLBIN_CORRECTION, CHUNK_HDR_SZ
<1>3. q \in Nat /\ \A k \in Nat : k <= q <=> k * MALLOC_ALIGNMENT <= s
  BY <1>1, Quotient
<1>4. slots \in Nat /\ ~(slots * MALLOC_ALIGNMENT <= s)
  <2>1. slots \in Nat
    BY <1>1, <1>2
  <2>2. slots * MALLOC_ALIGNMENT \in Nat
    BY <1>1, <2>1
  <2> QED
    BY <2>1, <2>2 DEF in_smallbin_range, MIN_LARGE_SIZE
<1>5. smallbin_index(s) = q + SMALLBIN_CORRECTION
  BY DEF smallbin_index
<1> HIDE DEF q
<1>6. ~(slots <= q)
  BY <1>3, <1>4
<1>7. ASSUME s >= MINSIZE PROVE q + SMALLBIN_CORRECTION >= 2
  <2>1. MINSIZE \in Nat /\ MINSIZE >= MALLOC_ALIGNMENT /\ MINSIZE >= 4 * SIZE_SZ
    BY LeastChunk
  <2>2. CASE SMALLBIN_CORRECTION = 1
    <3>1. 1 <= q
      BY <1>1, <1>3, <1>7, <2>1
    <3> QED
      BY <1>3, <2>2, <3>1
  <2>3. CASE SMALLBIN_CORRECTION = 0
    <3>1. 2 * MALLOC_ALIGNMENT <= s
      BY <1>1, <1>2, <1>7, <2>1, <2>3
    <3>2. 2 <= q
      BY <1>3, <3>1
    <3> QED
      BY <1>3, <2>3, <3>2
  <2> QED
    BY <1>2, <2>2, <2>3
<1> QED
  BY <1>1, <1>2, <1>3, <1>4, <1>5, <1>6, <1>7

\* All bins are in order of size.
LEMMA BinOrder ==
  ASSUME NEW s \in Nat, NEW t \in Nat, s <= t
  PROVE  bin_index(s) <= bin_index(t)
<1>1. NSMALLBINS \in Nat /\ SMALLBIN_CORRECTION \in {0, 1} /\ MALLOC_ALIGNMENT \in Nat \ {0}
  BY Units, TablesAssumption DEF LargeStepsFit, SMALLBIN_CORRECTION
<1>2. MIN_LARGE_SIZE \in Int
  BY <1>1 DEF MIN_LARGE_SIZE
<1>3. in_smallbin_range(t) => in_smallbin_range(s)
  BY <1>2 DEF in_smallbin_range
<1>4. CASE in_smallbin_range(t)
  <2>1. s \div MALLOC_ALIGNMENT <= t \div MALLOC_ALIGNMENT
    BY <1>1, QuotientOrder
  <2>2. s \div MALLOC_ALIGNMENT \in Nat /\ t \div MALLOC_ALIGNMENT \in Nat
    BY <1>1, Quotient
  <2>3. smallbin_index(s) <= smallbin_index(t)
    BY <1>1, <2>1, <2>2 DEF smallbin_index
  <2> QED
    BY <1>3, <1>4, <2>3 DEF bin_index
<1>5. CASE ~in_smallbin_range(t) /\ in_smallbin_range(s)
  <2>1. smallbin_index(s) \in Nat /\ smallbin_index(s) < NSMALLBINS
    BY <1>5, SmallRange
  <2>2. largebin_index(t) \in Nat /\ largebin_index(t) >= NSMALLBINS
    BY <1>5, LargeRange
  <2>3. smallbin_index(s) <= largebin_index(t)
    BY <1>1, <2>1, <2>2
  <2> QED
    BY <1>5, <2>3 DEF bin_index
<1>6. CASE ~in_smallbin_range(t) /\ ~in_smallbin_range(s)
  BY <1>6, LargeOrder DEF bin_index
<1> QED
  BY <1>4, <1>5, <1>6

LEMMA BinsFit == ASSUME NumberOK PROVE BinsOrderedBySize
<1> DEFINE next == size + MALLOC_ALIGNMENT
<1>1. /\ MALLOC_ALIGNMENT \in Nat \ {0} /\ NSMALLBINS \in Nat \ {0} /\ NBINS \in Nat
      /\ NSMALLBINS <= NBINS - 2 /\ SMALLBIN_CORRECTION \in {0, 1}
  BY Units, TablesAssumption DEF LargeStepsFit, SMALLBIN_CORRECTION
<1>2. size \in Nat /\ size >= MINSIZE
  BY SizeAndChunk DEF ChunkSize
<1>3. next \in Nat /\ size <= next
  BY <1>1, <1>2
<1>4. bin_index(size) \in 2 .. NBINS - 1
  <2>1. CASE in_smallbin_range(size)
    <3>1. /\ smallbin_index(size) \in Nat /\ smallbin_index(size) < NSMALLBINS
          /\ smallbin_index(size) >= 2
      BY <1>2, <2>1, SmallRange
    <3> QED
      BY <1>1, <2>1, <3>1 DEF bin_index
  <2>2. CASE ~in_smallbin_range(size)
    <3>1. /\ largebin_index(size) \in Nat /\ largebin_index(size) <= NBINS - 2
          /\ largebin_index(size) >= NSMALLBINS
      BY <1>2, <2>2, LargeRange
    <3>2. NSMALLBINS >= 2
      BY TablesAssumption DEF LargeStepsFit
    <3> QED
      BY <1>1, <2>2, <3>1, <3>2 DEF bin_index
  <2> QED
    BY <2>1, <2>2
<1>5. bin_index(size) <= bin_index(next)
  BY <1>2, <1>3, BinOrder
<1>6. ASSUME in_smallbin_range(size) PROVE bin_index(size) < bin_index(next)
  <2>1. smallbin_index(size) \in Nat /\ smallbin_index(size) < NSMALLBINS
    BY <1>2, <1>6, SmallRange
  <2>2. CASE in_smallbin_range(next)
    <3> DEFINE q == size \div MALLOC_ALIGNMENT
               k == q + 1
    <3>1. q \in Nat /\ q * MALLOC_ALIGNMENT <= size
      BY <1>1, <1>2, Quotient
    <3> HIDE DEF q
    <3>2. k \in Nat /\ k * MALLOC_ALIGNMENT <= next
      BY <1>1, <1>2, <3>1
    <3>3. next \div MALLOC_ALIGNMENT \in Nat /\ k <= next \div MALLOC_ALIGNMENT
      BY <1>1, <1>3, <3>2, Quotient
    <3>4. smallbin_index(size) < smallbin_index(next)
      BY <1>1, <3>1, <3>3 DEF smallbin_index, q
    <3> QED
      BY <1>6, <2>2, <3>4 DEF bin_index
  <2>3. CASE ~in_smallbin_range(next)
    <3>1. largebin_index(next) \in Nat /\ largebin_index(next) >= NSMALLBINS
      BY <1>3, <2>3, LargeRange
    <3> QED
      BY <1>1, <1>6, <2>1, <2>3, <3>1 DEF bin_index
  <2> QED
    BY <2>2, <2>3
<1> QED
  BY <1>4, <1>5, <1>6 DEF BinsOrderedBySize

-----------------------------------------------------------------------------
(* memalign and malloc_trim.                                               *)

\* The alignment memalign works with is a multiple of what chunks have anyway.
LEMMA MemalignAlignment ==
  ASSUME NEW wanted \in ALIGNMENTS
  PROVE  LET a == memalign_alignment(wanted)
         IN  a \in Nat \ {0} /\ a >= wanted /\ a >= MINSIZE /\ a % MALLOC_ALIGNMENT = 0
<1> DEFINE good == { a \in powers_of_two : a >= wanted /\ a >= MINSIZE }
           a == memalign_alignment(wanted)
<1>1. /\ powers_of_two \subseteq Nat \ {0} /\ SIZE_T \div 2 \in powers_of_two
      /\ MINSIZE <= SIZE_T \div 2
      /\ \A p \in powers_of_two : p >= MALLOC_ALIGNMENT => p % MALLOC_ALIGNMENT = 0
      /\ wanted \in 0 .. SIZE_T \div 2
  BY AlignmentAssumption DEF PowersFit
<1>2. good \subseteq Nat /\ SIZE_T \div 2 \in good
  <2> DEFINE h == SIZE_T \div 2
  <2>1. h \in Nat /\ MINSIZE \in Nat /\ h \in powers_of_two /\ MINSIZE <= h /\ wanted \in 0 .. h
    BY <1>1, LeastChunk
  <2> HIDE DEF h
  <2>2. h >= wanted /\ h >= MINSIZE
    BY <2>1
  <2>3. h \in good
    BY <2>1, <2>2
  <2>4. good \subseteq Nat
    BY <1>1
  <2> QED
    BY <2>3, <2>4 DEF h
<1>3. \E x \in good : \A y \in good : x <= y
  BY <1>2, LeastNumber
<1>4. a = Min(good)
  BY DEF memalign_alignment
<1>5. a \in good
  BY <1>3, <1>4 DEF Min
<1> HIDE DEF a
<1>6. a \in powers_of_two /\ a \in Nat \ {0} /\ a >= wanted /\ a >= MINSIZE
  BY <1>1, <1>5
<1>7. a >= MALLOC_ALIGNMENT
  BY <1>6, LeastChunk, Units
<1> QED
  BY <1>1, <1>6, <1>7 DEF a

LEMMA MemalignFits == ASSUME NumberOK PROVE MemalignFindsRoom
<1> SUFFICES ASSUME NEW wanted \in ALIGNMENTS, NEW nb \in NEEDS,
                    nb + memalign_alignment(wanted) + MINSIZE <= PTRDIFF_MAX
             PROVE  LET a    == memalign_alignment(wanted)
                        got  == request2size(memalign_request(nb, a))
                        lead == memalign_leadsize(chunk, a)
                    IN  /\ a >= wanted
                        /\ (chunk + lead + CHUNK_HDR_SZ) % a = 0
                        /\ lead = 0 \/ ChunkSize(lead)
                        /\ got - lead >= nb
  BY DEF MemalignFindsRoom
<1> DEFINE a    == memalign_alignment(wanted)
           m    == chunk + CHUNK_HDR_SZ
           near == (-m) % a
           lead == memalign_leadsize(chunk, a)
           req  == nb + a + MINSIZE
           got  == request2size(memalign_request(nb, a))
<1>1. a \in Nat \ {0} /\ a >= wanted /\ a >= MINSIZE /\ a % MALLOC_ALIGNMENT = 0
  BY MemalignAlignment
<1>2. /\ nb \in Nat /\ MINSIZE \in Nat /\ SIZE_SZ \in Nat \ {0} /\ MALLOC_ALIGNMENT \in Nat \ {0}
      /\ chunk \in Int /\ CHUNK_HDR_SZ \in Int /\ m \in Int /\ m % MALLOC_ALIGNMENT = 0
      /\ req <= PTRDIFF_MAX
  BY AlignmentAssumption, LeastChunk, Units, SizeAndChunk DEF PowersFit, CHUNK_HDR_SZ
<1>3. lead = IF near > 0 /\ near < MINSIZE THEN near + a ELSE near
  BY DEF memalign_leadsize
<1>4. got = request2size(Wrap(req))
  BY DEF memalign_request
<1>5. m + lead = chunk + lead + CHUNK_HDR_SZ
  <2>1. near \in Int
    <3> HIDE DEF a, m
    <3>1. near \in 0 .. a - 1
      BY <1>1, <1>2, Up
    <3> QED
      BY <1>1, <3>1
  <2>2. lead \in Int
    BY <1>1, <1>3, <2>1
  <2> HIDE DEF lead
  <2> QED
    BY <1>2, <2>2
<1> HIDE DEF a, m, lead, got
<1>6. near \in 0 .. a - 1 /\ (m + near) % a = 0
  BY <1>1, <1>2, Up
<1> HIDE DEF near
<1>7. lead \in Nat /\ (m + lead) % a = 0 /\ lead < a + MINSIZE /\ (lead = 0 \/ lead >= MINSIZE)
  <2>1. CASE near > 0 /\ near < MINSIZE
    <3>1. lead = near + a
      BY <1>3, <2>1
    <3>2. a % a = 0 /\ m + near \in Int /\ a \in Int
      BY <1>1, <1>2, <1>6
    <3>3. ((m + near) + a) % a = 0
      BY <1>1, <1>6, <3>2, SumOfMultiples
    <3>4. (m + near) + a = m + lead
      BY <1>1, <1>2, <1>6, <3>1
    <3> QED
      BY <1>1, <1>2, <1>6, <2>1, <3>1, <3>3, <3>4
  <2>2. CASE ~(near > 0 /\ near < MINSIZE)
    <3>1. lead = near
      BY <1>3, <2>2
    <3> QED
      BY <1>1, <1>2, <1>6, <2>2, <3>1
  <2> QED
    BY <2>1, <2>2
<1>8. lead % MALLOC_ALIGNMENT = 0
  <2> DEFINE x == m + lead
  <2>1. x \in Int /\ lead = x - m
    BY <1>2, <1>7
  <2>2. x % a = 0
    BY <1>7
  <2> HIDE DEF x
  <2>3. x % MALLOC_ALIGNMENT = 0
    BY <1>1, <1>2, <2>1, <2>2, MultipleOfMultiple
  <2>4. (x - m) % MALLOC_ALIGNMENT = 0
    BY <1>2, <2>1, <2>3, SumOfMultiples
  <2> QED
    BY <2>1, <2>4
<1>9. got \in Nat /\ got >= req + SIZE_SZ
  <2>1. req \in Nat /\ req < SIZE_T /\ req + SIZE_SZ + MALLOC_ALIGNMENT - 1 < SIZE_T
    BY <1>1, <1>2, Units
  <2> HIDE DEF req
  <2>2. Wrap(req) = req
    BY <2>1, NoWrap
  <2> QED
    BY <1>4, <2>1, <2>2, Request
<1>10. got - lead >= nb
  BY <1>1, <1>2, <1>7, <1>9
<1>11. (chunk + lead + CHUNK_HDR_SZ) % a = 0
  BY <1>5, <1>7
<1>12. lead = 0 \/ ChunkSize(lead)
  BY <1>7, <1>8 DEF ChunkSize
<1> QED
  BY <1>1, <1>10, <1>11, <1>12 DEF a, lead, got

LEMMA TrimFits == ASSUME NumberOK PROVE TrimmedPagesAreUnused
<1> SUFFICES ASSUME NEW off \in OFFSETS
             PROVE  LET p     == (chunk % DL_PAGESIZE) + off
                        part  == mtrim_pages(p, size)
                        pages == { g \in { k * DL_PAGESIZE : k \in 0 .. 4 } :
                                     p + MALLOC_CHUNK_SIZE <= g /\ g + DL_PAGESIZE <= p + size }
                    IN  /\ part.len > 0 => /\ part.from % DL_PAGESIZE = 0 /\ part.len % DL_PAGESIZE = 0
                                           /\ p + MALLOC_CHUNK_SIZE <= part.from
                                           /\ part.from + part.len <= p + size
                                           /\ bin_index(size) >= bin_index(DL_PAGESIZE)
                        /\ pages # {} => part.len > 0
  BY DEF TrimmedPagesAreUnused
<1> DEFINE p     == (chunk % DL_PAGESIZE) + off
           part  == mtrim_pages(p, size)
           start == p + MALLOC_CHUNK_SIZE
           from  == start + ((-start) % DL_PAGESIZE)
           len   == AlignDown(p + size - from, DL_PAGESIZE)
           room  == size > DL_PAGESIZE - 1 + MALLOC_CHUNK_SIZE /\ p + size - from >= DL_PAGESIZE
<1>1. /\ DL_PAGESIZE \in Nat \ {0} /\ off \in Int /\ chunk \in Int /\ size \in Nat
      /\ SIZE_SZ \in Nat \ {0} /\ MALLOC_CHUNK_SIZE \in Nat
  BY AlignmentAssumption, Units, SizeAndChunk DEF PagesFit, MALLOC_CHUNK_SIZE
<1>2. p \in Int
  <2>1. chunk % DL_PAGESIZE \in 0 .. DL_PAGESIZE - 1
    BY <1>1, Division
  <2> QED
    BY <1>1, <2>1
<1>3. part = IF room THEN [from |-> from, len |-> len] ELSE [from |-> 0, len |-> 0]
  BY DEF mtrim_pages
<1> HIDE DEF p, part
<1>4. start \in Int
  BY <1>1, <1>2
<1> HIDE DEF start
<1>5. from \in Int /\ from >= start /\ from < start + DL_PAGESIZE /\ from % DL_PAGESIZE = 0
  <2>1. (-start) % DL_PAGESIZE \in 0 .. DL_PAGESIZE - 1 /\ from % DL_PAGESIZE = 0
    BY <1>1, <1>4, Up
  <2> QED
    BY <1>1, <1>4, <2>1
<1> HIDE DEF from
<1>6. len \in Int /\ len % DL_PAGESIZE = 0 /\ len <= p + size - from /\ len > p + size - from - DL_PAGESIZE
  <2> DEFINE m == p + size - from
  <2>1. m \in Int
    BY <1>1, <1>2, <1>5
  <2> HIDE DEF m
  <2>2. /\ AlignDown(m, DL_PAGESIZE) \in Int /\ AlignDown(m, DL_PAGESIZE) % DL_PAGESIZE = 0
        /\ AlignDown(m, DL_PAGESIZE) <= m /\ AlignDown(m, DL_PAGESIZE) > m - DL_PAGESIZE
    BY <1>1, <2>1, Down
  <2>3. len = AlignDown(m, DL_PAGESIZE)
    BY DEF m
  <2> HIDE DEF len
  <2>4. len \in Int /\ len % DL_PAGESIZE = 0 /\ len <= m /\ len > m - DL_PAGESIZE
    BY <2>2, <2>3
  <2> QED
    BY <1>1, <1>2, <1>5, <2>4 DEF m
<1> HIDE DEF len
<1>7. ASSUME part.len > 0
      PROVE  /\ part.from % DL_PAGESIZE = 0 /\ part.len % DL_PAGESIZE = 0
             /\ p + MALLOC_CHUNK_SIZE <= part.from
             /\ part.from + part.len <= p + size
             /\ bin_index(size) >= bin_index(DL_PAGESIZE)
  <2>1. room /\ part.from = from /\ part.len = len
    <3>1. ~room => part.len = 0
      BY <1>3
    <3>2. room
      BY <1>7, <3>1
    <3> QED
      BY <1>3, <3>2
  <2>2. DL_PAGESIZE \in Nat /\ DL_PAGESIZE <= size
    BY <1>1, <2>1
  <2>3. bin_index(DL_PAGESIZE) <= bin_index(size)
    BY <1>1, <2>2, BinOrder
  <2>4. bin_index(size) >= bin_index(DL_PAGESIZE)
    BY <2>3
  <2>5. p + MALLOC_CHUNK_SIZE <= from /\ from + len <= p + size
    BY <1>1, <1>2, <1>5, <1>6 DEF start
  <2> QED
    BY <1>5, <1>6, <2>1, <2>4, <2>5
<1>8. ASSUME NEW k \in 0 .. 4,
             p + MALLOC_CHUNK_SIZE <= k * DL_PAGESIZE, k * DL_PAGESIZE + DL_PAGESIZE <= p + size
      PROVE  part.len > 0
  <2> DEFINE g == k * DL_PAGESIZE
  <2>1. g \in Int /\ g = DL_PAGESIZE * k /\ k \in Int
    BY <1>1
  <2>2. g % DL_PAGESIZE = 0
    BY <1>1, <2>1, Divides
  <2>3. start <= g /\ g + DL_PAGESIZE <= p + size
    BY <1>8 DEF start
  <2> HIDE DEF g
  <2>4. from <= g
    <3>1. from < g + DL_PAGESIZE
      BY <1>1, <1>4, <1>5, <2>1, <2>3
    <3> QED
      BY <1>1, <1>5, <2>1, <2>2, <3>1, LessMultiple
  <2>5. p + size - from >= DL_PAGESIZE
    BY <1>1, <1>2, <1>5, <2>1, <2>3, <2>4
  <2>6. size > DL_PAGESIZE - 1 + MALLOC_CHUNK_SIZE
    BY <1>1, <1>2, <2>1, <2>3 DEF start
  <2>7. part.len = len
    BY <1>3, <2>5, <2>6
  <2> QED
    BY <1>1, <1>2, <1>5, <1>6, <2>5, <2>7
<1> QED
  BY <1>7, <1>8 DEF p, part

-----------------------------------------------------------------------------
(***************************************************************************)
(* A request gets the least chunk that holds it; what memalign asks for    *)
(* has room for an aligned chunk (request2size, _int_memalign).            *)
(***************************************************************************)
THEOREM ChunksFit == Spec => []ChunkFits
<1>1. NumberOK => ChunkFits
  BY RequestsFit, MemalignFits DEF ChunkFits
<1> QED
  BY <1>1, NumberInv, PTL

(***************************************************************************)
(* Every chunk has a bin, in order of size, and the sizes that mallopt     *)
(* makes fast or cached have a fastbin or a cache bin that fits them       *)
(* (bin_index, set_max_fast, csize2tidx).                                  *)
(***************************************************************************)
THEOREM EverySizeHasItsBin == Spec => []BinsFitSizes
<1>1. NumberOK => BinsFitSizes
  BY BinsFit, FastbinsFit, TcacheFitsLimit DEF BinsFitSizes
<1> QED
  BY <1>1, NumberInv, PTL

\* malloc_trim gives back unused pages only, and whenever there is one (mtrim).
THEOREM TrimTakesUnusedPages == Spec => []TrimmedPagesAreUnused
<1>1. NumberOK => TrimmedPagesAreUnused
  BY TrimFits
<1> QED
  BY <1>1, NumberInv, PTL
=============================================================================
