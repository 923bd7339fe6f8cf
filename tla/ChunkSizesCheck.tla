--------------------------- MODULE ChunkSizesCheck ---------------------------
(***************************************************************************)
(* What the size arithmetic of malloc-impl.c has to satisfy for the code   *)
(* around it to be right, compared with reference definitions one number n *)
(* at a time.  n is a request in bytes, or counts MALLOC_ALIGNMENTs where  *)
(* the argument is the size or the address of a chunk.                     *)
(***************************************************************************)
EXTENDS ChunkSizes

CONSTANTS
  ALIGNMENTS,  \* alignments memalign is asked for,
  NEEDS,       \* and the sizes of the chunks for it
  OFFSETS      \* where a free chunk lies within its page

\* The rows of a table of large bins stay inside the array and, for sizes from
\* least on, above the small bins; the last bin of a row is not behind the first of
\* a later one.
RowsMeet(rows, least) ==
  /\ DOMAIN rows \subseteq Nat
  /\ \A r \in DOMAIN rows :
       LET row == rows[r]
       IN  /\ row.width \in Nat \ {0} /\ row.last \in Nat /\ row.base \in Nat
           /\ row.base + row.last <= NBINS - 2
           /\ NSMALLBINS <= row.base + (least \div row.width)
           /\ \A q \in DOMAIN rows : r < q =>
                row.base + row.last <= rows[q].base + (((row.last + 1) * row.width) \div rows[q].width)

LargeStepsFit ==
  /\ NSMALLBINS \in Nat \ {0, 1} /\ NBINS \in Nat /\ NSMALLBINS <= NBINS - 2
  /\ RowsMeet(LARGE_STEPS, MIN_LARGE_SIZE)

\* The thread cache serves no request that malloc refuses.
TcacheFits == TCACHE_MAX_BINS \in Nat \ {0} /\ MAX_TCACHE_SIZE <= PTRDIFF_MAX

\* Powers of two from MALLOC_ALIGNMENT on are multiples of it; SIZE_MAX / 2 + 1 is
\* the largest in a size_t, and no alignment is larger.
PowersFit ==
  /\ powers_of_two \subseteq Nat \ {0} /\ SIZE_T \div 2 \in powers_of_two
  /\ MINSIZE <= SIZE_T \div 2
  /\ \A a \in powers_of_two : a >= MALLOC_ALIGNMENT => a % MALLOC_ALIGNMENT = 0
  /\ ALIGNMENTS \subseteq 0 .. SIZE_T \div 2 /\ NEEDS \subseteq Nat

PagesFit == DL_PAGESIZE \in Nat \ {0} /\ OFFSETS \subseteq Int

ASSUME TablesAssumption == LargeStepsFit /\ TcacheFits
ASSUME AlignmentAssumption == PowersFit /\ PagesFit

VARIABLE n

Init == n = 0
Next == n' = Wrap(n + 1)
Spec == Init /\ [][Next]_n

\* A chunk size is a multiple of MALLOC_ALIGNMENT, at least MINSIZE.
ChunkSize(s) == s % MALLOC_ALIGNMENT = 0 /\ s >= MINSIZE

\* The n-th multiple of MALLOC_ALIGNMENT, as a size and as the address of a
\* chunk (its memory, CHUNK_HDR_SZ further on, is what is aligned).
size == MINSIZE + n * MALLOC_ALIGNMENT
chunk == (n + 2) * MALLOC_ALIGNMENT - CHUNK_HDR_SZ

(***************************************************************************)
(* checked_request2size refuses what exceeds PTRDIFF_MAX and gives every   *)
(* other request the least chunk that holds it, where the word after the   *)
(* chunk (prev_size of the next one) belongs to the user.                  *)
(***************************************************************************)
RequestGetsLeastChunk ==
  LET r == checked_request2size(n)
  IN  /\ r.ok <=> n <= PTRDIFF_MAX
      /\ r.ok => /\ ChunkSize(r.sz)
                 /\ r.sz - SIZE_SZ >= n
                 /\ r.sz = MINSIZE \/ r.sz - SIZE_SZ - n < MALLOC_ALIGNMENT

(***************************************************************************)
(* Bins are ordered by size: no chunk of a later bin is shorter than one   *)
(* of an earlier bin, which is why _int_malloc may take any chunk of the   *)
(* next non-empty bin without looking at its size; a small bin holds one   *)
(* size only, which is why it may take the last of it; and no bin number   *)
(* is that of the unsorted list or beyond the array.                       *)
(***************************************************************************)
BinsOrderedBySize ==
  LET next == size + MALLOC_ALIGNMENT
  IN  /\ bin_index(size) \in 2 .. NBINS - 1
      /\ bin_index(size) <= bin_index(next)
      /\ in_smallbin_range(size) => bin_index(size) < bin_index(next)

(***************************************************************************)
(* Whatever limit mallopt accepts for M_MXFAST: global_max_fast is within  *)
(* the bound get_max_fast tells the compiler to assume, every size under   *)
(* it has a fastbin of its own inside the array, 0 turns fastbins off, and *)
(* no request beyond the limit is served from a fastbin.                   *)
(***************************************************************************)
FastbinsMatchLimit ==
  n <= MAX_FAST_SIZE =>
    LET max  == set_max_fast(n)
        fast == { s \in MINSIZE .. max : ChunkSize(s) }
    IN  /\ max <= MAX_FAST_SIZE
        /\ \A s \in fast : fastbin_index(s) \in 0 .. NFASTBINS - 1
        /\ \A s, t \in fast : fastbin_index(s) = fastbin_index(t) => s = t
        /\ n = 0 => fast = {}
        /\ request2size(n + 1) \notin fast

(***************************************************************************)
(* Whatever limit is set for the thread cache: its bins fit the array, a   *)
(* request within the limit has a bin, and a chunk put into a bin by its   *)
(* size holds every request that looks for it there.                       *)
(***************************************************************************)
TcacheBinsMatchLimit ==
  LET bins == do_set_tcache_max(n, 1)
      c    == request2size(n)
  IN  n <= MAX_TCACHE_SIZE =>
        /\ bins \in 1 .. TCACHE_MAX_BINS
        /\ usize2tidx(n) < bins
        /\ n <= tidx2usize(usize2tidx(n))
        /\ tidx2usize(csize2tidx(c)) <= c - SIZE_SZ

(***************************************************************************)
(* There is always an aligned spot: wherever the chunk of the padded       *)
(* request lies, the part before the aligned memory is nothing or a whole  *)
(* chunk, and what is left holds the request (the assertion at the end of  *)
(* _int_memalign).  Requests that exceed PTRDIFF_MAX with their padding    *)
(* are left out.                                                           *)
(***************************************************************************)
MemalignFindsRoom ==
  \A wanted \in ALIGNMENTS, nb \in NEEDS :
    LET a    == memalign_alignment(wanted)
        got  == request2size(memalign_request(nb, a))
        lead == memalign_leadsize(chunk, a)
    IN  nb + a + MINSIZE <= PTRDIFF_MAX =>
          /\ a >= wanted
          /\ (chunk + lead + CHUNK_HDR_SZ) % a = 0
          /\ lead = 0 \/ ChunkSize(lead)
          /\ got - lead >= nb

(***************************************************************************)
(* malloc_trim gives back whole pages that lie behind the links of a free  *)
(* chunk and before its end, gives back something whenever there is such a *)
(* page, and finds the chunk in a bin it visits.                           *)
(***************************************************************************)
TrimmedPagesAreUnused ==
  \A off \in OFFSETS :
    LET p     == (chunk % DL_PAGESIZE) + off
        part  == mtrim_pages(p, size)
        pages == { g \in { k * DL_PAGESIZE : k \in 0 .. 4 } :
                     p + MALLOC_CHUNK_SIZE <= g /\ g + DL_PAGESIZE <= p + size }
    IN  /\ part.len > 0 => /\ part.from % DL_PAGESIZE = 0 /\ part.len % DL_PAGESIZE = 0
                           /\ p + MALLOC_CHUNK_SIZE <= part.from
                           /\ part.from + part.len <= p + size
                           /\ bin_index(size) >= bin_index(DL_PAGESIZE)
        /\ pages # {} => part.len > 0

(***************************************************************************)
(* pvalloc asks for the least number of pages that holds the request, or   *)
(* for one byte more: the mask -(pagesize - 1) keeps the lowest bit of the *)
(* sum ("round up n to nearest pagesize", malloc-impl.c:745, is not quite  *)
(* so).  Near the top of size_t it fails.                                  *)
(***************************************************************************)
PvallocRoundsUp ==
  LET pages == n + ((-n) % DL_PAGESIZE)
  IN  pvalloc_bytes(n) \in IF n + DL_PAGESIZE - 1 < SIZE_T THEN pages .. pages + 1 ELSE {0}

\* A request gets the least chunk that holds it, and one for memalign is enough.
ChunkFits == RequestGetsLeastChunk /\ MemalignFindsRoom

\* Every size has its bin, in the right order, and the fast and the cached
\* sizes have one of these bins, whatever limit is set for them.
BinsFitSizes == BinsOrderedBySize /\ FastbinsMatchLimit /\ TcacheBinsMatchLimit
=============================================================================
