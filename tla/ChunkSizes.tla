----------------------------- MODULE ChunkSizes -----------------------------
(***************************************************************************)
(* The size arithmetic of glibc's malloc (docs/malloc-impl.c): requests to *)
(* chunk sizes, chunk sizes to bins, fastbins and thread cache bins, and   *)
(* the roundings of memalign, pvalloc and malloc_trim.  Nothing here has   *)
(* state; `x & ~MALLOC_ALIGN_MASK` is rounding down to MALLOC_ALIGNMENT.   *)
(***************************************************************************)
EXTENDS Integers, FiniteSetsExt

CONSTANTS
  SIZE_SZ,           \* sizeof (size_t): 8 or 4
  MALLOC_ALIGNMENT,  \* 16, or 8 on most 32-bit systems
  NSMALLBINS,        \* 64
  NBINS,             \* 128
  LARGE_STEPS,       \* the rows of largebin_index: [width, last, base]
  TCACHE_MAX_BINS,   \* 64
  WORD_BITS,         \* bits of a size_t: 64 or 32
  DL_PAGESIZE        \* GLRO (dl_pagesize)

ASSUME ChunkSizesAssumption ==
  /\ SIZE_SZ \in Nat \ {0}
  /\ MALLOC_ALIGNMENT \in Nat \ {0}
  /\ MALLOC_ALIGNMENT % (2 * SIZE_SZ) = 0
  /\ WORD_BITS \in Nat /\ 2^WORD_BITS \in Nat
  /\ 2^WORD_BITS > 8 * MALLOC_ALIGNMENT + 8 * SIZE_SZ

\* The number of values of a size_t.
SIZE_T == 2^WORD_BITS

Wrap(n) == n % SIZE_T

AlignDown(n, a) == n - (n % a)

CHUNK_HDR_SZ == 2 * SIZE_SZ

PTRDIFF_MAX == (SIZE_T \div 2) - 1

\* offsetof (struct malloc_chunk, fd_nextsize), and the whole structure.
MIN_CHUNK_SIZE == 4 * SIZE_SZ
MALLOC_CHUNK_SIZE == 6 * SIZE_SZ

MINSIZE == AlignDown(MIN_CHUNK_SIZE + MALLOC_ALIGNMENT - 1, MALLOC_ALIGNMENT)

\* Mutant: the size is rounded down.
Request2sizeRoundedDown(req) ==
  IF Wrap(req + SIZE_SZ) < MINSIZE THEN MINSIZE
  ELSE AlignDown(Wrap(req + SIZE_SZ), MALLOC_ALIGNMENT)

request2size(req) ==
  LET padded == Wrap(req + SIZE_SZ + MALLOC_ALIGNMENT - 1)
  IN  IF padded < MINSIZE THEN MINSIZE ELSE AlignDown(padded, MALLOC_ALIGNMENT)

checked_request2size(req) ==
  IF req > PTRDIFF_MAX THEN [ok |-> FALSE, sz |-> 0]
  ELSE [ok |-> TRUE, sz |-> request2size(req)]

-----------------------------------------------------------------------------
(* Bins.  Bin 0 does not exist, bin 1 is the unsorted list.                *)

SMALLBIN_CORRECTION == IF MALLOC_ALIGNMENT > CHUNK_HDR_SZ THEN 1 ELSE 0

MIN_LARGE_SIZE == (NSMALLBINS - SMALLBIN_CORRECTION) * MALLOC_ALIGNMENT

in_smallbin_range(sz) == sz < MIN_LARGE_SIZE

smallbin_index(sz) == (sz \div MALLOC_ALIGNMENT) + SMALLBIN_CORRECTION

\* Mutant: a row of largebin_index ends one unit of its width too late.
LargebinRowTooLong(sz) ==
  LET rows == { r \in DOMAIN LARGE_STEPS :
                  sz \div LARGE_STEPS[r].width <= LARGE_STEPS[r].last + 1 }
  IN  IF rows = {} THEN NBINS - 2
      ELSE LARGE_STEPS[Min(rows)].base + (sz \div LARGE_STEPS[Min(rows)].width)

largebin_index(sz) ==
  LET rows == { r \in DOMAIN LARGE_STEPS :
                  sz \div LARGE_STEPS[r].width <= LARGE_STEPS[r].last }
  IN  IF rows = {} THEN NBINS - 2
      ELSE LARGE_STEPS[Min(rows)].base + (sz \div LARGE_STEPS[Min(rows)].width)

bin_index(sz) == IF in_smallbin_range(sz) THEN smallbin_index(sz) ELSE largebin_index(sz)

-----------------------------------------------------------------------------
(* Fastbins.  The shift is 4 when SIZE_SZ is 8 and else 3.                 *)

fastbin_index(sz) == (sz \div (2 * SIZE_SZ)) - 2

MAX_FAST_SIZE == (80 * SIZE_SZ) \div 4

NFASTBINS == fastbin_index(request2size(MAX_FAST_SIZE)) + 1

\* The value of global_max_fast after set_max_fast (s).
set_max_fast(s) ==
  IF s <= MALLOC_ALIGNMENT - 1 - SIZE_SZ THEN MIN_CHUNK_SIZE \div 2
  ELSE AlignDown(s + SIZE_SZ, MALLOC_ALIGNMENT)

-----------------------------------------------------------------------------
(* Thread cache bins.                                                      *)

tidx2usize(idx) == idx * MALLOC_ALIGNMENT + MINSIZE - SIZE_SZ

csize2tidx(x) == (x - MINSIZE + MALLOC_ALIGNMENT - 1) \div MALLOC_ALIGNMENT

usize2tidx(x) == csize2tidx(request2size(x))

MAX_TCACHE_SIZE == tidx2usize(TCACHE_MAX_BINS - 1)

\* mp_.tcache_bins after do_set_tcache_max (value); a value that is too large
\* is refused.
do_set_tcache_max(value, old) ==
  IF value <= MAX_TCACHE_SIZE THEN csize2tidx(request2size(value)) + 1 ELSE old

-----------------------------------------------------------------------------
(* The roundings of memalign, pvalloc and malloc_trim.                     *)

powers_of_two == { 2^k : k \in 0 .. WORD_BITS - 1 }

\* The alignment _mid_memalign works with, for one that is more than
\* MALLOC_ALIGNMENT: at least MINSIZE, and the next power of two.
memalign_alignment(alignment) ==
  Min({ a \in powers_of_two : a >= alignment /\ a >= MINSIZE })

\* How far into chunk p _int_memalign puts the aligned chunk: at the first
\* aligned spot, or at the next one if the first leaves less than a chunk.
memalign_leadsize(p, alignment) ==
  LET lead == (-(p + CHUNK_HDR_SZ)) % alignment
  IN  IF lead > 0 /\ lead < MINSIZE THEN lead + alignment ELSE lead

\* The request _int_memalign makes of _int_malloc for a chunk of nb bytes.
memalign_request(nb, alignment) == Wrap(nb + alignment + MINSIZE)

\* Bit b of n.
Bit(n, b) == (n \div 2^b) % 2

\* n & -(m), for m a page less one: the bits of n that -(m) has.
AndMinus(n, m) ==
  SumSet({ 2^b * Bit(n, b) * Bit(SIZE_T - m, b) : b \in 0 .. WORD_BITS - 1 })

\* The length __libc_pvalloc asks _mid_memalign for; 0 when the sum overflows
\* (the call then fails).
pvalloc_bytes(bytes) ==
  IF bytes + DL_PAGESIZE - 1 >= SIZE_T THEN 0
  ELSE AndMinus(bytes + DL_PAGESIZE - 1, DL_PAGESIZE - 1)

\* Mutant: the links of the free chunk are not skipped.
PagesFromChunkStart(p, size) ==
  LET from == p + ((-p) % DL_PAGESIZE)
  IN  IF size > DL_PAGESIZE - 1 + MALLOC_CHUNK_SIZE /\ p + size - from >= DL_PAGESIZE
      THEN [from |-> from, len |-> AlignDown(p + size - from, DL_PAGESIZE)]
      ELSE [from |-> 0, len |-> 0]

\* What mtrim gives back of the free chunk p: whole pages after its links.
mtrim_pages(p, size) ==
  LET start == p + MALLOC_CHUNK_SIZE
      from  == start + ((-start) % DL_PAGESIZE)
  IN  IF size > DL_PAGESIZE - 1 + MALLOC_CHUNK_SIZE /\ p + size - from >= DL_PAGESIZE
      THEN [from |-> from, len |-> AlignDown(p + size - from, DL_PAGESIZE)]
      ELSE [from |-> 0, len |-> 0]
=============================================================================
