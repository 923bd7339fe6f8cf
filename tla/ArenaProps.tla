----------------------------- MODULE ArenaProps -----------------------------
(***************************************************************************)
(* What has to hold of glibc's main arena after every call, whatever calls *)
(* came before.  The first part translates the debugging checks of         *)
(* malloc-impl.c (do_check_chunk and so on), which the code compiles only  *)
(* with MALLOC_DEBUG; the rest is what the checks do not see.              *)
(***************************************************************************)
EXTENDS MallocProgram

top_end(a) == a.top + chunksize(a, a.top)

do_check_chunk(a, p) ==
  IF p # a.top
  THEN a.contiguous => p >= top_end(a) - a.system_mem /\ next_chunk(a, p) <= a.top
  ELSE chunksize(a, p) >= MINSIZE /\ prev_inuse(a, p)

\* minimally sane links: the chunk is in exactly one list, once.
linked_once(a, p) ==
  \E i \in DOMAIN a.bins : bins_of(a, p) = {i} /\ Cardinality({ j \in DOMAIN a.bins[i] : a.bins[i][j] = p }) = 1

do_check_free_chunk(a, p) ==
  LET sz == chunksize(a, p)
  IN  /\ do_check_chunk(a, p)
      /\ ~inuse(a, p)
      /\ sz >= MINSIZE /\ sz % MALLOC_ALIGNMENT = 0
      /\ (p + CHUNK_HDR_SZ) % MALLOC_ALIGNMENT = 0
      /\ prev_size(a, p + sz) = sz
      /\ prev_inuse(a, p)
      /\ p + sz = a.top \/ inuse(a, p + sz)
      /\ linked_once(a, p)

do_check_inuse_chunk(a, p) ==
  LET next == next_chunk(a, p)
      prev == p - prev_size(a, p)
  IN  /\ do_check_chunk(a, p)
      /\ inuse(a, p)
      /\ ~prev_inuse(a, p) => next_chunk(a, prev) = p /\ do_check_free_chunk(a, prev)
      /\ IF next = a.top THEN prev_inuse(a, next) /\ chunksize(a, next) >= MINSIZE
         ELSE ~inuse(a, next) => do_check_free_chunk(a, next)

check_fastbins(a) ==
  \A i \in 0 .. NFASTBINS - 1 :
    /\ i > fastbin_index(a.max_fast) => a.fastbins[i] = <<>>
    /\ \A p \in ToSet(a.fastbins[i]) :
         do_check_inuse_chunk(a, p) /\ fastbin_index(chunksize(a, p)) = i

check_bins(a) ==
  \A i \in DOMAIN a.bins :
    LET bin == a.bins[i]
    IN  /\ i # UNSORTED /\ bin # <<>> => i \in a.binmap
        /\ \A j \in DOMAIN bin :
             /\ do_check_free_chunk(a, bin[j])
             /\ i # UNSORTED => /\ bin_index(chunksize(a, bin[j])) = i
                                /\ j > 1 => chunksize(a, bin[j - 1]) >= chunksize(a, bin[j])

do_check_malloc_state(a) ==
  a.top # initial_top =>
    /\ a.contiguous => a.sbrk_base + a.system_mem = top_end(a)
    /\ a.max_fast <= request2size(MAX_FAST_SIZE)
    /\ check_fastbins(a)
    /\ check_bins(a)
    /\ do_check_chunk(a, a.top)

-----------------------------------------------------------------------------

(***************************************************************************)
(* No sequence of legal calls ends in malloc_printerr or in a failed       *)
(* assertion, and the debugging checks would pass after every call: the    *)
(* lists hold consolidated free chunks of the right size, marked free by   *)
(* their successors, sorted and covered by the bin map, and top and        *)
(* system_mem agree (do_check_malloc_state).                               *)
(***************************************************************************)
MallocStateOK == Running /\ do_check_malloc_state(m)

chunks(a) == DOMAIN a.head \ {initial_top}

\* Headers too short for a chunk end a region that top has left.
fenceposts(a) == { p \in chunks(a) : chunksize(a, p) = CHUNK_HDR_SZ }

cached(a) == UNION { ToSet(a.tcache[i]) : i \in DOMAIN a.tcache }
fast(a) == UNION { ToSet(a.fastbins[i]) : i \in DOMAIN a.fastbins }
binned(a) == UNION { ToSet(a.bins[i]) : i \in DOMAIN a.bins }

(***************************************************************************)
(* Every chunk is in exactly one place: held by the program, in the thread *)
(* cache, in a fastbin, in a bin, top, or a fencepost.  None is lost and   *)
(* none is in two lists.                                                   *)
(***************************************************************************)
EveryChunkInOnePlace ==
  LET places == << held, cached(m), fast(m), binned(m), fenceposts(m), {m.top} \ {initial_top} >>
  IN  Running => /\ UNION { places[i] : i \in DOMAIN places } = chunks(m)
                 /\ \A i, j \in DOMAIN places : i # j => places[i] \cap places[j] = {}

(***************************************************************************)
(* A chunk that is in no list and not top never has a free mark: the       *)
(* PREV_INUSE bit after it is set exactly when it is held, cached, in a    *)
(* fastbin or a fencepost, so no neighbour ever merges with it.            *)
(***************************************************************************)
InUseBitsRight ==
  Running =>
    \A p \in chunks(m) \ {m.top} :
      next_chunk(m, p) \in chunks(m) => (inuse(m, p) <=> p \notin binned(m))

(***************************************************************************)
(* What calloc returns is zero: the part of the memory that it does not    *)
(* clear (the end of a chunk cut from a top that was just extended) was    *)
(* never written to, or was given back to the kernel since.                *)
(***************************************************************************)
CallocZeroes ==
  LET Zero(r, n) ==
        r.p # NoChunk =>
          ((r.p + CHUNK_HDR_SZ + calloc_cleared(m, r)) .. (r.p + CHUNK_HDR_SZ + n - 1)) \cap dirty = {}
  IN  Running => \A n \in CALLOCS, k \in KERNELS : Zero(libc_calloc(m, n, k), n)

(***************************************************************************)
(* A large request takes the smallest chunk that fits of all free chunks   *)
(* in the bins, and takes one whenever there is one: the search by bin     *)
(* index, bin map and skip list loses nothing ("strictly by best-fit").    *)
(***************************************************************************)
BestFit ==
  LET Fits(s, nb) == { chunksize(s.m, p) : p \in { q \in binned(s.m) : chunksize(s.m, q) >= nb } }
      Best(s, r, nb) ==
        s.p = NoChunk /\ s.m.bins[UNSORTED] = <<>> /\ Fits(s, nb) # {} =>
          r.p # NoChunk /\ chunksize(s.m, r.p) = Min(Fits(s, nb))
      Sorted(nb) == sort_unsorted(malloc_consolidate(m), nb, 0)
  IN  Running =>
        \A nb \in { request2size(n) : n \in REQUESTS } :
          ~in_smallbin_range(nb) => Best(Sorted(nb), then_bins(then_large(Sorted(nb), nb), nb), nb)

(***************************************************************************)
(* The system is asked for memory, or the call fails, only if the free     *)
(* memory does not hold the request: with the fastbins consolidated, no    *)
(* chunk in a bin and not top would do.  (After MAX_ITERS chunks the       *)
(* search leaves the rest of the unsorted list alone and may miss one.)    *)
(***************************************************************************)
AsksSystemOnlyIfNeeded ==
  LET Asked(r) == r.p = NoChunk \/ r.m.brk # m.brk \/ r.m.mmap_next # m.mmap_next
      Needed(a, nb) ==
        Len(a.bins[UNSORTED]) <= MAX_ITERS =>
          /\ \A p \in binned(a) : chunksize(a, p) < nb
          /\ chunksize(a, a.top) < nb + MINSIZE
  IN  Running =>
        \A nb \in { request2size(n) : n \in REQUESTS }, k \in KERNELS :
          Asked(int_malloc(m, nb, k)) => Needed(malloc_consolidate(m), nb)

(***************************************************************************)
(* Whatever state the arena is in, a call that succeeds gives at least the *)
(* bytes asked for, at an address that is aligned as malloc promises or as *)
(* memalign was asked to.                                                  *)
(***************************************************************************)
EnoughAndAligned ==
  LET Good(r, a, n) ==
        r.p # NoChunk =>
          /\ r.m.head[r.p].size - SIZE_SZ >= n
          /\ (r.p + CHUNK_HDR_SZ) % a = 0
  IN  Running =>
        \A n \in REQUESTS, k \in KERNELS :
          /\ Good(libc_malloc(m, n, k), MALLOC_ALIGNMENT, n)
          /\ \A a \in ALIGNMENTS : Good(mid_memalign(m, a, n, k), memalign_alignment(a), n)
          /\ \A p \in held : Good(libc_realloc(m, p, n, k), MALLOC_ALIGNMENT, n)

(***************************************************************************)
(* No byte goes missing.  The chunks cover the memory without a hole: each *)
(* ends where the next begins, but for top and the fencepost pair at the   *)
(* end of a region that top has left.  And the statistics of mallinfo add  *)
(* up: what is not free is the bytes of the chunks that the program holds  *)
(* and that the thread cache keeps, of the fenceposts, and besides them at *)
(* most the foreign bytes between the regions and what alignment costs at  *)
(* the start of each.                                                      *)
(***************************************************************************)
MemoryAccountedFor ==
  LET used == held \cup cached(m) \cup fenceposts(m)
      sum  == FoldSet(LAMBDA p, s : s + chunksize(m, p), 0, used)
      lost == Cardinality(foreign) + (1 + Cardinality(fenceposts(m))) * (MALLOC_ALIGNMENT - 1)
  IN  Running =>
        /\ \A p \in chunks(m) \ {m.top} :
             \/ next_chunk(m, p) \in chunks(m)
             \/ p \in fenceposts(m) /\ p - CHUNK_HDR_SZ \in fenceposts(m)
        /\ int_mallinfo(m).uordblks \in sum .. sum + lost

(***************************************************************************)
(* Memory that nobody holds comes back: with nothing held and nothing in   *)
(* the thread cache, consolidation leaves each region one free chunk, and  *)
(* top alone if top never moved to another region.                         *)
(***************************************************************************)
AllFreedIsOneChunk ==
  Running /\ held = {} /\ cached(m) = {} /\ m.top # initial_top =>
    LET a == malloc_consolidate(m)
    IN  fenceposts(a) = {} => chunks(a) = {a.top}
=============================================================================
