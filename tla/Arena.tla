------------------------------- MODULE Arena -------------------------------
(***************************************************************************)
(* glibc's main arena used by one thread (docs/malloc-impl.c): _int_malloc, *)
(* _int_free and the operations built on them, each an operator from the   *)
(* arena before to the arena after.  What the kernel does is a record k:   *)
(*   grow    the first MORECORE of a call succeeds                         *)
(*   fix     the second one (the correction) succeeds                      *)
(*   map     mmap succeeds                                                 *)
(*   shrink  MORECORE with a negative argument succeeds                    *)
(* Fields of the arena besides those of Chunks: brk, the kernel's break;   *)
(* mmap_next, where the kernel puts the next mapping.                      *)
(***************************************************************************)
EXTENDS Chunks

CONSTANTS
  top_pad,                          \* mp_.top_pad
  trim_threshold,                   \* mp_.trim_threshold
  tcache_unsorted_limit,            \* mp_.tcache_unsorted_limit; 0: no limit
  MAX_ITERS,                        \* 10000
  FASTBIN_CONSOLIDATION_THRESHOLD,  \* 65536
  MMAP_AS_MORECORE_SIZE,            \* 1 MiB
  DEFAULT_MXFAST,                   \* 64 * SIZE_SZ / 4
  BREAK_START,                      \* the break of the process before malloc
  BREAK_LIMIT,                      \* bound: the first MORECORE of a call fails beyond this
  MMAP_START, MMAP_LIMIT            \* where the kernel puts mappings

pagesize == DL_PAGESIZE

AlignUp(n, a) == n + ((-n) % a)

\* The dummy chunk that is top before the first call of sysmalloc.
initial_top == 0

malloc_init_state ==
  [ head           |-> (initial_top :> [size |-> 0, pinuse |-> TRUE, prev |-> 0]),
    bins           |-> [i \in 1 .. NBINS - 1 |-> <<>>],
    binmap         |-> {},
    fastbins       |-> [i \in 0 .. NFASTBINS - 1 |-> <<>>],
    have_fastchunks |-> FALSE,
    max_fast       |-> set_max_fast(DEFAULT_MXFAST),
    top            |-> initial_top,
    last_remainder |-> 0,
    contiguous     |-> TRUE,
    system_mem     |-> 0,
    max_system_mem |-> 0,
    sbrk_base      |-> 0,
    tcache         |-> [i \in 0 .. tcache_bins - 1 |-> <<>>],
    brk            |-> BREAK_START,
    mmap_next      |-> MMAP_START,
    abort          |-> "none" ]

\* Results of the allocation functions: the arena, and a chunk or 0.
got(m, p) == [m |-> m, p |-> p]
NoChunk == 0

set_top(m, p, size) == [set_head(m, p, size, TRUE) EXCEPT !.top = p]

-----------------------------------------------------------------------------
(* systrim                                                                 *)

\* top_area <= pad compares a long with a size_t: a negative top_area is huge.
top_area_within(area, pad) == area >= 0 /\ area <= pad

trim_extra(area, pad) == AlignDown(area - pad, pagesize)

\* Mutant: it is not asked where memory ends now.
BreakNotAsked(m) == TRUE

\* No foreign sbrk and no mapping separates the end of top from the break.
end_of_memory_is_top(m) == m.brk = m.top + chunksize(m, m.top)

\* The break is now brk, and top ends there.
release_top(m, brk) ==
  [set_head(m, m.top, chunksize(m, m.top) - (m.brk - brk), TRUE)
     EXCEPT !.brk = brk, !.system_mem = @ - (m.brk - brk)]

systrim(m, pad, k) ==
  LET area     == chunksize(m, m.top) - MINSIZE - 1
      extra    == trim_extra(area, pad)
      new_brk  == IF k.shrink /\ m.brk - extra <= BREAK_LIMIT THEN m.brk - extra ELSE m.brk
  IN  IF top_area_within(area, pad) \/ extra = 0 \/ ~end_of_memory_is_top(m) \/ new_brk = m.brk
      THEN [m |-> m, released |-> 0]
      ELSE [m |-> release_top(m, new_brk), released |-> 1]

-----------------------------------------------------------------------------
(* _int_free and malloc_consolidate                                        *)

\* p becomes a free chunk of `size` bytes on the unsorted list.
free_block(m, p, size) == put_unsorted(set_foot(set_head(m, p, size, TRUE), p, size), p)

\* Mutant: a free chunk after this one is not joined.
NoForwardMerge(m, p, size, next) == free_block(clear_inuse_bit_at_offset(m, next, 0), p, size)

\* The chunk of `size` bytes at p, whose neighbour before is in use, joins
\* a free chunk or top after it.
merge_forward(m, p, size, next) ==
  LET whole == size + chunksize(m, next)
  IN  IF next = m.top THEN set_top(m, p, whole)
      ELSE IF ~inuse(m, next) THEN free_block(unlink_chunk(m, next), p, whole)
      ELSE free_block(clear_inuse_bit_at_offset(m, next, 0), p, size)

\* Consolidate p with its free neighbours and put it on the unsorted list or
\* into top: [m, size of the result].
coalesce(m, p) ==
  LET size  == chunksize(m, p)
      prevsize == prev_size(m, p)
      prev  == p - prevsize
      next  == next_chunk(m, p)
  IN  IF prev_inuse(m, p) THEN merge_forward(m, p, size, next)
      ELSE IF chunksize(m, prev) # prevsize THEN abort(m, "corrupted size vs. prev_size while consolidating")
      ELSE merge_forward(unlink_chunk(m, prev), prev, size + prevsize, next)

consolidate_chunk(m, p) ==
  IF m.abort # "none" THEN m ELSE coalesce(m, p)

malloc_consolidate(m) ==
  LET lists   == [i \in 1 .. NFASTBINS |-> m.fastbins[i - 1]]
      belongs == \A i \in 0 .. NFASTBINS - 1 : \A j \in DOMAIN m.fastbins[i] :
                   fastbin_index(chunksize(m, m.fastbins[i][j])) = i
      empty   == [m EXCEPT !.have_fastchunks = FALSE,
                           !.fastbins = [i \in DOMAIN @ |-> <<>>]]
  IN  FoldLeft(consolidate_chunk,
               checked(empty, belongs, "malloc_consolidate(): invalid chunk size"),
               FlattenSeq(lists))

\* The size of the free chunk that holds address a: what _int_free's `size`
\* is after both merges.
merged_size(m, a) ==
  chunksize(m, CHOOSE q \in DOMAIN m.head : q <= a /\ a < q + chunksize(m, q))

\* Give back the end of a large top.
trim_top(m, k) ==
  IF chunksize(m, m.top) >= trim_threshold THEN systrim(m, top_pad, k).m ELSE m

\* p has been freed: if it is in a large free chunk now, consolidate and trim.
trim_after_free(m, p, k) ==
  IF m.abort # "none" \/ merged_size(m, p) < FASTBIN_CONSOLIDATION_THRESHOLD THEN m
  ELSE trim_top(IF m.have_fastchunks THEN malloc_consolidate(m) ELSE m, k)

free_check_normal(m, p) ==
  LET next == next_chunk(m, p)
  IN  IF p = m.top THEN "double free or corruption (top)"
      ELSE IF m.contiguous /\ next >= m.top + chunksize(m, m.top) THEN "double free or corruption (out)"
      ELSE IF ~prev_inuse(m, next) THEN "double free or corruption (!prev)"
      ELSE IF no_more_than_header(m, next) \/ chunksize(m, next) >= m.system_mem
      THEN "free(): invalid next size (normal)"
      ELSE "none"

free_normal(m, p, k) ==
  LET why == free_check_normal(m, p)
  IN  IF why # "none" THEN abort(m, why) ELSE trim_after_free(coalesce(m, p), p, k)

\* Mutant: a fast chunk is not announced.
FastWithoutFlag(m, p) ==
  [m EXCEPT !.fastbins[fastbin_index(chunksize(m, p))] = <<p>> \o @]

free_fast(m, p) ==
  LET next == next_chunk(m, p)
      idx  == fastbin_index(chunksize(m, p))
      fb   == m.fastbins[idx]
  IN  IF no_more_than_header(m, next) \/ chunksize(m, next) >= m.system_mem
      THEN abort(m, "free(): invalid next size (fast)")
      ELSE IF fb # <<>> /\ Head(fb) = p THEN abort(m, "double free or corruption (fasttop)")
      ELSE [m EXCEPT !.have_fastchunks = TRUE, !.fastbins[idx] = <<p>> \o @]

int_free(m, p, k) ==
  LET size == chunksize(m, p)
      tc   == csize2tidx(size)
  IN  IF m.abort # "none" THEN m
      ELSE IF size < MINSIZE \/ size % MALLOC_ALIGNMENT # 0 THEN abort(m, "free(): invalid size")
      ELSE IF tc < tcache_bins /\ Contains(m.tcache[tc], p)
      THEN abort(m, "free(): double free detected in tcache 2")
      ELSE IF tcache_has_room(m, tc) THEN tcache_put(m, p, tc)
      ELSE IF size <= m.max_fast THEN free_fast(m, p)
      ELSE free_normal(m, p, k)

-----------------------------------------------------------------------------
(* _int_malloc: from the lists                                             *)

\* Those of `chunks`, from the first on, that still fit in a cache bin.
stash(m, idx, chunks) ==
  LET room == IF idx < tcache_bins THEN tcache_count - Len(m.tcache[idx]) ELSE 0
  IN  SubSeq(chunks, 1, IF room < Len(chunks) THEN room ELSE Len(chunks))

\* Mutant: the chunks cached are left in their bin.
StashCopied(m, nb) ==
  LET old    == Reverse(m.bins[smallbin_index(nb)])
      cached == stash(m, csize2tidx(nb), Tail(old))
      m1     == [set_inuse_bit_at_offset(m, Head(old), nb)
                   EXCEPT !.bins[smallbin_index(nb)] = Reverse(Tail(old))]
      put(a, p) == tcache_put(set_inuse_bit_at_offset(a, p, nb), p, csize2tidx(nb))
  IN  got(FoldLeft(put, m1, cached), Head(old))

malloc_fast(m, nb) ==
  LET idx    == fastbin_index(nb)
      fb     == m.fastbins[idx]
      cached == stash(m, csize2tidx(nb), Tail(fb))
      m1     == [m EXCEPT !.fastbins[idx] = SubSeq(fb, 2 + Len(cached), Len(fb))]
      put(a, p) == tcache_put(a, p, csize2tidx(nb))
  IN  IF fastbin_index(chunksize(m, Head(fb))) # idx
      THEN got(abort(m, "malloc(): memory corruption (fast)"), NoChunk)
      ELSE got(FoldLeft(put, m1, cached), Head(fb))

malloc_small(m, nb) ==
  LET idx    == smallbin_index(nb)
      old    == Reverse(m.bins[idx])        \* from last (bin)
      cached == stash(m, csize2tidx(nb), Tail(old))
      m1     == [set_inuse_bit_at_offset(m, Head(old), nb)
                   EXCEPT !.bins[idx] = Reverse(SubSeq(old, 2 + Len(cached), Len(old)))]
      put(a, p) == tcache_put(set_inuse_bit_at_offset(a, p, nb), p, csize2tidx(nb))
  IN  got(FoldLeft(put, m1, cached), Head(old))

\* Split the free chunk victim, in no list any more: nb bytes for the caller,
\* the remainder on the unsorted list.
split_chunk(m, victim, nb) ==
  LET rest      == chunksize(m, victim) - nb
      remainder == victim + nb
      m1        == set_head(set_head(m, victim, nb, TRUE), remainder, rest, TRUE)
  IN  put_unsorted(set_foot(m1, remainder, rest), remainder)

\* Mutant: the chunk after one taken whole is not told.
ExhaustedStillFree(m, victim, nb) ==
  LET m1 == unlink_chunk(m, victim)
  IN  IF m1.abort # "none" \/ chunksize(m, victim) - nb < MINSIZE THEN m1
      ELSE split_chunk(m1, victim, nb)

\* Unlink victim and take nb bytes of it, all of it if too little would be left.
take_chunk(m, victim, nb) ==
  LET m1 == unlink_chunk(m, victim)
  IN  IF m1.abort # "none" THEN m1
      ELSE IF chunksize(m, victim) - nb < MINSIZE
      THEN set_inuse_bit_at_offset(m1, victim, chunksize(m, victim))
      ELSE split_chunk(m1, victim, nb)

unsorted_check(m, victim) ==
  LET size == chunksize(m, victim)
      next == victim + size
  IN  IF size <= CHUNK_HDR_SZ \/ size > m.system_mem THEN "malloc(): invalid size (unsorted)"
      ELSE IF chunksize(m, next) < CHUNK_HDR_SZ \/ chunksize(m, next) > m.system_mem
      THEN "malloc(): invalid next size (unsorted)"
      ELSE IF prev_size(m, next) # size THEN "malloc(): mismatching next->prev_size (unsorted)"
      ELSE IF prev_inuse(m, next) THEN "malloc(): invalid next->prev_inuse (unsorted)"
      ELSE "none"

\* Enough chunks were processed: return one that went into the cache.
stop_at_limit(m, victim, tc) == tcache_get(place_in_bin(m, victim), tc)

\* One turn of the loop over the unsorted list, at its last chunk.  The state
\* s of the loop: [m, p, done, cached, binned]; cached says that a chunk of
\* the size asked for went into the thread cache, binned counts the chunks put
\* in bins in this run of the loop, `before` those of an earlier one.
unsorted_turn(s, victim, nb, before) ==
  LET m     == s.m
      why   == unsorted_check(m, victim)
      size  == chunksize(m, victim)
      tc    == csize2tidx(nb)
      m1    == [m EXCEPT !.bins[UNSORTED] = Front(@)]
      m2    == set_inuse_bit_at_offset(m1, victim, size)
      limit == s.cached /\ tcache_unsorted_limit > 0 /\ before + s.binned + 1 > tcache_unsorted_limit
      hit   == stop_at_limit(m1, victim, tc)
  IN  IF why # "none" THEN [s EXCEPT !.m = abort(m, why), !.done = TRUE]
      ELSE IF /\ in_smallbin_range(nb) /\ m.bins[UNSORTED] = <<victim>>
              /\ victim = m.last_remainder /\ size > nb + MINSIZE
      THEN [s EXCEPT !.m = [split_chunk(m1, victim, nb) EXCEPT !.last_remainder = victim + nb],
                     !.p = victim, !.done = TRUE]
      ELSE IF size = nb /\ tcache_has_room(m, tc)
      THEN [s EXCEPT !.m = tcache_put(m2, victim, tc), !.cached = TRUE]
      ELSE IF size = nb THEN [s EXCEPT !.m = m2, !.p = victim, !.done = TRUE]
      ELSE IF limit THEN [s EXCEPT !.m = hit.m, !.p = hit.p, !.done = TRUE]
      ELSE [s EXCEPT !.m = place_in_bin(m1, victim), !.binned = @ + 1,
                     !.done = s.binned + 1 >= MAX_ITERS]

\* The unsorted list is done: what the caller gets, if anything yet.
after_sort(s, nb) ==
  IF s.p = NoChunk /\ s.cached /\ s.m.abort = "none" THEN tcache_get(s.m, csize2tidx(nb))
  ELSE got(s.m, s.p)

\* The whole loop; it gives up after MAX_ITERS chunks put in bins.
sort_unsorted(m, nb, before) ==
  LET turn(s, victim) == IF s.done THEN s ELSE unsorted_turn(s, victim, nb, before)
      start == [m |-> m, p |-> NoChunk, done |-> FALSE, cached |-> FALSE, binned |-> 0]
  IN  after_sort(FoldLeft(turn, start, Reverse(m.bins[UNSORTED])), nb)

malloc_large(m, nb) ==
  LET bin == m.bins[largebin_index(nb)]
  IN  IF bin = <<>> \/ chunksize(m, Head(bin)) < nb THEN got(m, NoChunk)
      ELSE got(take_chunk(m, large_victim(m, nb), nb), large_victim(m, nb))

\* The bins with their bit set that the scan looks at.
marked_after(m, nb) == { i \in m.binmap : i > bin_index(nb) }

\* Find the next larger bin with a chunk; bits of empty bins met are cleared.
scan_bins(m, nb) ==
  LET marked == marked_after(m, nb)
      full   == { i \in marked : m.bins[i] # <<>> }
      hit    == Min(full)
      victim == Last(m.bins[hit])
      m1     == [m EXCEPT !.binmap = @ \ { i \in marked : i < hit }]
      m2     == take_chunk(m1, victim, nb)
      split  == chunksize(m, victim) - nb >= MINSIZE
  IN  IF full = {} THEN got([m EXCEPT !.binmap = @ \ marked], NoChunk)
      ELSE IF chunksize(m, victim) < nb THEN got(abort(m, "assert: size >= nb"), NoChunk)
      ELSE got([m2 EXCEPT !.last_remainder = IF split /\ in_smallbin_range(nb) THEN victim + nb ELSE @],
               victim)

\* nb bytes from top, if it has them and MINSIZE more.
cut_top(m, nb) ==
  IF m.abort # "none" \/ chunksize(m, m.top) < nb + MINSIZE THEN got(m, NoChunk)
  ELSE got(set_top(set_head(m, m.top, nb, TRUE), m.top + nb, chunksize(m, m.top) - nb), m.top)

\* use_top
malloc_top(m, nb) ==
  cut_top(checked(m, chunksize(m, m.top) <= m.system_mem, "malloc(): corrupted top size"), nb)

Finished(r) == r.p # NoChunk \/ r.m.abort # "none"

\* Each of these goes on from the result r of the step before it.
then_large(r, nb) == IF Finished(r) \/ in_smallbin_range(nb) THEN r ELSE malloc_large(r.m, nb)
then_bins(r, nb) == IF Finished(r) THEN r ELSE scan_bins(r.m, nb)
then_top(r, nb) == IF Finished(r) THEN r ELSE malloc_top(r.m, nb)

\* The body of the outer loop of _int_malloc, up to the test of
\* have_fastchunks.
malloc_pass(m, nb, before) ==
  then_top(then_bins(then_large(sort_unsorted(m, nb, before), nb), nb), nb)

-----------------------------------------------------------------------------
(* sysmalloc: the part for the main arena; requests for a mapping of their  *)
(* own are in module Mmaps.                                                *)

\* What more memory was obtained: [m, brk, snd_brk, size]; brk is 0 if none.
obtained(m, brk, snd_brk, size) == [m |-> m, brk |-> brk, snd_brk |-> snd_brk, size |-> size]

\* Mutant: the arena still relies on contiguous memory.
MmapStaysContiguous(m, size) ==
  obtained([m EXCEPT !.mmap_next = @ + size], m.mmap_next, m.mmap_next + size, size)

\* mmap in place of MORECORE; from then on no contiguous memory is expected.
mmap_as_morecore(m, size) ==
  obtained([m EXCEPT !.mmap_next = @ + size, !.contiguous = FALSE],
           m.mmap_next, m.mmap_next + size, size)

morecore(m, nb, old_size, k) ==
  LET size  == AlignUp(nb + top_pad + MINSIZE - (IF m.contiguous THEN old_size ELSE 0), pagesize)
      whole == IF m.contiguous THEN AlignUp(size + old_size, pagesize) ELSE size
      msize == Max({whole, MMAP_AS_MORECORE_SIZE})
  IN  IF size > 0 /\ k.grow /\ m.brk + size <= BREAK_LIMIT
      THEN obtained([m EXCEPT !.brk = @ + size], m.brk, 0, size)
      ELSE IF msize > nb /\ k.map /\ m.mmap_next + msize <= MMAP_LIMIT
      THEN mmap_as_morecore(m, msize)
      ELSE obtained(m, 0, 0, 0)

\* The second MORECORE: [m, aligned_brk, end of the new top].
find_end(m, c, old_size, old_end, k) ==
  LET misalign == (c.brk + CHUNK_HDR_SZ) % MALLOC_ALIGNMENT
      front    == IF misalign > 0 THEN MALLOC_ALIGNMENT - misalign ELSE 0
      end      == c.brk + c.size + front + old_size
      correction == front + old_size + (AlignUp(end, pagesize) - end)
      foreign  == IF old_size > 0 THEN c.brk - old_end ELSE 0
      counted  == [m EXCEPT !.system_mem = @ + foreign]
  IN  IF ~m.contiguous
      THEN [m |-> checked(m, misalign = 0, "assert: morecore aligned"), aligned_brk |-> c.brk,
            end |-> IF c.snd_brk = 0 THEN m.brk ELSE c.snd_brk]
      ELSE IF k.fix
      THEN [m |-> [counted EXCEPT !.brk = @ + correction, !.system_mem = @ + correction],
            aligned_brk |-> c.brk + front, end |-> m.brk + correction]
      ELSE [m |-> counted, aligned_brk |-> c.brk + front, end |-> m.brk]

\* Mutant: one fencepost only.
OneFencepost(m, old_top, old_size, k) ==
  LET rest == AlignDown(old_size - 2 * CHUNK_HDR_SZ, MALLOC_ALIGNMENT)
      m1   == set_head(m, old_top, rest, TRUE)
  IN  IF rest >= MINSIZE THEN int_free(set_head(m1, old_top + rest, 2 * CHUNK_HDR_SZ, TRUE), old_top, k)
      ELSE set_head(m1, old_top + rest, 2 * CHUNK_HDR_SZ, TRUE)

\* Two chunks of a header each, in use for ever, end the old region; what is
\* left of the old top before them is freed.
leave_old_top(m, old_top, old_size, k) ==
  LET rest  == AlignDown(old_size - 2 * CHUNK_HDR_SZ, MALLOC_ALIGNMENT)
      m1    == set_head(m, old_top, rest, TRUE)
      m2    == set_head(m1, old_top + rest, CHUNK_HDR_SZ, TRUE)
      m3    == set_head(m2, old_top + rest + CHUNK_HDR_SZ, CHUNK_HDR_SZ, TRUE)
  IN  IF rest >= MINSIZE THEN int_free(m3, old_top, k) ELSE m3

\* top begins at brk and ends at `end`.
new_top(f, old_top, old_size, k) ==
  LET m1 == set_top(f.m, f.aligned_brk, f.end - f.aligned_brk)
  IN  IF old_size > 0 THEN leave_old_top(m1, old_top, old_size, k) ELSE m1

\* top after MORECORE or mmap gave c.
adjust_top(c, old_top, old_size, old_end, k) ==
  LET m == [c.m EXCEPT !.system_mem = @ + c.size, !.sbrk_base = IF @ = 0 THEN c.brk ELSE @]
  IN  IF c.brk = 0 THEN c.m
      ELSE IF c.brk = old_end /\ c.snd_brk = 0 THEN set_head(m, old_top, c.size + old_size, TRUE)
      ELSE IF m.contiguous /\ old_size > 0 /\ c.brk < old_end
      THEN abort(m, "break adjusted to free malloc space")
      ELSE new_top(find_end(m, c, old_size, old_end, k), old_top, old_size, k)

\* The precondition sysmalloc asserts of top.
sysmalloc_top_ok(m) ==
  LET size == chunksize(m, m.top)
  IN  \/ m.top = initial_top /\ size = 0
      \/ size >= MINSIZE /\ prev_inuse(m, m.top) /\ (m.top + size) % pagesize = 0

note_maximum(m) == [m EXCEPT !.max_system_mem = Max({@, m.system_mem})]

sysmalloc(m, nb, k) ==
  LET size == chunksize(m, m.top)
  IN  IF ~sysmalloc_top_ok(m) \/ size >= nb + MINSIZE THEN got(abort(m, "assert: old_top"), NoChunk)
      ELSE cut_top(note_maximum(adjust_top(morecore(m, nb, size, k), m.top, size, m.top + size, k)), nb)

-----------------------------------------------------------------------------
(* _int_malloc                                                             *)

\* Once fastbins are consolidated a second pass may find what the first did
\* not; only then is the system asked.
then_again(r, nb, before) ==
  IF Finished(r) \/ ~r.m.have_fastchunks THEN r ELSE malloc_pass(malloc_consolidate(r.m), nb, before)
then_system(r, nb, k) == IF Finished(r) THEN r ELSE sysmalloc(r.m, nb, k)

malloc_loop(m, nb, k) ==
  then_system(then_again(malloc_pass(m, nb, 0), nb, Min({Len(m.bins[UNSORTED]), MAX_ITERS})), nb, k)

int_malloc(m, nb, k) ==
  IF m.abort # "none" THEN got(m, NoChunk)
  ELSE IF nb <= m.max_fast /\ m.fastbins[fastbin_index(nb)] # <<>> THEN malloc_fast(m, nb)
  ELSE IF in_smallbin_range(nb) /\ m.bins[smallbin_index(nb)] # <<>> THEN malloc_small(m, nb)
  ELSE malloc_loop(IF ~in_smallbin_range(nb) /\ m.have_fastchunks THEN malloc_consolidate(m) ELSE m, nb, k)

-----------------------------------------------------------------------------
(* The functions a program calls.  A chunk is named by its own address; the  *)
(* program's memory begins CHUNK_HDR_SZ after it.                          *)

libc_malloc(m, bytes, k) ==
  LET req == checked_request2size(bytes)
      tc  == csize2tidx(req.sz)
  IN  IF ~req.ok THEN got(m, NoChunk)
      ELSE IF tc < tcache_bins /\ m.tcache[tc] # <<>> THEN tcache_get(m, tc)
      ELSE int_malloc(m, req.sz, k)

libc_free(m, p, k) == int_free(m, p, k)

\* The end of _int_realloc: chunk p is to have newsize bytes, of which nb are
\* needed; the rest is freed if it is a chunk.
realloc_split(m, p, newsize, nb, k) ==
  LET m1   == set_inuse_bit_at_offset(set_head_size(m, p, newsize), p, newsize)
      m2   == set_head_size(m, p, nb)
      m3   == set_head(m2, p + nb, newsize - nb, TRUE)
      m4   == set_inuse_bit_at_offset(m3, p + nb, newsize - nb)
  IN  IF newsize - nb < MINSIZE THEN m1 ELSE int_free(m4, p + nb, k)

realloc_check(m, oldp) ==
  LET next == next_chunk(m, oldp)
  IN  IF no_more_than_header(m, oldp) \/ chunksize(m, oldp) >= m.system_mem
      THEN "realloc(): invalid old size"
      ELSE IF no_more_than_header(m, next) \/ chunksize(m, next) >= m.system_mem
      THEN "realloc(): invalid next size"
      ELSE "none"

\* The new chunk is the one after the old: one chunk is made of both.  Else
\* the bytes are copied and the old one is freed.
move_to(r, oldp, oldsize, nb, k) ==
  LET both == oldsize + chunksize(r.m, r.p)
  IN  IF r.p = NoChunk THEN r
      ELSE IF r.p = oldp + oldsize
      THEN got(realloc_split(set_head_size(r.m, oldp, both), oldp, both, nb, k), oldp)
      ELSE got(int_free(r.m, oldp, k), r.p)

realloc_move(m, oldp, nb, k) ==
  move_to(int_malloc(m, request2size(nb - (MALLOC_ALIGNMENT - 1)), k), oldp, chunksize(m, oldp), nb, k)

int_realloc(m, oldp, nb, k) ==
  LET oldsize == chunksize(m, oldp)
      next    == next_chunk(m, oldp)
      both    == oldsize + chunksize(m, next)
      why     == realloc_check(m, oldp)
  IN  IF why # "none" THEN got(abort(m, why), NoChunk)
      ELSE IF oldsize >= nb THEN got(realloc_split(m, oldp, oldsize, nb, k), oldp)
      ELSE IF next = m.top /\ both >= nb + MINSIZE
      THEN got(set_top(set_head_size(m, oldp, nb), oldp + nb, both - nb), oldp)
      ELSE IF next # m.top /\ ~inuse(m, next) /\ both >= nb
      THEN got(realloc_split(unlink_chunk(m, next), oldp, both, nb, k), oldp)
      ELSE realloc_move(m, oldp, nb, k)

\* realloc to 0 bytes frees.
libc_realloc(m, p, bytes, k) ==
  LET req == checked_request2size(bytes)
  IN  IF bytes = 0 THEN got(libc_free(m, p, k), NoChunk)
      ELSE IF ~req.ok THEN got(m, NoChunk)
      ELSE int_realloc(m, p, req.sz, k)

\* Give back spare room at the end of p.
free_tail(m, p, nb, k) ==
  LET size == chunksize(m, p)
      m1   == set_head_size(set_head(m, p + nb, size - nb, TRUE), p, nb)
  IN  IF size > nb + MINSIZE THEN int_free(m1, p + nb, k) ELSE m

\* Give back the lead bytes before the aligned chunk in p.
free_leader(m, p, lead, k) ==
  LET size == chunksize(m, p) - lead
      m1   == set_inuse_bit_at_offset(set_head(m, p + lead, size, TRUE), p + lead, size)
  IN  int_free(set_head_size(m1, p, lead), p, k)

\* Of the chunk r, more than large enough, keep an aligned part.
keep_aligned(r, alignment, nb, k) ==
  LET lead == memalign_leadsize(r.p, alignment)
      m1   == IF lead = 0 THEN r.m ELSE free_leader(r.m, r.p, lead, k)
  IN  IF r.p = NoChunk THEN r
      ELSE IF lead > 0 /\ chunksize(r.m, r.p) - lead < nb
      THEN got(abort(m1, "assert: newsize >= nb"), NoChunk)
      ELSE got(free_tail(m1, r.p + lead, nb, k), r.p + lead)

int_memalign(m, alignment, bytes, k) ==
  LET nb  == checked_request2size(bytes)
      req == checked_request2size(memalign_request(nb.sz, alignment))
  IN  IF nb.ok /\ req.ok THEN keep_aligned(int_malloc(m, req.sz, k), alignment, nb.sz, k)
      ELSE got(m, NoChunk)

mid_memalign(m, alignment, bytes, k) ==
  IF alignment <= MALLOC_ALIGNMENT THEN libc_malloc(m, bytes, k)
  ELSE int_memalign(m, memalign_alignment(alignment), bytes, k)

\* Mutant: all of the old top is taken for clear.
TopTakenForClear(m) == MINSIZE

\* How much of the chunk at top, from its header on, may have been used before:
\* only what the system gives for the first time is clear.
dirty_top(m) ==
  Max({chunksize(m, m.top), Wrap(m.sbrk_base + m.max_system_mem - m.top)})

\* How many bytes from the program's memory on __libc_calloc clears in the
\* chunk r that _int_malloc returned.
calloc_cleared(m, r) ==
  LET csz == chunksize(r.m, r.p)
  IN  IF r.p = m.top /\ csz > dirty_top(m) THEN dirty_top(m) - SIZE_SZ ELSE csz - SIZE_SZ

clear_new(m, r) ==
  IF r.p = NoChunk THEN r
  ELSE got(checked(r.m, calloc_cleared(m, r) >= 3 * SIZE_SZ, "assert: nclears >= 3"), r.p)

libc_calloc(m, bytes, k) ==
  LET req == checked_request2size(bytes)
  IN  IF req.ok THEN clear_new(m, int_malloc(m, req.sz, k)) ELSE got(m, NoChunk)

\* The parts of free chunks that malloc_trim gives back with madvise.
mtrim_parts(m) ==
  { mtrim_pages(p, chunksize(m, p)) :
      p \in UNION { ToSet(m.bins[i]) :
                      i \in { j \in DOMAIN m.bins : j = UNSORTED \/ j >= bin_index(pagesize) } } }

\* The arena and the result of malloc_trim (pad).
mtrim(m, pad, k) ==
  LET m1    == malloc_consolidate(m)
      freed == \E part \in mtrim_parts(m1) : part.len > 0
      t     == systrim(m1, pad, k)
  IN  [m |-> t.m, result |-> IF freed \/ t.released = 1 THEN 1 ELSE 0]

\* Mutant: the fastbins keep their chunks.
MxfastWithoutConsolidation(m, value) ==
  IF value <= MAX_FAST_SIZE THEN [m EXCEPT !.max_fast = set_max_fast(value)] ELSE m

\* mallopt (M_MXFAST, value).
mallopt_mxfast(m, value) ==
  LET m1 == malloc_consolidate(m)
  IN  IF value <= MAX_FAST_SIZE THEN [m1 EXCEPT !.max_fast = set_max_fast(value)] ELSE m1

sizes_of(m, chunks) == FoldSeq(LAMBDA p, sum : sum + chunksize(m, p), 0, chunks)

int_mallinfo(m) ==
  LET fast  == FlattenSeq([i \in 1 .. NFASTBINS |-> m.fastbins[i - 1]])
      free  == FlattenSeq([i \in DOMAIN m.bins |-> m.bins[i]])
      avail == chunksize(m, m.top) + sizes_of(m, fast) + sizes_of(m, free)
  IN  [ fordblks |-> avail, uordblks |-> m.system_mem - avail, arena |-> m.system_mem,
        fsmblks |-> sizes_of(m, fast), smblks |-> Len(fast), ordblks |-> 1 + Len(free) ]
=============================================================================
