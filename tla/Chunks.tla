------------------------------- MODULE Chunks -------------------------------
(***************************************************************************)
(* The memory of glibc's main arena and the operations on single chunks    *)
(* (docs/malloc-impl.c).  An arena m is a record; the fields of a chunk    *)
(* header are m.head[p], for p a chunk:                                    *)
(*   size    chunksize (p)                                                 *)
(*   pinuse  its PREV_INUSE bit                                            *)
(*   prev    its prev_size word, 0 while that word is the user's           *)
(* A header swallowed by a larger chunk is dropped: reading one is an      *)
(* error of the model.  A list of chunks is a sequence from its first to   *)
(* its last; LargeBin is about the pointers of the lists.  Each operator   *)
(* that writes returns the arena after it; abort(m, why) is the arena of a *)
(* program that malloc_printerr or an assertion has stopped.               *)
(***************************************************************************)
EXTENDS ChunkSizes, SequencesExt

CONSTANTS
  tcache_bins,    \* mp_.tcache_bins; 0: no thread cache
  tcache_count    \* mp_.tcache_count

UNSORTED == 1

abort(m, why) == IF m.abort = "none" THEN [m EXCEPT !.abort = why] ELSE m

\* m goes on only if the check holds.
checked(m, holds, why) == IF holds THEN m ELSE abort(m, why)

chunksize(m, p) == m.head[p].size
prev_inuse(m, p) == m.head[p].pinuse
prev_size(m, p) == m.head[p].prev
next_chunk(m, p) == p + chunksize(m, p)
inuse(m, p) == prev_inuse(m, next_chunk(m, p))

\* chunksize_nomask (p) <= CHUNK_HDR_SZ: the flags count.
no_more_than_header(m, p) ==
  chunksize(m, p) < CHUNK_HDR_SZ \/ (chunksize(m, p) = CHUNK_HDR_SZ /\ ~prev_inuse(m, p))

set_head(m, p, size, pinuse) ==
  LET kept == { a \in DOMAIN m.head : a < p \/ a >= p + size }
      prev == IF p \in DOMAIN m.head THEN m.head[p].prev ELSE 0
      new  == [size |-> size, pinuse |-> pinuse, prev |-> prev]
  IN  [m EXCEPT !.head = [a \in kept \cup {p} |-> IF a = p THEN new ELSE m.head[a]]]

set_head_size(m, p, size) == set_head(m, p, size, prev_inuse(m, p))

set_foot(m, p, size) == [m EXCEPT !.head[p + size].prev = size]

\* From here on the prev_size word belongs to the user of the chunk before.
set_inuse_bit_at_offset(m, p, s) ==
  [m EXCEPT !.head[p + s].pinuse = TRUE, !.head[p + s].prev = 0]

clear_inuse_bit_at_offset(m, p, s) == [m EXCEPT !.head[p + s].pinuse = FALSE]

-----------------------------------------------------------------------------
(* Lists of free chunks.                                                   *)

bins_of(m, p) == { i \in DOMAIN m.bins : Contains(m.bins[i], p) }

unlink_chunk(m, p) ==
  IF chunksize(m, p) # prev_size(m, next_chunk(m, p))
  THEN abort(m, "corrupted size vs. prev_size")
  ELSE IF bins_of(m, p) = {} THEN abort(m, "corrupted double-linked list")
  ELSE [m EXCEPT !.bins = [i \in DOMAIN m.bins |-> Remove(m.bins[i], p)]]

put_unsorted(m, p) == [m EXCEPT !.bins[UNSORTED] = <<p>> \o @]

\* Where a chunk of this size goes in a large bin, which is sorted by falling
\* size: before the first that is no longer, or second among its equals.
large_position(m, bin, size) ==
  LET longer == Cardinality({ i \in DOMAIN bin : chunksize(m, bin[i]) > size })
      equals == \E i \in DOMAIN bin : chunksize(m, bin[i]) = size
  IN  IF equals THEN longer + 2 ELSE longer + 1

place_in_bin(m, p) ==
  LET size == chunksize(m, p)
      i    == bin_index(size)
      at   == IF in_smallbin_range(size) THEN 1 ELSE large_position(m, m.bins[i], size)
  IN  [m EXCEPT !.bins[i] = InsertAt(@, at, p), !.binmap = @ \cup {i}]

\* Mutant: the first that fits from the long end.
LargestInBin(m, nb) == Head(m.bins[largebin_index(nb)])

\* The chunk of nb's own large bin to take: of the smallest that fit, the
\* second if there is one, so that the skip list stays as it is.
large_victim(m, nb) ==
  LET bin  == m.bins[largebin_index(nb)]
      fits == { i \in DOMAIN bin : chunksize(m, bin[i]) >= nb }
      size == chunksize(m, bin[Max(fits)])
      first == Min({ i \in fits : chunksize(m, bin[i]) = size })
  IN  IF first < Max(fits) THEN bin[first + 1] ELSE bin[first]

-----------------------------------------------------------------------------
(* The thread cache.  counts[idx] is the length of entries[idx].           *)

tcache_has_room(m, idx) == idx < tcache_bins /\ Len(m.tcache[idx]) < tcache_count

tcache_put(m, p, idx) == [m EXCEPT !.tcache[idx] = <<p>> \o @]

tcache_get(m, idx) == [m |-> [m EXCEPT !.tcache[idx] = Tail(@)], p |-> Head(m.tcache[idx])]
=============================================================================
