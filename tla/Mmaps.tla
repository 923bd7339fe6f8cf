------------------------------- MODULE Mmaps -------------------------------
(***************************************************************************)
(* Mapped chunks of glibc's malloc (docs/malloc-impl.c): requests that     *)
(* sysmalloc serves with mmap, their free and realloc, the counters of     *)
(* mp_ that go with them, the dynamic mmap threshold and mallopt.  No lock *)
(* protects these fields: the threads are in different arenas, and a free  *)
(* of a mapped chunk takes none.  A step is one access to them.            *)
(*                                                                         *)
(* MALLOC_ALIGNMENT is CHUNK_HDR_SZ, so that mapped chunks begin at the    *)
(* page.  What an arena serves without mmap is not seen here.              *)
(***************************************************************************)
EXTENDS Integers, FiniteSets

CONSTANTS
  THREADS,
  BLOCKS,             \* addresses of the kernel's mappings, multiples of a page
  REQUESTS,           \* chunk sizes (nb) that are asked for
  ALIGNMENTS,         \* of memalign
  MAX_HELD,           \* bound: mapped chunks the program holds or asks for
  THRESHOLDS, MAXIMA, \* values for mallopt's M_MMAP_THRESHOLD and M_MMAP_MAX
  SIZE_SZ, MINSIZE, CHUNK_HDR_SZ, IS_MMAPPED, pagesize,
  DEFAULT_MMAP_THRESHOLD, DEFAULT_MMAP_THRESHOLD_MAX, DEFAULT_MMAP_MAX, HEAP_MAX_SIZE,
  NoChunk

\* The powerof2 of sys/param.h, to which 0 is one.
powerof2(n) == n = 0 \/ \E k \in 0 .. 62 : n = 2 ^ k

ASSUME MmapsAssumption ==
  /\ IsFiniteSet(THREADS) /\ IsFiniteSet(BLOCKS)
  /\ BLOCKS \subseteq Nat /\ REQUESTS \subseteq Nat /\ ALIGNMENTS \subseteq Nat \ {0}
  /\ pagesize \in Nat \ {0} /\ SIZE_SZ \in Nat \ {0} /\ CHUNK_HDR_SZ \in Nat /\ MINSIZE \in Nat
  /\ NoChunk \notin [block : BLOCKS, offset : Nat, size : Int]

\* Of powers of two, pages and alignments, one divides the other, and what is
\* left of one, or of its double, after division is one or 0.  A memalign with
\* less than MALLOC_ALIGNMENT is a malloc.
ASSUME PowersAssumption ==
  /\ \A b \in BLOCKS : b % pagesize = 0
  /\ powerof2(CHUNK_HDR_SZ % pagesize)
  /\ \A a \in ALIGNMENTS :
       /\ CHUNK_HDR_SZ <= a
       /\ a % pagesize = 0 \/ pagesize % a = 0
       /\ powerof2(a % pagesize) /\ powerof2((2 * a) % pagesize)

\* The flag bits of a size are free because all sizes are multiples of more.
ASSUME LimitsAssumption ==
  /\ IS_MMAPPED \in Nat \ {0}
  /\ \A n \in {pagesize, CHUNK_HDR_SZ, DEFAULT_MMAP_THRESHOLD} \cup ALIGNMENTS : n % IS_MMAPPED = 0
  /\ THRESHOLDS \subseteq Nat
  /\ DEFAULT_MMAP_THRESHOLD \in Nat /\ DEFAULT_MMAP_THRESHOLD_MAX \in Nat
  /\ DEFAULT_MMAP_THRESHOLD <= DEFAULT_MMAP_THRESHOLD_MAX

VARIABLES
  mapped,                        \* the kernel's mappings: bytes at each block, 0 for none
  n_mmaps, max_n_mmaps, mmapped_mem, max_mmapped_mem,
  n_mmaps_max, mmap_threshold, trim_threshold, no_dyn_threshold,
  held,                          \* the program's mapped chunks
  abort,                         \* malloc_printerr was called
  pc,
  nb, lead,                      \* of a thread: the request, the alignment it wants or 0
  chunk,                         \* the chunk it is working on
  orig,                          \* the chunk that realloc replaces
  seen                           \* what it read or got back

counters   == <<n_mmaps, max_n_mmaps, mmapped_mem, max_mmapped_mem>>
parameters == <<n_mmaps_max, mmap_threshold, trim_threshold, no_dyn_threshold>>
locals     == <<nb, lead, chunk, orig, seen>>
vars       == <<mapped, counters, parameters, held, abort, pc, locals>>

\* A chunk: its mapping, its distance from the begin of it (prev_size), and
\* its size.
Chunk(b, offset, size) == [block |-> b, offset |-> offset, size |-> size]
total_size(c) == c.offset + c.size
chunksize_nomask(c) == c.size + IS_MMAPPED
AlignUp(n, a) == n + ((-n) % a)

Init ==
  /\ mapped = [b \in BLOCKS |-> 0]
  /\ n_mmaps = 0 /\ max_n_mmaps = 0 /\ mmapped_mem = 0 /\ max_mmapped_mem = 0
  /\ n_mmaps_max = DEFAULT_MMAP_MAX
  /\ mmap_threshold = DEFAULT_MMAP_THRESHOLD /\ trim_threshold = 2 * DEFAULT_MMAP_THRESHOLD
  /\ no_dyn_threshold = FALSE
  /\ held = {} /\ abort = FALSE
  /\ pc = [t \in THREADS |-> "idle"]
  /\ nb = [t \in THREADS |-> 0] /\ lead = [t \in THREADS |-> 0] /\ seen = [t \in THREADS |-> 0]
  /\ chunk = [t \in THREADS |-> NoChunk] /\ orig = [t \in THREADS |-> NoChunk]

Set(v, t, x) == [v EXCEPT ![t] = x]
At(t, here) == ~abort /\ pc[t] = here
Goto(t, there) == pc' = Set(pc, t, there)

\* Chunks that the program holds or is being given.
InHand == Cardinality(held)
          + Cardinality({ t \in THREADS : chunk[t] # NoChunk \/ pc[t] \in {"check", "map"} })

-----------------------------------------------------------------------------
(* malloc and memalign: sysmalloc's try_mmap.                              *)

Malloc(t) ==
  /\ At(t, "idle") /\ InHand < MAX_HELD
  /\ \E n \in REQUESTS, a \in ALIGNMENTS \cup {0} :
       \* memalign asks for room to move the chunk in
       nb' = Set(nb, t, IF a = 0 THEN n ELSE n + a + MINSIZE) /\ lead' = Set(lead, t, a)
  /\ Goto(t, "check")
  /\ UNCHANGED <<mapped, counters, parameters, held, abort, chunk, orig, seen>>

\* No mapping for this request: the arena serves it, or nobody does.  A
\* realloc that needed the memory frees the old chunk, or leaves it.
Otherwise(t) ==
  /\ nb' = Set(nb, t, 0) /\ lead' = Set(lead, t, 0) /\ orig' = Set(orig, t, NoChunk)
  /\ \/ /\ Goto(t, "idle") /\ UNCHANGED chunk
        /\ held' = IF orig[t] = NoChunk THEN held ELSE held \cup {orig[t]}
     \/ /\ orig[t] # NoChunk /\ chunk' = Set(chunk, t, orig[t])
        /\ Goto(t, "release") /\ UNCHANGED held

\* sysmalloc: large enough, and few enough mappings.  If not, the arena may
\* have no room and not grow, and then mmap is tried all the same.
Check(t) ==
  /\ At(t, "check")
  /\ \/ Goto(t, "map") /\ UNCHANGED <<nb, lead, orig, held, chunk>>
     \/ ~(nb[t] >= mmap_threshold /\ n_mmaps < n_mmaps_max) /\ Otherwise(t)
  /\ UNCHANGED <<mapped, counters, parameters, abort, seen>>

Map(t) ==
  /\ At(t, "map")
  /\ \/ \E b \in BLOCKS :
          LET size == AlignUp(nb[t] + SIZE_SZ, pagesize)
          IN  /\ mapped[b] = 0 /\ mapped' = Set(mapped, b, size)
              /\ chunk' = Set(chunk, t, Chunk(b, 0, size)) /\ nb' = Set(nb, t, 0)
              /\ Goto(t, "count") /\ UNCHANGED <<lead, orig, held>>
     \/ Otherwise(t) /\ UNCHANGED mapped
  /\ UNCHANGED <<counters, parameters, abort, seen>>

\* atomic_exchange_and_add, then atomic_max of what it returned.
Count(t) ==
  /\ At(t, "count") /\ Goto(t, "max")
  /\ n_mmaps' = n_mmaps + 1 /\ seen' = Set(seen, t, n_mmaps + 1)
  /\ UNCHANGED <<mapped, max_n_mmaps, mmapped_mem, max_mmapped_mem, parameters, held, abort,
                 nb, lead, chunk, orig>>

MaxCount(t) ==
  /\ At(t, "max") /\ Goto(t, "add")
  /\ max_n_mmaps' = (IF seen[t] > max_n_mmaps THEN seen[t] ELSE max_n_mmaps) /\ seen' = Set(seen, t, 0)
  /\ UNCHANGED <<mapped, n_mmaps, mmapped_mem, max_mmapped_mem, parameters, held, abort,
                 nb, lead, chunk, orig>>

Add(t) ==
  /\ At(t, "add") /\ Goto(t, "maxmem")
  /\ mmapped_mem' = mmapped_mem + chunk[t].size
  /\ seen' = Set(seen, t, mmapped_mem + chunk[t].size)
  /\ UNCHANGED <<mapped, n_mmaps, max_n_mmaps, max_mmapped_mem, parameters, held, abort,
                 nb, lead, chunk, orig>>

moved_chunk(c, shift) == Chunk(c.block, c.offset + shift, c.size - shift)

\* memalign moves a mapped chunk to the first aligned address with a leader of
\* at least MINSIZE.
aligned_chunk(c, a) ==
  LET m     == c.block + c.offset + CHUNK_HDR_SZ
      first == AlignUp(m, a) - CHUNK_HDR_SZ - (c.block + c.offset)
  IN  IF a = 0 \/ m % a = 0 THEN c
      ELSE moved_chunk(c, IF first < MINSIZE THEN first + a ELSE first)

\* The maximum, and the call returns; a realloc has now to free the old chunk.
MaxMem(t) ==
  /\ At(t, "maxmem")
  /\ max_mmapped_mem' = IF seen[t] > max_mmapped_mem THEN seen[t] ELSE max_mmapped_mem
  /\ seen' = Set(seen, t, 0)
  /\ held' = held \cup {aligned_chunk(chunk[t], lead[t])} /\ lead' = Set(lead, t, 0)
  /\ chunk' = Set(chunk, t, orig[t]) /\ orig' = Set(orig, t, NoChunk)
  /\ Goto(t, IF orig[t] = NoChunk THEN "idle" ELSE "release")
  /\ UNCHANGED <<mapped, n_mmaps, max_n_mmaps, mmapped_mem, parameters, abort, nb>>

-----------------------------------------------------------------------------
(* free: __libc_free and munmap_chunk.                                     *)

Free(t) ==
  /\ At(t, "idle")
  /\ \E c \in held : held' = held \ {c} /\ chunk' = Set(chunk, t, c)
  /\ Goto(t, "dynamic")
  /\ UNCHANGED <<mapped, counters, parameters, abort, nb, lead, orig, seen>>

Dynamic(t) ==
  /\ At(t, "dynamic") /\ Goto(t, IF no_dyn_threshold THEN "release" ELSE "compare")
  /\ UNCHANGED <<mapped, counters, parameters, held, abort, locals>>

\* Mutant: no upper bound.
NoUpperBound(c) == chunksize_nomask(c) > mmap_threshold

raises_threshold(c) ==
  /\ chunksize_nomask(c) > mmap_threshold
  /\ chunksize_nomask(c) <= DEFAULT_MMAP_THRESHOLD_MAX

Compare(t) ==
  /\ At(t, "compare")
  /\ Goto(t, IF raises_threshold(chunk[t]) THEN "raise" ELSE "release")
  /\ UNCHANGED <<mapped, counters, parameters, held, abort, locals>>

Raise(t) ==
  /\ At(t, "raise") /\ Goto(t, "double")
  /\ mmap_threshold' = chunk[t].size
  /\ UNCHANGED <<mapped, counters, n_mmaps_max, trim_threshold, no_dyn_threshold, held, abort, locals>>

Double(t) ==
  /\ At(t, "double") /\ Goto(t, "release")
  /\ trim_threshold' = 2 * mmap_threshold
  /\ UNCHANGED <<mapped, counters, n_mmaps_max, mmap_threshold, no_dyn_threshold, held, abort, locals>>

\* What munmap_chunk and mremap_chunk check.
invalid_pointer(c) ==
  \/ c.block % pagesize # 0 \/ total_size(c) % pagesize # 0
  \/ ~powerof2((c.block + c.offset + CHUNK_HDR_SZ) % pagesize)

\* Mutant: the count is read, and written one less later.
NotAtomic(t) ==
  IF seen[t] = 0 THEN seen' = Set(seen, t, n_mmaps) /\ UNCHANGED <<pc, n_mmaps>>
  ELSE n_mmaps' = seen[t] - 1 /\ seen' = Set(seen, t, 0) /\ Goto(t, "subtract")

atomic_decrement(t) ==
  n_mmaps' = n_mmaps - 1 /\ Goto(t, "subtract") /\ UNCHANGED seen

Release(t) ==
  /\ At(t, "release")
  /\ IF invalid_pointer(chunk[t]) THEN abort' = TRUE /\ UNCHANGED <<pc, n_mmaps, seen>>
     ELSE atomic_decrement(t) /\ UNCHANGED abort
  /\ UNCHANGED <<mapped, max_n_mmaps, mmapped_mem, max_mmapped_mem, parameters, held,
                 nb, lead, chunk, orig>>

Subtract(t) ==
  /\ At(t, "subtract") /\ Goto(t, "unmap")
  /\ mmapped_mem' = mmapped_mem - total_size(chunk[t])
  /\ UNCHANGED <<mapped, n_mmaps, max_n_mmaps, max_mmapped_mem, parameters, held, abort, locals>>

\* munmap: what the chunk does not cover stays mapped.
Unmap(t) ==
  /\ At(t, "unmap") /\ Goto(t, "idle")
  /\ mapped' = Set(mapped, chunk[t].block, mapped[chunk[t].block] - total_size(chunk[t]))
  /\ chunk' = Set(chunk, t, NoChunk)
  /\ UNCHANGED <<counters, parameters, held, abort, nb, lead, orig, seen>>

-----------------------------------------------------------------------------
(* realloc of a mapped chunk: mremap_chunk.                                *)

remapped_size(c, n) == AlignUp(n + c.offset + SIZE_SZ, pagesize)

Realloc(t) ==
  /\ At(t, "idle")
  /\ \E c \in held, n \in REQUESTS :
       /\ remapped_size(c, n) # total_size(c)      \* else the chunk stays as it is
       /\ held' = held \ {c} /\ chunk' = Set(chunk, t, c) /\ nb' = Set(nb, t, n)
  /\ Goto(t, "remap")
  /\ UNCHANGED <<mapped, counters, parameters, abort, lead, orig, seen>>

\* The kernel changes the mapping, at its place or at another one.  seen is
\* the difference, still to be added.
Remap(t) ==
  LET c    == chunk[t]
      size == remapped_size(c, nb[t])
  IN  /\ At(t, "remap") /\ ~invalid_pointer(c) /\ Goto(t, "readd")
      /\ \E b \in BLOCKS :
           /\ b = c.block \/ mapped[b] = 0
           /\ mapped' = [mapped EXCEPT ![c.block] = 0, ![b] = size]
           /\ chunk' = Set(chunk, t, Chunk(b, c.offset, size - c.offset))
      /\ nb' = Set(nb, t, 0) /\ seen' = Set(seen, t, size - total_size(c))
      /\ UNCHANGED <<counters, parameters, held, abort, lead, orig>>

\* The kernel cannot: the chunk serves if it is large enough, else memory is
\* allocated for a copy.
NoRemap(t) ==
  LET c == chunk[t] IN
  /\ At(t, "remap")
  /\ IF invalid_pointer(c)
     THEN abort' = TRUE /\ UNCHANGED <<pc, held, nb, orig, chunk>>
     ELSE /\ chunk' = Set(chunk, t, NoChunk) /\ UNCHANGED abort
          /\ IF c.size - SIZE_SZ >= nb[t]
             THEN held' = held \cup {c} /\ nb' = Set(nb, t, 0) /\ Goto(t, "idle") /\ UNCHANGED orig
             ELSE orig' = Set(orig, t, c) /\ Goto(t, "check") /\ UNCHANGED <<held, nb>>
  /\ UNCHANGED <<mapped, counters, parameters, lead, seen>>

\* Mutant: the bytes before the chunk are counted twice.
OffsetCountedTwice(t) == seen[t] + chunk[t].offset

remap_difference(t) == seen[t]

ReAdd(t) ==
  /\ At(t, "readd") /\ Goto(t, "remax")
  /\ mmapped_mem' = mmapped_mem + remap_difference(t)
  /\ seen' = Set(seen, t, mmapped_mem + remap_difference(t))
  /\ UNCHANGED <<mapped, n_mmaps, max_n_mmaps, max_mmapped_mem, parameters, held, abort,
                 nb, lead, chunk, orig>>

\* Mutant: the maximum is for new mappings only.
RemapWithoutMax(t) == max_mmapped_mem

remap_max(t) == IF seen[t] > max_mmapped_mem THEN seen[t] ELSE max_mmapped_mem

ReMax(t) ==
  /\ At(t, "remax") /\ Goto(t, "idle")
  /\ max_mmapped_mem' = remap_max(t) /\ seen' = Set(seen, t, 0)
  /\ held' = held \cup {chunk[t]} /\ chunk' = Set(chunk, t, NoChunk)
  /\ UNCHANGED <<mapped, n_mmaps, max_n_mmaps, mmapped_mem, parameters, abort, nb, lead, orig>>

-----------------------------------------------------------------------------
(* mallopt, one call at a time: it has the lock of the main arena.         *)

Mallopt(t) ==
  /\ At(t, "idle") /\ \A s \in THREADS : pc[s] # "fix"
  /\ \/ /\ mmap_threshold' \in { v \in THRESHOLDS : v <= HEAP_MAX_SIZE \div 2 }
        /\ UNCHANGED <<n_mmaps_max, trim_threshold>>
     \/ trim_threshold' \in THRESHOLDS /\ UNCHANGED <<n_mmaps_max, mmap_threshold>>
     \/ n_mmaps_max' \in MAXIMA /\ UNCHANGED <<trim_threshold, mmap_threshold>>
  /\ Goto(t, "fix")
  /\ UNCHANGED <<mapped, counters, no_dyn_threshold, held, abort, locals>>

Fix(t) ==
  /\ At(t, "fix") /\ Goto(t, "idle")
  /\ no_dyn_threshold' = TRUE
  /\ UNCHANGED <<mapped, counters, n_mmaps_max, mmap_threshold, trim_threshold, held, abort, locals>>

-----------------------------------------------------------------------------

Step(t) ==
  \/ Malloc(t) \/ Check(t) \/ Map(t) \/ Count(t) \/ MaxCount(t) \/ Add(t) \/ MaxMem(t)
  \/ Free(t) \/ Dynamic(t) \/ Compare(t) \/ Raise(t) \/ Double(t)
  \/ Release(t) \/ Subtract(t) \/ Unmap(t)
  \/ Realloc(t) \/ Remap(t) \/ NoRemap(t) \/ ReAdd(t) \/ ReMax(t)
  \/ Mallopt(t) \/ Fix(t)

Next == \E t \in THREADS : Step(t)

Spec == Init /\ [][Next]_vars
=============================================================================
