---------------------------- MODULE MmapsProps ----------------------------
(***************************************************************************)
(* What the mapped chunks of module Mmaps, their counters and the          *)
(* threshold keep, whatever the threads do.                                *)
(***************************************************************************)
EXTENDS Mmaps, Functions

Quiet == \A t \in THREADS : pc[t] = "idle"

\* Where a thread has a chunk in hand, and where it has the old one of a realloc.
HasChunk == {"count", "max", "add", "maxmem", "dynamic", "compare", "raise", "double",
             "release", "subtract", "unmap", "remap", "readd", "remax"}
HasOrig  == {"check", "map", "count", "max", "add", "maxmem"}
Places   == HasChunk \cup {"idle", "check", "map", "fix"}

\* The types of what the counters tell of, and of the counters; no chunk is without memory.
ChunkType == { c \in [block : BLOCKS, offset : Nat, size : Int] : total_size(c) > 0 }

DataOK ==
  /\ mapped \in [BLOCKS -> Int]
  /\ n_mmaps \in Int
  /\ held \subseteq ChunkType /\ IsFiniteSet(held)
  /\ chunk \in [THREADS -> ChunkType \cup {NoChunk}]
  /\ orig \in [THREADS -> ChunkType \cup {NoChunk}]
  /\ nb \in [THREADS -> Nat] /\ lead \in [THREADS -> ALIGNMENTS \cup {0}]

CountersOK ==
  /\ max_n_mmaps \in Int /\ mmapped_mem \in Int /\ max_mmapped_mem \in Int
  /\ seen \in [THREADS -> Int]

TypeOK == DataOK /\ CountersOK /\ pc \in [THREADS -> Places]

HandsMatchPlaces ==
  \A t \in THREADS :
    /\ chunk[t] # NoChunk <=> pc[t] \in HasChunk
    /\ orig[t] # NoChunk => pc[t] \in HasOrig

\* No two chunks, wherever they are, share a mapping, and each has one.
OwnMapping ==
  /\ \A c \in held : mapped[c.block] # 0
  /\ \A c, d \in held : c # d => c.block # d.block
  /\ \A t \in THREADS :
       /\ chunk[t] # NoChunk => mapped[chunk[t].block] # 0
       /\ orig[t] # NoChunk => mapped[orig[t].block] # 0
       /\ \A c \in held : /\ chunk[t] # NoChunk => chunk[t].block # c.block
                          /\ orig[t] # NoChunk => orig[t].block # c.block
       /\ \A u \in THREADS :
            /\ t # u /\ chunk[t] # NoChunk /\ chunk[u] # NoChunk => chunk[t].block # chunk[u].block
            /\ t # u /\ orig[t] # NoChunk /\ orig[u] # NoChunk => orig[t].block # orig[u].block
            /\ chunk[t] # NoChunk /\ orig[u] # NoChunk => chunk[t].block # orig[u].block

\* The threads whose chunk n_mmaps counts, and those with an old chunk too.
Counted == { t \in THREADS : chunk[t] # NoChunk /\ pc[t] \notin {"count", "subtract", "unmap"} }
Copying == { t \in THREADS : orig[t] # NoChunk }

\* At every moment n_mmaps counts the program's chunks and those in hand.
CountInv == n_mmaps = Cardinality(held) + Cardinality(Counted) + Cardinality(Copying)

\* A maximum that is not noted yet is in the hand of a thread that will note it,
\* and it is still one.
MaxInv ==
  /\ \/ max_n_mmaps >= n_mmaps
     \/ \E t \in THREADS : pc[t] = "max" /\ seen[t] >= n_mmaps
  /\ \/ max_mmapped_mem >= mmapped_mem
     \/ \E t \in THREADS : pc[t] \in {"maxmem", "remax"} /\ seen[t] >= mmapped_mem

\* The inductive invariant behind CountIsExact and MaximaAreMaxima.
IInv == TypeOK /\ HandsMatchPlaces /\ OwnMapping /\ CountInv /\ MaxInv

\* When no call is under way, n_mmaps is the number of the program's mapped
\* chunks: no increment or decrement of the threads is lost or done twice,
\* whatever became of a realloc.
CountIsExact == Quiet => n_mmaps = Cardinality(held)

\* mmapped_mem is what the kernel has mapped for them, all of it: memalign and
\* mremap keep track of where a mapping begins, free leaves nothing, and none
\* of the chunks fails the checks of munmap_chunk.
MemoryIsExact ==
  /\ ~abort
  /\ Quiet =>
       /\ mmapped_mem = SumFunction(mapped)
       /\ \A c \in held : mapped[c.block] = total_size(c)
       /\ { b \in BLOCKS : mapped[b] # 0 } = { c.block : c \in held }

\* The maxima that malloc_stats prints are not below what there is now.
MaximaAreMaxima ==
  Quiet => max_n_mmaps >= n_mmaps /\ max_mmapped_mem >= mmapped_mem

\* The threshold stays between its first value and DEFAULT_MMAP_THRESHOLD_MAX
\* until the first mallopt.  After it no free raises it above that limit, not
\* even one that has compared with the old value; only the user's value may be
\* larger.
ThresholdWithinLimits ==
  /\ mmap_threshold \in THRESHOLDS \cup (0 .. DEFAULT_MMAP_THRESHOLD_MAX)
  /\ ~no_dyn_threshold /\ (\A t \in THREADS : pc[t] # "fix")
       => mmap_threshold >= DEFAULT_MMAP_THRESHOLD

-----------------------------------------------------------------------------
(* The inductive invariant behind MemoryIsExact and ThresholdWithinLimits, *)
(* beside IInv.                                                            *)

AllChunks == (held \cup { chunk[t] : t \in THREADS } \cup { orig[t] : t \in THREADS }) \ {NoChunk}

\* munmap_chunk accepts the chunk, and the flag bits of its sizes are free.
Sound(c) ==
  /\ ~invalid_pointer(c)
  /\ c.offset % IS_MMAPPED = 0 /\ c.size % IS_MMAPPED = 0

\* A chunk covers its mapping.
Whole(c) == Sound(c) /\ mapped[c.block] = total_size(c)

ChunksWhole      == \A c \in AllChunks : Whole(c)
NothingElse      == \A b \in BLOCKS : mapped[b] # 0 => \E c \in AllChunks : c.block = b
NewAtTheirBegin  == \A t \in THREADS : pc[t] \in {"count", "max", "add", "maxmem"} => chunk[t].offset = 0

\* What is mapped for t's chunk and not in mmapped_mem.
Pending(t) ==
  CASE pc[t] \in {"count", "max", "add"} -> chunk[t].size
    [] pc[t] = "readd" -> seen[t]
    [] pc[t] = "unmap" -> total_size(chunk[t])
    [] OTHER -> 0

SumInv == mmapped_mem = SumFunction(mapped) - SumFunction([t \in THREADS |-> Pending(t)])

MemoryInv == ~abort /\ ChunksWhole /\ NothingElse /\ NewAtTheirBegin /\ SumInv

\* A thread that is going to raise the threshold has compared already.
NoMallopt == ~no_dyn_threshold /\ \A t \in THREADS : pc[t] # "fix"

LimitsInv ==
  /\ ThresholdWithinLimits
  /\ \A t \in THREADS : pc[t] = "raise" =>
       /\ chunk[t].size \in 0 .. DEFAULT_MMAP_THRESHOLD_MAX
       /\ NoMallopt => chunk[t].size >= DEFAULT_MMAP_THRESHOLD
=============================================================================
