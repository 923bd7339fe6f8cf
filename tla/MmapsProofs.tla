---------------------------- MODULE MmapsProofs ----------------------------
(***************************************************************************)
(* n_mmaps, mmapped_mem and their maxima are exact, and the dynamic        *)
(* threshold keeps its limits, for any number of threads, mappings,        *)
(* requests and alignments.                                                *)
(***************************************************************************)
EXTENDS MmapsProps, Arithmetic

-----------------------------------------------------------------------------
(* Sizes.                                                                  *)

\* ALIGN_UP gives the least multiple that is not smaller.
LEMMA AlignUpBounds ==
  ASSUME NEW n \in Int, NEW a \in Nat \ {0}
  PROVE  /\ AlignUp(n, a) \in Int
         /\ n <= AlignUp(n, a) /\ AlignUp(n, a) < n + a
  <1>1. (-n) % a \in 0 .. a - 1
    OBVIOUS
  <1> QED
    BY <1>1 DEF AlignUp

\* A mapping for a request is never empty.
LEMMA MappedSize ==
  ASSUME NEW n \in Nat
  PROVE  AlignUp(n + SIZE_SZ, pagesize) \in Nat \ {0}
  <1>1. n + SIZE_SZ \in Int /\ n + SIZE_SZ > 0 /\ pagesize \in Nat \ {0}
    BY MmapsAssumption
  <1> QED
    BY <1>1, AlignUpBounds

\* memalign moves a chunk inside its mapping, upward.
LEMMA AlignedChunk ==
  ASSUME NEW c \in ChunkType, NEW a \in ALIGNMENTS \cup {0}
  PROVE  aligned_chunk(c, a) \in ChunkType /\ aligned_chunk(c, a).block = c.block
  <1>1. CASE a = 0 \/ (c.block + c.offset + CHUNK_HDR_SZ) % a = 0
    BY <1>1 DEF aligned_chunk
  <1>2. CASE ~(a = 0 \/ (c.block + c.offset + CHUNK_HDR_SZ) % a = 0)
    <2> DEFINE m == c.block + c.offset + CHUNK_HDR_SZ
               first == AlignUp(m, a) - CHUNK_HDR_SZ - (c.block + c.offset)
               shift == IF first < MINSIZE THEN first + a ELSE first
    <2>1. a \in Nat \ {0} /\ c.block \in Nat /\ c.offset \in Nat /\ c.size \in Int
          /\ CHUNK_HDR_SZ \in Nat /\ c.block \in BLOCKS
      BY <1>2, MmapsAssumption DEF ChunkType
    <2>2. m \in Int
      BY <2>1
    <2> HIDE DEF m
    <2>3. AlignUp(m, a) \in Int /\ m <= AlignUp(m, a)
      BY <2>1, <2>2, AlignUpBounds
    <2> USE DEF m
    <2> HIDE DEF m
    <2>4. first \in Nat
      BY <2>1, <2>3 DEF m
    <2>5. shift \in Nat
      BY <2>1, <2>4
    <2>6. aligned_chunk(c, a) = [block |-> c.block, offset |-> c.offset + shift, size |-> c.size - shift]
      BY <1>2 DEF aligned_chunk, moved_chunk, Chunk, m
    <2> HIDE DEF shift
    <2>7. c.offset + shift \in Nat /\ c.size - shift \in Int
          /\ (c.offset + shift) + (c.size - shift) > 0
      BY <2>1, <2>5 DEF ChunkType, total_size
    <2> QED
      BY <2>1, <2>6, <2>7 DEF ChunkType, total_size
  <1> QED
    BY <1>1, <1>2

\* What Chunk makes is a chunk.
LEMMA NewChunk ==
  ASSUME NEW b \in BLOCKS, NEW offset \in Nat, NEW size \in Int, offset + size > 0
  PROVE  Chunk(b, offset, size) \in ChunkType
  BY DEF Chunk, ChunkType, total_size

\* NoChunk is none of them.
LEMMA NoChunkIsNone ==
  NoChunk \notin ChunkType
  BY MmapsAssumption DEF ChunkType

\* The fields of a chunk.
LEMMA Fields ==
  ASSUME NEW c \in ChunkType
  PROVE  c.block \in BLOCKS /\ c.offset \in Nat /\ c.size \in Int
         /\ total_size(c) \in Int /\ total_size(c) > 0
  BY DEF ChunkType, total_size

\* A thread whose place says so has a chunk in hand.
LEMMA HasOne ==
  ASSUME DataOK, HandsMatchPlaces, NEW t \in THREADS, pc[t] \in HasChunk
  PROVE  chunk[t] \in ChunkType
  BY DEF DataOK, HandsMatchPlaces

-----------------------------------------------------------------------------
(* Types.                                                                  *)

\* Every step keeps the types of the data.
LEMMA DataStep ==
  ASSUME DataOK, HandsMatchPlaces, NEW t \in THREADS, Step(t)
  PROVE  DataOK'
  <1> USE DEF DataOK, At, Goto, Set, counters, parameters, locals
  <1>1. CASE Malloc(t)
    <2>1. held' \subseteq ChunkType /\ IsFiniteSet(held')
      BY <1>1 DEF Malloc
    <2>2. chunk' \in [THREADS -> ChunkType \cup {NoChunk}]
      BY <1>1 DEF Malloc
    <2>3. orig' \in [THREADS -> ChunkType \cup {NoChunk}]
      BY <1>1 DEF Malloc
    <2>4. mapped' \in [BLOCKS -> Int] /\ n_mmaps' \in Int
      BY <1>1, MmapsAssumption DEF Malloc
    <2>5. nb' \in [THREADS -> Nat] /\ lead' \in [THREADS -> ALIGNMENTS \cup {0}]
      BY <1>1, MmapsAssumption DEF Malloc
    <2> QED
      BY <2>1, <2>2, <2>3, <2>4, <2>5
  <1>2. CASE Check(t)
    <2>1. held' \subseteq ChunkType /\ IsFiniteSet(held')
      BY <1>2, FS_AddElement DEF Check, Otherwise
    <2>2. chunk' \in [THREADS -> ChunkType \cup {NoChunk}]
      BY <1>2 DEF Check, Otherwise
    <2>3. orig' \in [THREADS -> ChunkType \cup {NoChunk}]
      BY <1>2 DEF Check, Otherwise
    <2>4. mapped' \in [BLOCKS -> Int] /\ n_mmaps' \in Int
      BY <1>2 DEF Check, Otherwise
    <2>5. nb' \in [THREADS -> Nat] /\ lead' \in [THREADS -> ALIGNMENTS \cup {0}]
      BY <1>2 DEF Check, Otherwise
    <2> QED
      BY <2>1, <2>2, <2>3, <2>4, <2>5
  <1>3. CASE Map(t)
    <2> DEFINE size == AlignUp(nb[t] + SIZE_SZ, pagesize)
    <2>0. size \in Nat \ {0} /\ 0 + size > 0
      BY MappedSize
    <2>1. held' \subseteq ChunkType /\ IsFiniteSet(held')
      BY <1>3, FS_AddElement DEF Map, Otherwise
    <2>2. chunk' \in [THREADS -> ChunkType \cup {NoChunk}]
      <3>1. CASE Otherwise(t)
        BY <3>1, <1>3 DEF Map, Otherwise
      <3>2. CASE \E b \in BLOCKS : chunk' = Set(chunk, t, Chunk(b, 0, size))
        <4> HIDE DEF size
        <4> QED
          BY <3>2, <2>0, NewChunk
      <3> QED
        BY <3>1, <3>2, <1>3 DEF Map
    <2>3. orig' \in [THREADS -> ChunkType \cup {NoChunk}]
      BY <1>3 DEF Map, Otherwise
    <2>4. mapped' \in [BLOCKS -> Int] /\ n_mmaps' \in Int
      <3>1. mapped' = mapped \/ \E b \in BLOCKS : mapped' = Set(mapped, b, size)
        BY <1>3 DEF Map
      <3> HIDE DEF size
      <3> QED
        BY <3>1, <1>3, <2>0 DEF Map
    <2>5. nb' \in [THREADS -> Nat] /\ lead' \in [THREADS -> ALIGNMENTS \cup {0}]
      BY <1>3 DEF Map, Otherwise
    <2> QED
      BY <2>1, <2>2, <2>3, <2>4, <2>5
  <1>4. CASE Count(t)
    BY <1>4 DEF Count
  <1>5. CASE MaxCount(t)
    BY <1>5 DEF MaxCount
  <1>6. CASE Add(t)
    BY <1>6 DEF Add
  <1>7. CASE MaxMem(t)
    <2>0. chunk[t] \in ChunkType
      BY <1>7, HasOne DEF MaxMem, HasChunk
    <2>1. held' \subseteq ChunkType /\ IsFiniteSet(held')
      BY <1>7, <2>0, AlignedChunk, FS_AddElement DEF MaxMem
    <2>2. chunk' \in [THREADS -> ChunkType \cup {NoChunk}]
      BY <1>7 DEF MaxMem
    <2>3. orig' \in [THREADS -> ChunkType \cup {NoChunk}]
      BY <1>7 DEF MaxMem
    <2>4. mapped' \in [BLOCKS -> Int] /\ n_mmaps' \in Int
      BY <1>7 DEF MaxMem
    <2>5. nb' \in [THREADS -> Nat] /\ lead' \in [THREADS -> ALIGNMENTS \cup {0}]
      BY <1>7 DEF MaxMem
    <2> QED
      BY <2>1, <2>2, <2>3, <2>4, <2>5
  <1>8. CASE Free(t)
    <2>1. held' \subseteq ChunkType /\ IsFiniteSet(held')
      BY <1>8, FS_RemoveElement DEF Free
    <2>2. chunk' \in [THREADS -> ChunkType \cup {NoChunk}]
      BY <1>8 DEF Free
    <2>3. orig' \in [THREADS -> ChunkType \cup {NoChunk}]
      BY <1>8 DEF Free
    <2>4. mapped' \in [BLOCKS -> Int] /\ n_mmaps' \in Int
      BY <1>8 DEF Free
    <2>5. nb' \in [THREADS -> Nat] /\ lead' \in [THREADS -> ALIGNMENTS \cup {0}]
      BY <1>8 DEF Free
    <2> QED
      BY <2>1, <2>2, <2>3, <2>4, <2>5
  <1>9. CASE Dynamic(t)
    BY <1>9 DEF Dynamic
  <1>10. CASE Compare(t)
    BY <1>10 DEF Compare
  <1>11. CASE Raise(t)
    BY <1>11 DEF Raise
  <1>12. CASE Double(t)
    BY <1>12 DEF Double
  <1>13. CASE Release(t)
    <2>1. held' \subseteq ChunkType /\ IsFiniteSet(held')
      BY <1>13 DEF Release, atomic_decrement
    <2>2. chunk' \in [THREADS -> ChunkType \cup {NoChunk}]
      BY <1>13 DEF Release, atomic_decrement
    <2>3. orig' \in [THREADS -> ChunkType \cup {NoChunk}]
      BY <1>13 DEF Release, atomic_decrement
    <2>4. mapped' \in [BLOCKS -> Int] /\ n_mmaps' \in Int
      BY <1>13 DEF Release, atomic_decrement
    <2>5. nb' \in [THREADS -> Nat] /\ lead' \in [THREADS -> ALIGNMENTS \cup {0}]
      BY <1>13 DEF Release, atomic_decrement
    <2> QED
      BY <2>1, <2>2, <2>3, <2>4, <2>5
  <1>14. CASE Subtract(t)
    BY <1>14 DEF Subtract
  <1>15. CASE Unmap(t)
    <2>0. chunk[t] \in ChunkType
      BY <1>15, HasOne DEF Unmap, HasChunk
    <2>1. held' \subseteq ChunkType /\ IsFiniteSet(held')
      BY <1>15 DEF Unmap
    <2>2. chunk' \in [THREADS -> ChunkType \cup {NoChunk}]
      BY <1>15 DEF Unmap
    <2>3. orig' \in [THREADS -> ChunkType \cup {NoChunk}]
      BY <1>15 DEF Unmap
    <2>4. mapped' \in [BLOCKS -> Int] /\ n_mmaps' \in Int
      BY <1>15, <2>0, Fields DEF Unmap
    <2>5. nb' \in [THREADS -> Nat] /\ lead' \in [THREADS -> ALIGNMENTS \cup {0}]
      BY <1>15, <2>0, Fields DEF Unmap
    <2> QED
      BY <2>1, <2>2, <2>3, <2>4, <2>5
  <1>16. CASE Realloc(t)
    <2>1. held' \subseteq ChunkType /\ IsFiniteSet(held')
      BY <1>16, FS_RemoveElement DEF Realloc
    <2>2. chunk' \in [THREADS -> ChunkType \cup {NoChunk}]
      BY <1>16 DEF Realloc
    <2>3. orig' \in [THREADS -> ChunkType \cup {NoChunk}]
      BY <1>16 DEF Realloc
    <2>4. mapped' \in [BLOCKS -> Int] /\ n_mmaps' \in Int
      BY <1>16, MmapsAssumption DEF Realloc
    <2>5. nb' \in [THREADS -> Nat] /\ lead' \in [THREADS -> ALIGNMENTS \cup {0}]
      BY <1>16, MmapsAssumption DEF Realloc
    <2> QED
      BY <2>1, <2>2, <2>3, <2>4, <2>5
  <1>17. CASE Remap(t)
    <2> DEFINE c == chunk[t]
               size == remapped_size(c, nb[t])
    <2>0. chunk[t] \in ChunkType
      BY <1>17, HasOne DEF Remap, HasChunk
    <2>1. c.offset \in Nat /\ size \in Nat \ {0} /\ c.offset + (size - c.offset) > 0
      BY <2>0, Fields, MappedSize DEF remapped_size
    <2>2. PICK b \in BLOCKS : /\ mapped' = [mapped EXCEPT ![c.block] = 0, ![b] = size]
                              /\ chunk' = Set(chunk, t, Chunk(b, c.offset, size - c.offset))
      BY <1>17 DEF Remap
    <2> HIDE DEF size
    <2>3. Chunk(b, c.offset, size - c.offset) \in ChunkType
      BY <2>1, NewChunk
    <2>4. mapped' \in [BLOCKS -> Int] /\ n_mmaps' \in Int
      BY <2>1, <2>2, <1>17 DEF Remap
    <2>5. chunk' \in [THREADS -> ChunkType \cup {NoChunk}]
      BY <2>2, <2>3
    <2>6. UNCHANGED <<held, orig, lead>> /\ nb' = Set(nb, t, 0)
      BY <1>17 DEF Remap
    <2> QED
      BY <2>4, <2>5, <2>6
  <1>18. CASE NoRemap(t)
    <2>0. chunk[t] \in ChunkType
      BY <1>18, HasOne DEF NoRemap, HasChunk
    <2>1. held' \subseteq ChunkType /\ IsFiniteSet(held')
      BY <1>18, <2>0, FS_AddElement DEF NoRemap
    <2>2. chunk' \in [THREADS -> ChunkType \cup {NoChunk}]
      BY <1>18, <2>0 DEF NoRemap
    <2>3. orig' \in [THREADS -> ChunkType \cup {NoChunk}]
      BY <1>18, <2>0 DEF NoRemap
    <2>4. mapped' \in [BLOCKS -> Int] /\ n_mmaps' \in Int
      BY <1>18 DEF NoRemap
    <2>5. nb' \in [THREADS -> Nat] /\ lead' \in [THREADS -> ALIGNMENTS \cup {0}]
      BY <1>18 DEF NoRemap
    <2> QED
      BY <2>1, <2>2, <2>3, <2>4, <2>5
  <1>19. CASE ReAdd(t)
    BY <1>19 DEF ReAdd
  <1>20. CASE ReMax(t)
    <2>0. chunk[t] \in ChunkType
      BY <1>20, HasOne DEF ReMax, HasChunk
    <2>1. held' \subseteq ChunkType /\ IsFiniteSet(held')
      BY <1>20, <2>0, FS_AddElement DEF ReMax
    <2>2. chunk' \in [THREADS -> ChunkType \cup {NoChunk}]
      BY <1>20 DEF ReMax
    <2>3. orig' \in [THREADS -> ChunkType \cup {NoChunk}]
      BY <1>20 DEF ReMax
    <2>4. mapped' \in [BLOCKS -> Int] /\ n_mmaps' \in Int
      BY <1>20 DEF ReMax
    <2>5. nb' \in [THREADS -> Nat] /\ lead' \in [THREADS -> ALIGNMENTS \cup {0}]
      BY <1>20 DEF ReMax
    <2> QED
      BY <2>1, <2>2, <2>3, <2>4, <2>5
  <1>21. CASE Mallopt(t)
    BY <1>21 DEF Mallopt
  <1>22. CASE Fix(t)
    BY <1>22 DEF Fix
  <1> QED
    BY <1>1, <1>2, <1>3, <1>4, <1>5, <1>6, <1>7, <1>8, <1>9, <1>10, <1>11, <1>12,
       <1>13, <1>14, <1>15, <1>16, <1>17, <1>18, <1>19, <1>20, <1>21, <1>22 DEF Step

\* Every step keeps the types of the counters.
LEMMA CountersStep ==
  ASSUME DataOK, CountersOK, HandsMatchPlaces, NEW t \in THREADS, Step(t)
  PROVE  CountersOK'
  <1> USE DEF DataOK, CountersOK, At, Goto, Set, counters, parameters, locals
  <1>1. CASE Malloc(t)
    BY <1>1 DEF Malloc
  <1>2. CASE Check(t)
    BY <1>2 DEF Check, Otherwise
  <1>3. CASE Map(t)
    BY <1>3 DEF Map, Otherwise
  <1>4. CASE Count(t)
    BY <1>4 DEF Count
  <1>5. CASE MaxCount(t)
    BY <1>5 DEF MaxCount
  <1>6. CASE Add(t)
    <2>1. chunk[t] \in ChunkType
      BY <1>6, HasOne DEF Add, HasChunk
    <2>2. chunk[t].size \in Int
      BY <2>1, Fields
    <2> QED
      BY <2>2, <1>6 DEF Add
  <1>7. CASE MaxMem(t)
    BY <1>7 DEF MaxMem
  <1>8. CASE Free(t)
    BY <1>8 DEF Free
  <1>9. CASE Dynamic(t)
    BY <1>9 DEF Dynamic
  <1>10. CASE Compare(t)
    BY <1>10 DEF Compare
  <1>11. CASE Raise(t)
    BY <1>11 DEF Raise
  <1>12. CASE Double(t)
    BY <1>12 DEF Double
  <1>13. CASE Release(t)
    BY <1>13 DEF Release, atomic_decrement
  <1>14. CASE Subtract(t)
    <2>1. chunk[t] \in ChunkType
      BY <1>14, HasOne DEF Subtract, HasChunk
    <2>2. total_size(chunk[t]) \in Int
      BY <2>1, Fields
    <2> QED
      BY <2>2, <1>14 DEF Subtract
  <1>15. CASE Unmap(t)
    BY <1>15 DEF Unmap
  <1>16. CASE Realloc(t)
    BY <1>16 DEF Realloc
  <1>17. CASE Remap(t)
    <2> DEFINE size == remapped_size(chunk[t], nb[t])
    <2>1. chunk[t] \in ChunkType
      BY <1>17, HasOne DEF Remap, HasChunk
    <2>2. total_size(chunk[t]) \in Int /\ nb[t] + chunk[t].offset \in Nat
      BY <2>1, Fields
    <2>3. size \in Int
      BY <2>2, MappedSize DEF remapped_size
    <2>4. seen' = Set(seen, t, size - total_size(chunk[t]))
          /\ UNCHANGED <<max_n_mmaps, mmapped_mem, max_mmapped_mem>>
      BY <1>17 DEF Remap
    <2> HIDE DEF size
    <2> QED
      BY <2>2, <2>3, <2>4
  <1>18. CASE NoRemap(t)
    BY <1>18 DEF NoRemap
  <1>19. CASE ReAdd(t)
    BY <1>19 DEF ReAdd, remap_difference
  <1>20. CASE ReMax(t)
    BY <1>20 DEF ReMax, remap_max
  <1>21. CASE Mallopt(t)
    BY <1>21 DEF Mallopt
  <1>22. CASE Fix(t)
    BY <1>22 DEF Fix
  <1> QED
    BY <1>1, <1>2, <1>3, <1>4, <1>5, <1>6, <1>7, <1>8, <1>9, <1>10, <1>11, <1>12,
       <1>13, <1>14, <1>15, <1>16, <1>17, <1>18, <1>19, <1>20, <1>21, <1>22 DEF Step

\* Every step leads to a place.
LEMMA PlaceStep ==
  ASSUME pc \in [THREADS -> Places], NEW t \in THREADS, Step(t)
  PROVE  pc' \in [THREADS -> Places]
  <1> USE DEF Places, HasChunk, At, Goto, Set, locals
  <1>1. CASE Malloc(t)
    BY <1>1 DEF Malloc
  <1>2. CASE Check(t)
    BY <1>2 DEF Check, Otherwise
  <1>3. CASE Map(t)
    BY <1>3 DEF Map, Otherwise
  <1>4. CASE Count(t)
    BY <1>4 DEF Count
  <1>5. CASE MaxCount(t)
    BY <1>5 DEF MaxCount
  <1>6. CASE Add(t)
    BY <1>6 DEF Add
  <1>7. CASE MaxMem(t)
    BY <1>7 DEF MaxMem
  <1>8. CASE Free(t)
    BY <1>8 DEF Free
  <1>9. CASE Dynamic(t)
    BY <1>9 DEF Dynamic
  <1>10. CASE Compare(t)
    BY <1>10 DEF Compare
  <1>11. CASE Raise(t)
    BY <1>11 DEF Raise
  <1>12. CASE Double(t)
    BY <1>12 DEF Double
  <1>13. CASE Release(t)
    BY <1>13 DEF Release, atomic_decrement
  <1>14. CASE Subtract(t)
    BY <1>14 DEF Subtract
  <1>15. CASE Unmap(t)
    BY <1>15 DEF Unmap
  <1>16. CASE Realloc(t)
    BY <1>16 DEF Realloc
  <1>17. CASE Remap(t)
    BY <1>17 DEF Remap
  <1>18. CASE NoRemap(t)
    BY <1>18 DEF NoRemap
  <1>19. CASE ReAdd(t)
    BY <1>19 DEF ReAdd
  <1>20. CASE ReMax(t)
    BY <1>20 DEF ReMax
  <1>21. CASE Mallopt(t)
    BY <1>21 DEF Mallopt
  <1>22. CASE Fix(t)
    BY <1>22 DEF Fix
  <1> QED
    BY <1>1, <1>2, <1>3, <1>4, <1>5, <1>6, <1>7, <1>8, <1>9, <1>10, <1>11, <1>12,
       <1>13, <1>14, <1>15, <1>16, <1>17, <1>18, <1>19, <1>20, <1>21, <1>22 DEF Step

\* Every step keeps what is in hand with the place in the call.
LEMMA HandsStep ==
  ASSUME TypeOK, HandsMatchPlaces, NEW t \in THREADS, Step(t)
  PROVE  HandsMatchPlaces'
  <1> USE DEF TypeOK, DataOK, Places, HandsMatchPlaces, HasChunk, HasOrig, At, Goto, Set,
             counters, parameters, locals
  <1>1. CASE Malloc(t)
    BY <1>1 DEF Malloc
  <1>2. CASE Check(t)
    BY <1>2 DEF Check, Otherwise
  <1>3. CASE Map(t)
    <2> DEFINE size == AlignUp(nb[t] + SIZE_SZ, pagesize)
    <2>1. CASE Otherwise(t)
      BY <2>1, <1>3 DEF Map, Otherwise
    <2>2. CASE \E b \in BLOCKS : /\ chunk' = Set(chunk, t, Chunk(b, 0, size))
                                  /\ Goto(t, "count") /\ UNCHANGED orig
      <3>1. size \in Int /\ 0 + size > 0
        BY MappedSize
      <3> HIDE DEF size
      <3> QED
        BY <2>2, <3>1, <1>3, NewChunk, NoChunkIsNone DEF Map
    <2> QED
      BY <2>1, <2>2, <1>3 DEF Map
  <1>4. CASE Count(t)
    BY <1>4 DEF Count
  <1>5. CASE MaxCount(t)
    BY <1>5 DEF MaxCount
  <1>6. CASE Add(t)
    BY <1>6 DEF Add
  <1>7. CASE MaxMem(t)
    BY <1>7 DEF MaxMem
  <1>8. CASE Free(t)
    BY <1>8, NoChunkIsNone DEF Free
  <1>9. CASE Dynamic(t)
    BY <1>9 DEF Dynamic
  <1>10. CASE Compare(t)
    BY <1>10 DEF Compare
  <1>11. CASE Raise(t)
    BY <1>11 DEF Raise
  <1>12. CASE Double(t)
    BY <1>12 DEF Double
  <1>13. CASE Release(t)
    BY <1>13 DEF Release, atomic_decrement
  <1>14. CASE Subtract(t)
    BY <1>14 DEF Subtract
  <1>15. CASE Unmap(t)
    BY <1>15 DEF Unmap
  <1>16. CASE Realloc(t)
    BY <1>16, NoChunkIsNone DEF Realloc
  <1>17. CASE Remap(t)
    <2> DEFINE c == chunk[t]
               size == remapped_size(c, nb[t])
    <2>0. c \in ChunkType
      BY <1>17, HasOne DEF Remap
    <2>1. c.offset \in Nat /\ size \in Nat \ {0} /\ c.offset + (size - c.offset) > 0
      BY <2>0, Fields, MappedSize DEF remapped_size
    <2> HIDE DEF size
    <2>2. PICK b \in BLOCKS : chunk' = Set(chunk, t, Chunk(b, c.offset, size - c.offset))
      BY <1>17 DEF Remap, size
    <2>3. Chunk(b, c.offset, size - c.offset) # NoChunk
      BY <2>1, NewChunk, NoChunkIsNone
    <2>4. pc' = Set(pc, t, "readd") /\ UNCHANGED orig /\ pc[t] = "remap"
      BY <1>17 DEF Remap
    <2> QED
      BY <2>2, <2>3, <2>4
  <1>18. CASE NoRemap(t)
    BY <1>18 DEF NoRemap
  <1>19. CASE ReAdd(t)
    BY <1>19 DEF ReAdd
  <1>20. CASE ReMax(t)
    BY <1>20 DEF ReMax
  <1>21. CASE Mallopt(t)
    BY <1>21 DEF Mallopt
  <1>22. CASE Fix(t)
    BY <1>22 DEF Fix
  <1> QED
    BY <1>1, <1>2, <1>3, <1>4, <1>5, <1>6, <1>7, <1>8, <1>9, <1>10, <1>11, <1>12,
       <1>13, <1>14, <1>15, <1>16, <1>17, <1>18, <1>19, <1>20, <1>21, <1>22 DEF Step

-----------------------------------------------------------------------------
(* Mappings.                                                               *)

\* A request that gets no mapping leaves every chunk its own.
LEMMA OtherwiseOwns ==
  ASSUME DataOK, HandsMatchPlaces, OwnMapping, NEW t \in THREADS, Otherwise(t), UNCHANGED mapped,
         chunk[t] = NoChunk
  PROVE  OwnMapping'
  <1> USE DEF DataOK, Set
  <1>1. orig[t] # NoChunk => orig[t] \in ChunkType
    OBVIOUS
  <1>2. orig' = Set(orig, t, NoChunk)
    BY DEF Otherwise
  <1>3. CASE held' = held /\ chunk' = chunk
    BY <1>2, <1>3 DEF OwnMapping
  <1>4. CASE orig[t] # NoChunk /\ held' = held \cup {orig[t]} /\ chunk' = chunk
    BY <1>1, <1>2, <1>4 DEF OwnMapping
  <1>5. CASE orig[t] # NoChunk /\ held' = held /\ chunk' = Set(chunk, t, orig[t])
    BY <1>1, <1>2, <1>5 DEF OwnMapping
  <1> QED
    BY <1>3, <1>4, <1>5 DEF Otherwise

\* Every step leaves every chunk its own mapping.
LEMMA OwnStep ==
  ASSUME TypeOK, HandsMatchPlaces, OwnMapping, NEW t \in THREADS, Step(t)
  PROVE  OwnMapping'
  <1> USE DEF TypeOK, DataOK, At, Goto, Set, counters, parameters, locals
  <1>0. UNCHANGED <<mapped, held, chunk, orig>> => OwnMapping'
    BY DEF OwnMapping
  <1>1. CASE Malloc(t)
    BY <1>1, <1>0 DEF Malloc
  <1>2. CASE Check(t)
    <2>1. CASE Otherwise(t)
      BY <2>1, <1>2, OtherwiseOwns DEF Check, HandsMatchPlaces, HasChunk
    <2>2. CASE ~Otherwise(t)
      BY <2>2, <1>0, <1>2 DEF Check
    <2> QED
      BY <2>1, <2>2
  <1>3. CASE Map(t)
    <2> DEFINE size == AlignUp(nb[t] + SIZE_SZ, pagesize)
    <2>1. CASE Otherwise(t) /\ UNCHANGED mapped
      BY <2>1, <1>3, OtherwiseOwns DEF Map, HandsMatchPlaces, HasChunk
    <2>2. CASE ~(Otherwise(t) /\ UNCHANGED mapped)
      <3>1. PICK b \in BLOCKS : /\ mapped[b] = 0 /\ mapped' = Set(mapped, b, size)
                                /\ chunk' = Set(chunk, t, Chunk(b, 0, size))
                                /\ UNCHANGED <<orig, held>>
        BY <2>2, <1>3 DEF Map
      <3>2. size \in Int \ {0}
        BY MappedSize
      <3> DEFINE c == Chunk(b, 0, size)
      <3>3. c.block = b
        BY DEF Chunk
      <3> HIDE DEF size, c
      <3>4. chunk' = Set(chunk, t, c)
        BY <3>1 DEF c
      <3>5. \A d \in held : d.block # b /\ d.block \in BLOCKS
        BY <3>1, Fields DEF OwnMapping
      <3>6. \A u \in THREADS : /\ chunk[u] # NoChunk => chunk[u].block # b /\ chunk[u].block \in BLOCKS
                               /\ orig[u] # NoChunk => orig[u].block # b /\ orig[u].block \in BLOCKS
        BY <3>1, Fields DEF OwnMapping
      <3> QED
        BY <3>1, <3>2, <3>3, <3>4, <3>5, <3>6 DEF OwnMapping
    <2> QED
      BY <2>1, <2>2
  <1>4. CASE Count(t)
    BY <1>4, <1>0 DEF Count
  <1>5. CASE MaxCount(t)
    BY <1>5, <1>0 DEF MaxCount
  <1>6. CASE Add(t)
    BY <1>6, <1>0 DEF Add
  <1>7. CASE MaxMem(t)
    <2>0. chunk[t] \in ChunkType /\ chunk[t].block \in BLOCKS
      BY <1>7, HasOne, Fields DEF MaxMem, HasChunk
    <2> DEFINE c == aligned_chunk(chunk[t], lead[t])
    <2>1. c \in ChunkType /\ c.block = chunk[t].block
      BY <2>0, AlignedChunk
    <2> HIDE DEF c
    <2>2. held' = held \cup {c} /\ chunk' = Set(chunk, t, orig[t]) /\ orig' = Set(orig, t, NoChunk)
          /\ UNCHANGED mapped
      BY <1>7 DEF MaxMem, c
    <2> QED
      BY <2>0, <2>1, <2>2, NoChunkIsNone DEF OwnMapping
  <1>8. CASE Free(t)
    BY <1>8, NoChunkIsNone DEF Free, OwnMapping
  <1>9. CASE Dynamic(t)
    BY <1>9, <1>0 DEF Dynamic
  <1>10. CASE Compare(t)
    BY <1>10, <1>0 DEF Compare
  <1>11. CASE Raise(t)
    BY <1>11, <1>0 DEF Raise
  <1>12. CASE Double(t)
    BY <1>12, <1>0 DEF Double
  <1>13. CASE Release(t)
    BY <1>13, <1>0 DEF Release, atomic_decrement
  <1>14. CASE Subtract(t)
    BY <1>14, <1>0 DEF Subtract
  <1>15. CASE Unmap(t)
    <2>0. chunk[t] \in ChunkType /\ chunk[t].block \in BLOCKS
      BY <1>15, HasOne, Fields DEF Unmap, HasChunk
    <2>1. \A b \in BLOCKS : b # chunk[t].block => mapped'[b] = mapped[b]
      BY <1>15 DEF Unmap
    <2>2. chunk' = Set(chunk, t, NoChunk) /\ UNCHANGED <<held, orig>>
      BY <1>15 DEF Unmap
    <2>3. \A d \in held : d.block # chunk[t].block /\ d.block \in BLOCKS
      BY <2>0, Fields, NoChunkIsNone DEF OwnMapping
    <2>4. \A u \in THREADS : /\ u # t /\ chunk[u] # NoChunk =>
                                chunk[u].block # chunk[t].block /\ chunk[u].block \in BLOCKS
                             /\ orig[u] # NoChunk =>
                                orig[u].block # chunk[t].block /\ orig[u].block \in BLOCKS
      BY <2>0, Fields, NoChunkIsNone DEF OwnMapping
    <2> QED
      BY <2>1, <2>2, <2>3, <2>4 DEF OwnMapping
  <1>16. CASE Realloc(t)
    BY <1>16, NoChunkIsNone DEF Realloc, OwnMapping
  <1>17. CASE Remap(t)
    <2> DEFINE c == chunk[t]
               size == remapped_size(c, nb[t])
    <2>0. c \in ChunkType /\ c.block \in BLOCKS /\ c.offset \in Nat
      BY <1>17, HasOne, Fields DEF Remap, HasChunk
    <2>1. nb[t] + c.offset \in Nat
      BY <2>0
    <2>2. size \in Int \ {0}
      BY <2>1, MappedSize DEF remapped_size
    <2>3. PICK b \in BLOCKS : /\ b = c.block \/ mapped[b] = 0
                              /\ mapped' = [mapped EXCEPT ![c.block] = 0, ![b] = size]
                              /\ chunk' = Set(chunk, t, Chunk(b, c.offset, size - c.offset))
      BY <1>17 DEF Remap
    <2> DEFINE d == Chunk(b, c.offset, size - c.offset)
    <2>4. d.block = b /\ chunk' = Set(chunk, t, d)
      BY <2>3 DEF Chunk
    <2> HIDE DEF size, d
    <2>5. UNCHANGED <<held, orig>>
      BY <1>17 DEF Remap
    <2>6. \A e \in held : e.block # b /\ e.block # c.block /\ e.block \in BLOCKS
      BY <2>0, <2>3, Fields, NoChunkIsNone DEF OwnMapping
    <2>7. \A u \in THREADS : /\ u # t /\ chunk[u] # NoChunk =>
                                chunk[u].block # b /\ chunk[u].block # c.block /\ chunk[u].block \in BLOCKS
                             /\ orig[u] # NoChunk =>
                                orig[u].block # b /\ orig[u].block # c.block /\ orig[u].block \in BLOCKS
      BY <2>0, <2>3, Fields, NoChunkIsNone DEF OwnMapping
    <2>8. mapped'[b] = size /\ \A a \in BLOCKS : a # b /\ a # c.block => mapped'[a] = mapped[a]
      BY <2>0, <2>3
    <2>9. chunk'[t] = d /\ d.block = b /\ \A u \in THREADS : u # t => chunk'[u] = chunk[u]
      BY <2>4
    <2> QED
      BY <2>2, <2>5, <2>6, <2>7, <2>8, <2>9 DEF OwnMapping
  <1>18. CASE NoRemap(t)
    <2>0. chunk[t] \in ChunkType /\ chunk[t].block \in BLOCKS
      BY <1>18, HasOne, Fields DEF NoRemap, HasChunk
    <2>1. CASE UNCHANGED <<held, orig, chunk>>
      BY <2>1, <1>0, <1>18 DEF NoRemap
    <2>2. CASE chunk' = Set(chunk, t, NoChunk) /\ held' = held \cup {chunk[t]} /\ UNCHANGED orig
      BY <2>0, <2>2, <1>18, NoChunkIsNone DEF NoRemap, OwnMapping
    <2>3. CASE chunk' = Set(chunk, t, NoChunk) /\ orig' = Set(orig, t, chunk[t]) /\ UNCHANGED held
      BY <2>0, <2>3, <1>18, NoChunkIsNone DEF NoRemap, OwnMapping
    <2> QED
      BY <2>1, <2>2, <2>3, <1>18 DEF NoRemap
  <1>19. CASE ReAdd(t)
    BY <1>19, <1>0 DEF ReAdd
  <1>20. CASE ReMax(t)
    <2>0. chunk[t] \in ChunkType /\ chunk[t].block \in BLOCKS
      BY <1>20, HasOne, Fields DEF ReMax, HasChunk
    <2>1. held' = held \cup {chunk[t]} /\ chunk' = Set(chunk, t, NoChunk) /\ UNCHANGED <<mapped, orig>>
      BY <1>20 DEF ReMax
    <2> QED
      BY <2>0, <2>1, NoChunkIsNone DEF OwnMapping
  <1>21. CASE Mallopt(t)
    BY <1>21, <1>0 DEF Mallopt
  <1>22. CASE Fix(t)
    BY <1>22, <1>0 DEF Fix
  <1> QED
    BY <1>1, <1>2, <1>3, <1>4, <1>5, <1>6, <1>7, <1>8, <1>9, <1>10, <1>11, <1>12,
       <1>13, <1>14, <1>15, <1>16, <1>17, <1>18, <1>19, <1>20, <1>21, <1>22 DEF Step

-----------------------------------------------------------------------------
(* The count.                                                              *)

\* The sets that are counted are finite.
LEMMA CountedFinite ==
  ASSUME TypeOK
  PROVE  /\ IsFiniteSet(Counted) /\ Cardinality(Counted) \in Nat
         /\ IsFiniteSet(Copying) /\ Cardinality(Copying) \in Nat
         /\ Cardinality(held) \in Nat
  <1>1. Counted \subseteq THREADS /\ Copying \subseteq THREADS
    BY DEF Counted, Copying
  <1> QED
    BY <1>1, MmapsAssumption, FS_Subset, FS_CardinalityType DEF TypeOK, DataOK

\* A step that changes none of what is counted keeps the count.
LEMMA Same ==
  ASSUME CountInv, UNCHANGED <<held, n_mmaps, Counted, Copying>>
  PROVE  CountInv'
  BY DEF CountInv

\* A request that gets no mapping keeps the count.
LEMMA OtherwiseCounts ==
  ASSUME TypeOK, HandsMatchPlaces, OwnMapping, CountInv, NEW t \in THREADS,
         pc[t] \in {"check", "map"}, Otherwise(t), UNCHANGED n_mmaps
  PROVE  CountInv'
  <1> USE DEF TypeOK, DataOK, HandsMatchPlaces, HasChunk, HasOrig, Goto, Set
  <1>1. chunk[t] = NoChunk /\ t \notin Counted /\ orig' = Set(orig, t, NoChunk)
    BY DEF Counted, Otherwise
  <1>2. CASE orig[t] = NoChunk
    <2>1. UNCHANGED <<held, n_mmaps, Counted, Copying>>
      BY <1>1, <1>2 DEF Otherwise, Counted, Copying
    <2> QED
      BY <2>1, Same
  <1>3. CASE orig[t] # NoChunk /\ held' = held \cup {orig[t]} /\ UNCHANGED chunk /\ Goto(t, "idle")
    <2>1. orig[t] \notin held
      BY <1>3 DEF OwnMapping
    <2>2. Cardinality(held') = Cardinality(held) + 1
      BY <1>3, <2>1, FS_AddElement
    <2>3. Counted' = Counted /\ t \in Copying /\ Copying' = Copying \ {t}
      BY <1>1, <1>3 DEF Counted, Copying
    <2>4. Cardinality(Copying') = Cardinality(Copying) - 1
      BY <2>3, CountedFinite, FS_RemoveElement
    <2> QED
      BY <2>2, <2>3, <2>4, CountedFinite DEF CountInv
  <1>4. CASE orig[t] # NoChunk /\ UNCHANGED held /\ chunk' = Set(chunk, t, orig[t]) /\ Goto(t, "release")
    <2>1. Counted' = Counted \cup {t} /\ t \in Copying /\ Copying' = Copying \ {t}
      BY <1>1, <1>4 DEF Counted, Copying
    <2>2. Cardinality(Counted') = Cardinality(Counted) + 1
      BY <1>1, <2>1, CountedFinite, FS_AddElement
    <2>3. Cardinality(Copying') = Cardinality(Copying) - 1
      BY <2>1, CountedFinite, FS_RemoveElement
    <2> QED
      BY <1>4, <2>2, <2>3, CountedFinite DEF CountInv
  <1> QED
    BY <1>2, <1>3, <1>4 DEF Otherwise

\* Every step keeps the count.
LEMMA CountStep ==
  ASSUME IInv, NEW t \in THREADS, Step(t)
  PROVE  CountInv'
  <1> USE DEF IInv, TypeOK, DataOK, HandsMatchPlaces, HasChunk, HasOrig, At, Goto, Set,
             counters, parameters, locals
  <1>0. HandsMatchPlaces'
    BY HandsStep
  <1>1. CASE Malloc(t)
    <2>1. UNCHANGED <<held, n_mmaps, Counted, Copying>>
      BY <1>1, <1>0 DEF Malloc, Counted, Copying
    <2> QED
      BY <2>1, Same
  <1>2. CASE Check(t)
    <2>1. CASE Otherwise(t)
      BY <2>1, <1>2, OtherwiseCounts DEF Check, counters
    <2>2. CASE ~Otherwise(t)
      <3>1. UNCHANGED <<held, n_mmaps, Counted, Copying>>
        BY <2>2, <1>2 DEF Check, Counted, Copying
      <3> QED
        BY <3>1, Same
    <2> QED
      BY <2>1, <2>2
  <1>3. CASE Map(t)
    <2>1. CASE Otherwise(t)
      BY <2>1, <1>3, OtherwiseCounts DEF Map, counters
    <2>2. CASE ~Otherwise(t)
      <3>1. UNCHANGED <<held, n_mmaps, Counted, Copying>>
        BY <2>2, <1>3 DEF Map, Counted, Copying
      <3> QED
        BY <3>1, Same
    <2> QED
      BY <2>1, <2>2
  <1>4. CASE Count(t)
    <2>1. t \notin Counted /\ Counted' = Counted \cup {t} /\ Copying' = Copying
      BY <1>4 DEF Count, Counted, Copying
    <2>2. UNCHANGED held /\ n_mmaps' = n_mmaps + 1
      BY <1>4 DEF Count
    <2>3. Cardinality(Counted') = Cardinality(Counted) + 1
      BY <2>1, CountedFinite, FS_AddElement
    <2> QED
      BY <2>1, <2>2, <2>3, CountedFinite DEF CountInv
  <1>5. CASE MaxCount(t)
    <2>1. UNCHANGED <<held, n_mmaps, Counted, Copying>>
      BY <1>5, <1>0 DEF MaxCount, Counted, Copying
    <2> QED
      BY <2>1, Same
  <1>6. CASE Add(t)
    <2>1. UNCHANGED <<held, n_mmaps, Counted, Copying>>
      BY <1>6, <1>0 DEF Add, Counted, Copying
    <2> QED
      BY <2>1, Same
  <1>7. CASE MaxMem(t)
    <2> DEFINE c == aligned_chunk(chunk[t], lead[t])
    <2>1. chunk[t] \in ChunkType
      BY <1>7, HasOne DEF MaxMem
    <2>2. c \notin held
      BY <2>1, AlignedChunk, NoChunkIsNone DEF OwnMapping
    <2>3. held' = held \cup {c} /\ UNCHANGED n_mmaps
      BY <1>7 DEF MaxMem
    <2>4. Cardinality(held') = Cardinality(held) + 1
      BY <2>2, <2>3, FS_AddElement
    <2>5. CASE orig[t] = NoChunk
      <3>1. t \in Counted /\ Counted' = Counted \ {t} /\ Copying' = Copying
        BY <1>7, <2>1, <2>5, NoChunkIsNone DEF MaxMem, Counted, Copying
      <3>2. Cardinality(Counted') = Cardinality(Counted) - 1
        BY <3>1, CountedFinite, FS_RemoveElement
      <3> QED
        BY <2>3, <2>4, <3>1, <3>2, CountedFinite DEF CountInv
    <2>6. CASE orig[t] # NoChunk
      <3>1. Counted' = Counted /\ t \in Copying /\ Copying' = Copying \ {t}
        BY <1>7, <2>1, <2>6, NoChunkIsNone DEF MaxMem, Counted, Copying
      <3>2. Cardinality(Copying') = Cardinality(Copying) - 1
        BY <3>1, CountedFinite, FS_RemoveElement
      <3> QED
        BY <2>3, <2>4, <3>1, <3>2, CountedFinite DEF CountInv
    <2> QED
      BY <2>5, <2>6
  <1>8. CASE Free(t)
    <2>1. PICK c \in held : held' = held \ {c} /\ chunk' = Set(chunk, t, c)
      BY <1>8 DEF Free
    <2>2. t \notin Counted /\ Counted' = Counted \cup {t} /\ Copying' = Copying /\ UNCHANGED n_mmaps
      BY <1>8, <2>1, NoChunkIsNone DEF Free, Counted, Copying
    <2>3. Cardinality(held') = Cardinality(held) - 1
      BY <2>1, FS_RemoveElement
    <2>4. Cardinality(Counted') = Cardinality(Counted) + 1
      BY <2>2, CountedFinite, FS_AddElement
    <2> QED
      BY <2>2, <2>3, <2>4, CountedFinite DEF CountInv
  <1>9. CASE Dynamic(t)
    <2>1. UNCHANGED <<held, n_mmaps, Counted, Copying>>
      BY <1>9, <1>0 DEF Dynamic, Counted, Copying
    <2> QED
      BY <2>1, Same
  <1>10. CASE Compare(t)
    <2>1. UNCHANGED <<held, n_mmaps, Counted, Copying>>
      BY <1>10, <1>0 DEF Compare, Counted, Copying
    <2> QED
      BY <2>1, Same
  <1>11. CASE Raise(t)
    <2>1. UNCHANGED <<held, n_mmaps, Counted, Copying>>
      BY <1>11, <1>0 DEF Raise, Counted, Copying
    <2> QED
      BY <2>1, Same
  <1>12. CASE Double(t)
    <2>1. UNCHANGED <<held, n_mmaps, Counted, Copying>>
      BY <1>12, <1>0 DEF Double, Counted, Copying
    <2> QED
      BY <2>1, Same
  <1>13. CASE Release(t)
    <2>1. CASE invalid_pointer(chunk[t])
      <3>1. UNCHANGED <<held, n_mmaps, Counted, Copying>>
        BY <2>1, <1>13 DEF Release, Counted, Copying
      <3> QED
        BY <3>1, Same
    <2>2. CASE ~invalid_pointer(chunk[t])
      <3>1. t \in Counted /\ Counted' = Counted \ {t} /\ Copying' = Copying
        BY <2>2, <1>13 DEF Release, atomic_decrement, Counted, Copying
      <3>2. UNCHANGED held /\ n_mmaps' = n_mmaps - 1
        BY <2>2, <1>13 DEF Release, atomic_decrement
      <3>3. Cardinality(Counted') = Cardinality(Counted) - 1
        BY <3>1, CountedFinite, FS_RemoveElement
      <3> QED
        BY <3>1, <3>2, <3>3, CountedFinite DEF CountInv
    <2> QED
      BY <2>1, <2>2
  <1>14. CASE Subtract(t)
    <2>1. UNCHANGED <<held, n_mmaps, Counted, Copying>>
      BY <1>14, <1>0 DEF Subtract, Counted, Copying
    <2> QED
      BY <2>1, Same
  <1>15. CASE Unmap(t)
    <2>1. UNCHANGED <<held, n_mmaps, Counted, Copying>>
      BY <1>15, <1>0 DEF Unmap, Counted, Copying
    <2> QED
      BY <2>1, Same
  <1>16. CASE Realloc(t)
    <2>1. PICK c \in held : held' = held \ {c} /\ chunk' = Set(chunk, t, c)
      BY <1>16 DEF Realloc
    <2>2. t \notin Counted /\ Counted' = Counted \cup {t} /\ Copying' = Copying /\ UNCHANGED n_mmaps
      BY <1>16, <2>1, NoChunkIsNone DEF Realloc, Counted, Copying
    <2>3. Cardinality(held') = Cardinality(held) - 1
      BY <2>1, FS_RemoveElement
    <2>4. Cardinality(Counted') = Cardinality(Counted) + 1
      BY <2>2, CountedFinite, FS_AddElement
    <2> QED
      BY <2>2, <2>3, <2>4, CountedFinite DEF CountInv
  <1>17. CASE Remap(t)
    <2> DEFINE c == chunk[t]
               size == remapped_size(c, nb[t])
    <2>1. c \in ChunkType
      BY <1>17, HasOne DEF Remap
    <2>2. chunk'[t] # NoChunk
      BY <1>0, <1>17 DEF Remap
    <2>3. \A u \in THREADS : u # t => chunk'[u] = chunk[u]
      BY <1>17 DEF Remap
    <2>4. pc' = Set(pc, t, "readd") /\ pc[t] = "remap" /\ UNCHANGED <<held, n_mmaps, orig>>
      BY <1>17 DEF Remap
    <2>5. UNCHANGED <<Counted, Copying>>
      BY <2>1, <2>2, <2>3, <2>4, NoChunkIsNone DEF Counted, Copying
    <2> QED
      BY <2>4, <2>5, Same
  <1>18. CASE NoRemap(t)
    <2> DEFINE c == chunk[t]
    <2>1. c \in ChunkType
      BY <1>18, HasOne DEF NoRemap
    <2>2. c \notin held
      BY <2>1, NoChunkIsNone DEF OwnMapping
    <2>3. CASE invalid_pointer(c)
      <3>1. UNCHANGED <<held, n_mmaps, Counted, Copying>>
        BY <2>3, <1>18 DEF NoRemap, Counted, Copying
      <3> QED
        BY <3>1, Same
    <2>4. CASE ~invalid_pointer(c) /\ c.size - SIZE_SZ >= nb[t]
      <3>1. held' = held \cup {c} /\ UNCHANGED n_mmaps
        BY <2>4, <1>18 DEF NoRemap
      <3>2. t \in Counted /\ Counted' = Counted \ {t} /\ Copying' = Copying
        BY <2>1, <2>4, <1>18, NoChunkIsNone DEF NoRemap, Counted, Copying
      <3>3. Cardinality(held') = Cardinality(held) + 1
        BY <2>2, <3>1, FS_AddElement
      <3>4. Cardinality(Counted') = Cardinality(Counted) - 1
        BY <3>2, CountedFinite, FS_RemoveElement
      <3> QED
        BY <3>1, <3>2, <3>3, <3>4, CountedFinite DEF CountInv
    <2>5. CASE ~invalid_pointer(c) /\ ~(c.size - SIZE_SZ >= nb[t])
      <3>1. t \in Counted /\ Counted' = Counted \ {t} /\ t \notin Copying /\ Copying' = Copying \cup {t}
        BY <2>1, <2>5, <1>18, NoChunkIsNone DEF NoRemap, Counted, Copying
      <3>2. UNCHANGED <<held, n_mmaps>>
        BY <2>5, <1>18 DEF NoRemap
      <3>3. Cardinality(Counted') = Cardinality(Counted) - 1
        BY <3>1, CountedFinite, FS_RemoveElement
      <3>4. Cardinality(Copying') = Cardinality(Copying) + 1
        BY <3>1, CountedFinite, FS_AddElement
      <3> QED
        BY <3>2, <3>3, <3>4, CountedFinite DEF CountInv
    <2> QED
      BY <2>3, <2>4, <2>5
  <1>19. CASE ReAdd(t)
    <2>1. UNCHANGED <<held, n_mmaps, Counted, Copying>>
      BY <1>19, <1>0 DEF ReAdd, Counted, Copying
    <2> QED
      BY <2>1, Same
  <1>20. CASE ReMax(t)
    <2> DEFINE c == chunk[t]
    <2>1. c \in ChunkType
      BY <1>20, HasOne DEF ReMax
    <2>2. c \notin held
      BY <2>1, NoChunkIsNone DEF OwnMapping
    <2>3. held' = held \cup {c} /\ UNCHANGED n_mmaps
      BY <1>20 DEF ReMax
    <2>4. t \in Counted /\ Counted' = Counted \ {t} /\ Copying' = Copying
      BY <2>1, <1>20, NoChunkIsNone DEF ReMax, Counted, Copying
    <2>5. Cardinality(held') = Cardinality(held) + 1
      BY <2>2, <2>3, FS_AddElement
    <2>6. Cardinality(Counted') = Cardinality(Counted) - 1
      BY <2>4, CountedFinite, FS_RemoveElement
    <2> QED
      BY <2>3, <2>4, <2>5, <2>6, CountedFinite DEF CountInv
  <1>21. CASE Mallopt(t)
    <2>1. UNCHANGED <<held, n_mmaps, Counted, Copying>>
      BY <1>21, <1>0 DEF Mallopt, Counted, Copying
    <2> QED
      BY <2>1, Same
  <1>22. CASE Fix(t)
    <2>1. UNCHANGED <<held, n_mmaps, Counted, Copying>>
      BY <1>22, <1>0 DEF Fix, Counted, Copying
    <2> QED
      BY <2>1, Same
  <1> QED
    BY <1>1, <1>2, <1>3, <1>4, <1>5, <1>6, <1>7, <1>8, <1>9, <1>10, <1>11, <1>12,
       <1>13, <1>14, <1>15, <1>16, <1>17, <1>18, <1>19, <1>20, <1>21, <1>22 DEF Step

-----------------------------------------------------------------------------
(* The maxima.                                                             *)

\* A step that adds nothing, and of no thread that is to note a maximum, keeps
\* that some thread notes it.
LEMMA MaxLess ==
  ASSUME TypeOK, MaxInv,
         n_mmaps' \in Int, n_mmaps' <= n_mmaps, mmapped_mem' \in Int, mmapped_mem' <= mmapped_mem,
         UNCHANGED <<max_n_mmaps, max_mmapped_mem>>,
         \A u \in THREADS :
           pc[u] \in {"max", "maxmem", "remax"} => pc'[u] = pc[u] /\ seen'[u] = seen[u]
  PROVE  MaxInv'
  <1> USE DEF TypeOK, DataOK, CountersOK
  <1>1. max_n_mmaps' >= n_mmaps' \/ \E u \in THREADS : pc'[u] = "max" /\ seen'[u] >= n_mmaps'
    BY DEF MaxInv
  <1>2. max_mmapped_mem' >= mmapped_mem'
        \/ \E u \in THREADS : pc'[u] \in {"maxmem", "remax"} /\ seen'[u] >= mmapped_mem'
    BY DEF MaxInv
  <1> QED
    BY <1>1, <1>2 DEF MaxInv

\* Every step keeps that the maxima will be noted.
LEMMA MaxStep ==
  ASSUME TypeOK, HandsMatchPlaces, MaxInv, NEW t \in THREADS, Step(t)
  PROVE  MaxInv'
  <1> USE DEF TypeOK, DataOK, CountersOK, At, Goto, Set, counters, parameters, locals
  <1>1. CASE Malloc(t)
    <2>1. UNCHANGED <<n_mmaps, mmapped_mem, max_n_mmaps, max_mmapped_mem, seen>>
      BY <1>1 DEF Malloc
    <2>2. \A u \in THREADS : pc[u] \in {"max", "maxmem", "remax"} => pc'[u] = pc[u]
      BY <1>1 DEF Malloc
    <2> QED
      BY <2>1, <2>2, MaxLess
  <1>2. CASE Check(t)
    <2>1. UNCHANGED <<n_mmaps, mmapped_mem, max_n_mmaps, max_mmapped_mem, seen>>
      BY <1>2 DEF Check, Otherwise
    <2>2. \A u \in THREADS : pc[u] \in {"max", "maxmem", "remax"} => pc'[u] = pc[u]
      BY <1>2 DEF Check, Otherwise
    <2> QED
      BY <2>1, <2>2, MaxLess
  <1>3. CASE Map(t)
    <2>1. UNCHANGED <<n_mmaps, mmapped_mem, max_n_mmaps, max_mmapped_mem, seen>>
      BY <1>3 DEF Map, Otherwise
    <2>2. \A u \in THREADS : pc[u] \in {"max", "maxmem", "remax"} => pc'[u] = pc[u]
      BY <1>3 DEF Map, Otherwise
    <2> QED
      BY <2>1, <2>2, MaxLess
  <1>4. CASE Count(t)
    <2>1. seen'[t] = n_mmaps' /\ pc'[t] = "max" /\ n_mmaps' \in Int
      BY <1>4 DEF Count
    <2>2. UNCHANGED <<mmapped_mem, max_mmapped_mem>>
      BY <1>4 DEF Count
    <2>3. \A u \in THREADS : pc[u] \in {"maxmem", "remax"} => pc'[u] = pc[u] /\ seen'[u] = seen[u]
      BY <1>4 DEF Count
    <2>4. max_mmapped_mem' >= mmapped_mem'
          \/ \E u \in THREADS : pc'[u] \in {"maxmem", "remax"} /\ seen'[u] >= mmapped_mem'
      BY <2>2, <2>3 DEF MaxInv
    <2> QED
      BY <2>1, <2>4 DEF MaxInv
  <1>5. CASE MaxCount(t)
    <2>1. n_mmaps' = n_mmaps /\ max_n_mmaps' >= max_n_mmaps /\ max_n_mmaps' >= seen[t]
      BY <1>5 DEF MaxCount
    <2>2. UNCHANGED <<mmapped_mem, max_mmapped_mem>>
      BY <1>5 DEF MaxCount
    <2>3. \A u \in THREADS : u # t => pc'[u] = pc[u] /\ seen'[u] = seen[u]
      BY <1>5 DEF MaxCount
    <2>4. pc[t] = "max" /\ max_n_mmaps' \in Int
      BY <1>5, CountersStep DEF MaxCount
    <2>5. max_n_mmaps' >= n_mmaps' \/ \E u \in THREADS : pc'[u] = "max" /\ seen'[u] >= n_mmaps'
      BY <2>1, <2>3, <2>4 DEF MaxInv
    <2>6. max_mmapped_mem' >= mmapped_mem'
          \/ \E u \in THREADS : pc'[u] \in {"maxmem", "remax"} /\ seen'[u] >= mmapped_mem'
      BY <2>2, <2>3, <2>4 DEF MaxInv
    <2> QED
      BY <2>5, <2>6 DEF MaxInv
  <1>6. CASE Add(t)
    <2>1. seen'[t] = mmapped_mem' /\ pc'[t] = "maxmem" /\ mmapped_mem' \in Int
      BY <1>6, CountersStep DEF Add
    <2>2. UNCHANGED <<n_mmaps, max_n_mmaps>>
      BY <1>6 DEF Add
    <2>3. \A u \in THREADS : pc[u] = "max" => u # t /\ pc'[u] = pc[u] /\ seen'[u] = seen[u]
      BY <1>6 DEF Add
    <2> QED
      BY <2>1, <2>2, <2>3 DEF MaxInv
  <1>7. CASE MaxMem(t)
    <2>1. mmapped_mem' = mmapped_mem /\ max_mmapped_mem' >= max_mmapped_mem
          /\ max_mmapped_mem' >= seen[t] /\ max_mmapped_mem' \in Int
      BY <1>7, CountersStep DEF MaxMem
    <2>2. UNCHANGED <<n_mmaps, max_n_mmaps>>
      BY <1>7 DEF MaxMem
    <2>3. pc[t] = "maxmem" /\ \A u \in THREADS : u # t => pc'[u] = pc[u] /\ seen'[u] = seen[u]
      BY <1>7 DEF MaxMem
    <2>4. max_n_mmaps' >= n_mmaps' \/ \E u \in THREADS : pc'[u] = "max" /\ seen'[u] >= n_mmaps'
      BY <2>2, <2>3 DEF MaxInv
    <2>5. max_mmapped_mem' >= mmapped_mem'
          \/ \E u \in THREADS : pc'[u] \in {"maxmem", "remax"} /\ seen'[u] >= mmapped_mem'
      BY <2>1, <2>3 DEF MaxInv
    <2> QED
      BY <2>4, <2>5 DEF MaxInv
  <1>8. CASE Free(t)
    <2>1. UNCHANGED <<n_mmaps, mmapped_mem, max_n_mmaps, max_mmapped_mem, seen>>
      BY <1>8 DEF Free
    <2>2. \A u \in THREADS : pc[u] \in {"max", "maxmem", "remax"} => pc'[u] = pc[u]
      BY <1>8 DEF Free
    <2> QED
      BY <2>1, <2>2, MaxLess
  <1>9. CASE Dynamic(t)
    <2>1. UNCHANGED <<n_mmaps, mmapped_mem, max_n_mmaps, max_mmapped_mem, seen>>
      BY <1>9 DEF Dynamic
    <2>2. \A u \in THREADS : pc[u] \in {"max", "maxmem", "remax"} => pc'[u] = pc[u]
      BY <1>9 DEF Dynamic
    <2> QED
      BY <2>1, <2>2, MaxLess
  <1>10. CASE Compare(t)
    <2>1. UNCHANGED <<n_mmaps, mmapped_mem, max_n_mmaps, max_mmapped_mem, seen>>
      BY <1>10 DEF Compare
    <2>2. \A u \in THREADS : pc[u] \in {"max", "maxmem", "remax"} => pc'[u] = pc[u]
      BY <1>10 DEF Compare
    <2> QED
      BY <2>1, <2>2, MaxLess
  <1>11. CASE Raise(t)
    <2>1. UNCHANGED <<n_mmaps, mmapped_mem, max_n_mmaps, max_mmapped_mem, seen>>
      BY <1>11 DEF Raise
    <2>2. \A u \in THREADS : pc[u] \in {"max", "maxmem", "remax"} => pc'[u] = pc[u]
      BY <1>11 DEF Raise
    <2> QED
      BY <2>1, <2>2, MaxLess
  <1>12. CASE Double(t)
    <2>1. UNCHANGED <<n_mmaps, mmapped_mem, max_n_mmaps, max_mmapped_mem, seen>>
      BY <1>12 DEF Double
    <2>2. \A u \in THREADS : pc[u] \in {"max", "maxmem", "remax"} => pc'[u] = pc[u]
      BY <1>12 DEF Double
    <2> QED
      BY <2>1, <2>2, MaxLess
  <1>13. CASE Release(t)
    <2>1. n_mmaps' <= n_mmaps /\ mmapped_mem' <= mmapped_mem /\ n_mmaps' \in Int /\ mmapped_mem' \in Int
      BY <1>13 DEF Release, atomic_decrement
    <2>2. UNCHANGED <<max_n_mmaps, max_mmapped_mem, seen>>
      BY <1>13 DEF Release, atomic_decrement
    <2>3. \A u \in THREADS : pc[u] \in {"max", "maxmem", "remax"} => pc'[u] = pc[u]
      BY <1>13 DEF Release, atomic_decrement
    <2> QED
      BY <2>1, <2>2, <2>3, MaxLess
  <1>14. CASE Subtract(t)
    <2>0. total_size(chunk[t]) \in Int /\ total_size(chunk[t]) > 0
      BY <1>14, HasOne, Fields DEF Subtract, HasChunk
    <2>1. n_mmaps' <= n_mmaps /\ mmapped_mem' <= mmapped_mem /\ n_mmaps' \in Int /\ mmapped_mem' \in Int
      BY <1>14, <2>0 DEF Subtract
    <2>2. UNCHANGED <<max_n_mmaps, max_mmapped_mem, seen>>
      BY <1>14 DEF Subtract
    <2>3. \A u \in THREADS : pc[u] \in {"max", "maxmem", "remax"} => pc'[u] = pc[u]
      BY <1>14 DEF Subtract
    <2> QED
      BY <2>1, <2>2, <2>3, MaxLess
  <1>15. CASE Unmap(t)
    <2>1. UNCHANGED <<n_mmaps, mmapped_mem, max_n_mmaps, max_mmapped_mem, seen>>
      BY <1>15 DEF Unmap
    <2>2. \A u \in THREADS : pc[u] \in {"max", "maxmem", "remax"} => pc'[u] = pc[u]
      BY <1>15 DEF Unmap
    <2> QED
      BY <2>1, <2>2, MaxLess
  <1>16. CASE Realloc(t)
    <2>1. UNCHANGED <<n_mmaps, mmapped_mem, max_n_mmaps, max_mmapped_mem, seen>>
      BY <1>16 DEF Realloc
    <2>2. \A u \in THREADS : pc[u] \in {"max", "maxmem", "remax"} => pc'[u] = pc[u]
      BY <1>16 DEF Realloc
    <2> QED
      BY <2>1, <2>2, MaxLess
  <1>17. CASE Remap(t)
    <2>1. UNCHANGED <<n_mmaps, mmapped_mem, max_n_mmaps, max_mmapped_mem>>
      BY <1>17 DEF Remap
    <2>2. \A u \in THREADS : pc[u] \in {"max", "maxmem", "remax"} => pc'[u] = pc[u] /\ seen'[u] = seen[u]
      BY <1>17 DEF Remap
    <2> QED
      BY <2>1, <2>2, MaxLess
  <1>18. CASE NoRemap(t)
    <2>1. UNCHANGED <<n_mmaps, mmapped_mem, max_n_mmaps, max_mmapped_mem, seen>>
      BY <1>18 DEF NoRemap
    <2>2. \A u \in THREADS : pc[u] \in {"max", "maxmem", "remax"} => pc'[u] = pc[u]
      BY <1>18 DEF NoRemap
    <2> QED
      BY <2>1, <2>2, MaxLess
  <1>19. CASE ReAdd(t)
    <2>1. seen'[t] = mmapped_mem' /\ pc'[t] = "remax" /\ mmapped_mem' \in Int
      BY <1>19, CountersStep DEF ReAdd, remap_difference
    <2>2. UNCHANGED <<n_mmaps, max_n_mmaps>>
      BY <1>19 DEF ReAdd
    <2>3. \A u \in THREADS : pc[u] = "max" => u # t /\ pc'[u] = pc[u] /\ seen'[u] = seen[u]
      BY <1>19 DEF ReAdd
    <2> QED
      BY <2>1, <2>2, <2>3 DEF MaxInv
  <1>20. CASE ReMax(t)
    <2>1. mmapped_mem' = mmapped_mem /\ max_mmapped_mem' >= max_mmapped_mem
          /\ max_mmapped_mem' >= seen[t] /\ max_mmapped_mem' \in Int
      BY <1>20, CountersStep DEF ReMax, remap_max
    <2>2. UNCHANGED <<n_mmaps, max_n_mmaps>>
      BY <1>20 DEF ReMax
    <2>3. pc[t] = "remax" /\ \A u \in THREADS : u # t => pc'[u] = pc[u] /\ seen'[u] = seen[u]
      BY <1>20 DEF ReMax
    <2>4. max_n_mmaps' >= n_mmaps' \/ \E u \in THREADS : pc'[u] = "max" /\ seen'[u] >= n_mmaps'
      BY <2>2, <2>3 DEF MaxInv
    <2>5. max_mmapped_mem' >= mmapped_mem'
          \/ \E u \in THREADS : pc'[u] \in {"maxmem", "remax"} /\ seen'[u] >= mmapped_mem'
      BY <2>1, <2>3 DEF MaxInv
    <2> QED
      BY <2>4, <2>5 DEF MaxInv
  <1>21. CASE Mallopt(t)
    <2>1. UNCHANGED <<n_mmaps, mmapped_mem, max_n_mmaps, max_mmapped_mem, seen>>
      BY <1>21 DEF Mallopt
    <2>2. \A u \in THREADS : pc[u] \in {"max", "maxmem", "remax"} => pc'[u] = pc[u]
      BY <1>21 DEF Mallopt
    <2> QED
      BY <2>1, <2>2, MaxLess
  <1>22. CASE Fix(t)
    <2>1. UNCHANGED <<n_mmaps, mmapped_mem, max_n_mmaps, max_mmapped_mem, seen>>
      BY <1>22 DEF Fix
    <2>2. \A u \in THREADS : pc[u] \in {"max", "maxmem", "remax"} => pc'[u] = pc[u]
      BY <1>22 DEF Fix
    <2> QED
      BY <2>1, <2>2, MaxLess
  <1> QED
    BY <1>1, <1>2, <1>3, <1>4, <1>5, <1>6, <1>7, <1>8, <1>9, <1>10, <1>11, <1>12,
       <1>13, <1>14, <1>15, <1>16, <1>17, <1>18, <1>19, <1>20, <1>21, <1>22 DEF Step

-----------------------------------------------------------------------------
(* The invariant.                                                          *)

\* At the start there is nothing to count.
LEMMA InitInv == Init => IInv
  <1> SUFFICES ASSUME Init PROVE IInv
    OBVIOUS
  <1> USE DEF Init
  <1>1. TypeOK
    BY FS_EmptySet DEF TypeOK, DataOK, CountersOK, Places
  <1>2. HandsMatchPlaces
    BY DEF HandsMatchPlaces, HasChunk
  <1>3. OwnMapping
    BY DEF OwnMapping
  <1>4. Counted = {} /\ Copying = {}
    BY DEF Counted, Copying
  <1>5. CountInv
    BY <1>4, FS_EmptySet DEF CountInv
  <1>6. MaxInv
    BY DEF MaxInv
  <1> QED
    BY <1>1, <1>2, <1>3, <1>5, <1>6 DEF IInv

\* Every step keeps the invariant, and so does one that changes nothing.
LEMMA NextInv == IInv /\ [Next]_vars => IInv'
  <1> SUFFICES ASSUME IInv, [Next]_vars PROVE IInv'
    OBVIOUS
  <1>1. ASSUME NEW t \in THREADS, Step(t) PROVE IInv'
    <2>1. TypeOK'
      BY <1>1, DataStep, CountersStep, PlaceStep DEF IInv, TypeOK
    <2>2. HandsMatchPlaces'
      BY <1>1, HandsStep DEF IInv
    <2>3. OwnMapping'
      BY <1>1, OwnStep DEF IInv
    <2>4. CountInv'
      BY <1>1, CountStep
    <2>5. MaxInv'
      BY <1>1, MaxStep DEF IInv
    <2> QED
      BY <2>1, <2>2, <2>3, <2>4, <2>5 DEF IInv
  <1>2. CASE UNCHANGED vars
    <2> USE <1>2 DEF vars, counters, parameters, locals
    <2>1. TypeOK'
      BY DEF IInv, TypeOK, DataOK, CountersOK
    <2>2. HandsMatchPlaces'
      BY DEF IInv, HandsMatchPlaces
    <2>3. OwnMapping'
      BY DEF IInv, OwnMapping
    <2>4. CountInv'
      BY Same DEF IInv, Counted, Copying
    <2>5. MaxInv'
      BY DEF IInv, MaxInv
    <2> QED
      BY <2>1, <2>2, <2>3, <2>4, <2>5 DEF IInv
  <1> QED
    BY <1>1, <1>2 DEF Next

\* The invariant of the mapped chunks: the types, what a thread has in hand at
\* each place of malloc, free and realloc, that no two chunks share a mapping,
\* that n_mmaps counts those of the program and those in hand, and that a new
\* maximum is noted by a thread that has it in hand.
THEOREM MmapsInvariance == Spec => []IInv
  <1> QED
    BY InitInv, NextInv, PTL DEF Spec

\* sysmalloc, munmap_chunk and mremap_chunk count mapped chunks exactly, for
\* any number of threads, mappings, request sizes and alignments: when no call
\* is under way, n_mmaps is the number of chunks that the program holds.
THEOREM CountExact == Spec => []CountIsExact
  <1>1. IInv => CountIsExact
    <2> SUFFICES ASSUME IInv, Quiet PROVE n_mmaps = Cardinality(held)
      BY DEF CountIsExact
    <2>1. Counted = {} /\ Copying = {}
      BY DEF IInv, HandsMatchPlaces, HasChunk, HasOrig, Quiet, Counted, Copying
    <2> QED
      BY <2>1, CountedFinite, FS_EmptySet DEF IInv, CountInv
  <1> QED
    BY <1>1, MmapsInvariance, PTL

\* The maxima that atomic_max keeps are maxima when no call is under way, though
\* a thread notes what it counted after others have counted: some thread still
\* has in hand what is as large as the counter.
THEOREM MaximaExact == Spec => []MaximaAreMaxima
  <1>1. IInv => MaximaAreMaxima
    BY DEF IInv, MaxInv, Quiet, MaximaAreMaxima
  <1> QED
    BY <1>1, MmapsInvariance, PTL

-----------------------------------------------------------------------------
\* ALIGN_UP gives a multiple.
LEMMA AlignUpMultiple ==
  ASSUME NEW n \in Int, NEW a \in Nat \ {0}
  PROVE  AlignUp(n, a) % a = 0
  <1> DEFINE m == -n
             r == m % a
  <1>1. m \in Int /\ n = -m
    OBVIOUS
  <1> HIDE DEF m
  <1>2. r \in 0 .. a - 1 /\ \E k \in Int : m = a * k + r
    BY <1>1, Division
  <1> HIDE DEF r
  <1>3. PICK k \in Int : m = a * k + r
    BY <1>2
  <1>4. n + r = a * (-k) /\ -k \in Int /\ n + r \in Int
    BY <1>1, <1>2, <1>3
  <1>5. (n + r) % a = 0
    BY <1>4, Divides
  <1> QED
    BY <1>5 DEF AlignUp, m, r

-----------------------------------------------------------------------------
(* The chunks, wherever they are.                                         *)

\* What the sets of chunks hold.
LEMMA Among ==
  ASSUME NEW c
  PROVE  /\ c \in AllChunks <=> /\ c # NoChunk
                                /\ c \in held \/ \E u \in THREADS : c = chunk[u] \/ c = orig[u]
         /\ c \in AllChunks' <=> /\ c # NoChunk
                                 /\ c \in held' \/ \E u \in THREADS : c = chunk'[u] \/ c = orig'[u]
  BY DEF AllChunks

\* They are chunks.
LEMMA AllAreChunks ==
  ASSUME DataOK
  PROVE  AllChunks \subseteq ChunkType
  BY Among DEF DataOK

\* A step of a thread leaves alone what the others have in hand.
LEMMA Elsewhere ==
  ASSUME TypeOK, NEW t \in THREADS, Step(t), NEW u \in THREADS, u # t
  PROVE  pc'[u] = pc[u] /\ chunk'[u] = chunk[u] /\ orig'[u] = orig[u] /\ seen'[u] = seen[u]
  <1> USE DEF TypeOK, DataOK, CountersOK, Goto, Set, locals
  <1>1. CASE Malloc(t)
    BY <1>1 DEF Malloc
  <1>2. CASE Check(t)
    BY <1>2 DEF Check, Otherwise
  <1>3. CASE Map(t)
    BY <1>3 DEF Map, Otherwise
  <1>4. CASE Count(t)
    BY <1>4 DEF Count
  <1>5. CASE MaxCount(t)
    BY <1>5 DEF MaxCount
  <1>6. CASE Add(t)
    BY <1>6 DEF Add
  <1>7. CASE MaxMem(t)
    BY <1>7 DEF MaxMem
  <1>8. CASE Free(t)
    BY <1>8 DEF Free
  <1>9. CASE Dynamic(t)
    BY <1>9 DEF Dynamic
  <1>10. CASE Compare(t)
    BY <1>10 DEF Compare
  <1>11. CASE Raise(t)
    BY <1>11 DEF Raise
  <1>12. CASE Double(t)
    BY <1>12 DEF Double
  <1>13. CASE Release(t)
    BY <1>13 DEF Release, atomic_decrement
  <1>14. CASE Subtract(t)
    BY <1>14 DEF Subtract
  <1>15. CASE Unmap(t)
    BY <1>15 DEF Unmap
  <1>16. CASE Realloc(t)
    BY <1>16 DEF Realloc
  <1>17. CASE Remap(t)
    BY <1>17 DEF Remap
  <1>18. CASE NoRemap(t)
    BY <1>18 DEF NoRemap
  <1>19. CASE ReAdd(t)
    BY <1>19 DEF ReAdd
  <1>20. CASE ReMax(t)
    BY <1>20 DEF ReMax
  <1>21. CASE Mallopt(t)
    BY <1>21 DEF Mallopt
  <1>22. CASE Fix(t)
    BY <1>22 DEF Fix
  <1> QED
    BY <1>1, <1>2, <1>3, <1>4, <1>5, <1>6, <1>7, <1>8, <1>9, <1>10, <1>11, <1>12,
       <1>13, <1>14, <1>15, <1>16, <1>17, <1>18, <1>19, <1>20, <1>21, <1>22 DEF Step

\* Of chunks of its own a thread takes and gives: the others are there as before.
LEMMA Handed ==
  ASSUME TypeOK, NEW t \in THREADS, Step(t),
         \A c : c # NoChunk => (   c \in held \/ c = chunk[t] \/ c = orig[t]
                               <=> c \in held' \/ c = chunk'[t] \/ c = orig'[t])
  PROVE  AllChunks' = AllChunks
  <1>1. ASSUME NEW c PROVE c \in AllChunks' <=> c \in AllChunks
    BY Among, Elsewhere
  <1> QED
    BY <1>1

\* Where no chunk comes or goes and the kernel does nothing, all is as it was.
LEMMA AsBefore ==
  ASSUME ChunksWhole, NothingElse, UNCHANGED <<AllChunks, mapped>>
  PROVE  ChunksWhole' /\ NothingElse'
  BY DEF ChunksWhole, NothingElse, Whole

-----------------------------------------------------------------------------
(* The sum of the mappings.                                                *)

\* What is pending is a number.
LEMMA PendingType ==
  TypeOK /\ HandsMatchPlaces => [u \in THREADS |-> Pending(u)] \in [THREADS -> Int]
  <1> SUFFICES ASSUME TypeOK, HandsMatchPlaces, NEW u \in THREADS PROVE Pending(u) \in Int
    OBVIOUS
  <1>1. CASE pc[u] \in {"count", "max", "add", "unmap"}
    <2>1. chunk[u] \in ChunkType
      BY <1>1, HasOne DEF TypeOK, HasChunk
    <2>2. chunk[u].size \in Int /\ total_size(chunk[u]) \in Int
      BY <2>1, Fields
    <2> QED
      BY <1>1, <2>2 DEF Pending
  <1>2. CASE pc[u] \notin {"count", "max", "add", "unmap"}
    BY <1>2 DEF Pending, TypeOK, CountersOK
  <1> QED
    BY <1>1, <1>2

\* What the kernel maps is counted in mmapped_mem, or pending for the thread.
LEMMA Accounted ==
  ASSUME TypeOK, HandsMatchPlaces, TypeOK', HandsMatchPlaces', SumInv,
         NEW t \in THREADS, Step(t), NEW d \in Int,
         SumFunction(mapped)' = SumFunction(mapped) + d,
         mmapped_mem' = mmapped_mem + d + Pending(t) - Pending(t)'
  PROVE  SumInv'
  <1> DEFINE P == [u \in THREADS |-> Pending(u)]
             Q == [u \in THREADS |-> Pending(u)']
  <1>1. P \in [THREADS -> Int] /\ Q \in [THREADS -> Int]
    <2>1. (TypeOK /\ HandsMatchPlaces => P \in [THREADS -> Int])'
      BY PendingType, PTL
    <2> QED
      BY <2>1, PendingType
  <1>2. P[t] = Pending(t) /\ Q[t] = Pending(t)'
    OBVIOUS
  <1>3. \A u \in THREADS : u # t => Q[u] = P[u]
    BY Elsewhere DEF Pending
  <1>4. IsFiniteSet(THREADS) /\ IsFiniteSet(BLOCKS)
    BY MmapsAssumption
  <1>5. SumFunction(mapped) \in Int /\ SumFunction(P) \in Int /\ SumFunction(Q) \in Int
    BY <1>1, <1>4, SumType DEF TypeOK, DataOK
  <1>6. mmapped_mem = SumFunction(mapped) - SumFunction(P)
    BY DEF SumInv
  <1>7. P[t] \in Int /\ Q[t] \in Int
    BY <1>1
  <1> HIDE DEF P, Q
  <1>8. SumFunction(Q) = SumFunction(P) - P[t] + Q[t]
    BY <1>1, <1>3, <1>4, SumChanges
  <1>9. mmapped_mem' = SumFunction(mapped)' - SumFunction(Q)
    BY <1>2, <1>5, <1>6, <1>7, <1>8
  <1> QED
    BY <1>9 DEF SumInv, Q

\* A step where the kernel does nothing.
LEMMA AccountKept ==
  ASSUME TypeOK, HandsMatchPlaces, TypeOK', HandsMatchPlaces', SumInv,
         NEW t \in THREADS, Step(t), UNCHANGED mapped,
         mmapped_mem' = mmapped_mem + Pending(t) - Pending(t)'
  PROVE  SumInv'
  <1>1. SumFunction(mapped)' = SumFunction(mapped) + 0
    <2>1. SumFunction(mapped) \in Int
      BY MmapsAssumption, SumType DEF TypeOK, DataOK
    <2>2. SumFunction(mapped)' = SumFunction(mapped)
      OBVIOUS
    <2> QED
      BY <2>1, <2>2
  <1>2. mmapped_mem' = mmapped_mem + 0 + Pending(t) - Pending(t)'
    BY DEF TypeOK, CountersOK
  <1> QED
    BY <1>1, <1>2, Accounted

\* Steps that move neither memory nor chunks.
LEMMA ChunksStay ==
  ASSUME IInv, IInv', MemoryInv, NEW t \in THREADS, Step(t), UNCHANGED <<abort, mapped, AllChunks>>,
         mmapped_mem' = mmapped_mem + Pending(t) - Pending(t)',
         pc'[t] \in {"count", "max", "add", "maxmem"} =>
            pc[t] \in {"count", "max", "add", "maxmem"} /\ chunk'[t] = chunk[t]
  PROVE  MemoryInv'
  <1>1. ChunksWhole' /\ NothingElse'
    BY AsBefore DEF MemoryInv
  <1>2. NewAtTheirBegin'
    BY Elsewhere DEF MemoryInv, NewAtTheirBegin, IInv
  <1>3. SumInv'
    BY AccountKept DEF IInv, MemoryInv
  <1> QED
    BY <1>1, <1>2, <1>3 DEF MemoryInv

-----------------------------------------------------------------------------
(* The checks of munmap_chunk.                                             *)

\* What the alignments have to do with pages.
LEMMA Multiples ==
  /\ \A b \in BLOCKS : b \in Nat /\ b % pagesize = 0 /\ b % IS_MMAPPED = 0
  /\ pagesize \in Nat \ {0} /\ IS_MMAPPED \in Nat \ {0} /\ CHUNK_HDR_SZ \in Nat
  /\ pagesize % IS_MMAPPED = 0 /\ CHUNK_HDR_SZ % IS_MMAPPED = 0
  /\ \A a \in ALIGNMENTS : a \in Nat \ {0} /\ a % IS_MMAPPED = 0
  <1>1. pagesize \in Nat \ {0} /\ IS_MMAPPED \in Nat \ {0} /\ CHUNK_HDR_SZ \in Nat
    BY MmapsAssumption, LimitsAssumption
  <1>2. pagesize % IS_MMAPPED = 0 /\ CHUNK_HDR_SZ % IS_MMAPPED = 0
    BY LimitsAssumption
  <1>3. \A a \in ALIGNMENTS : a \in Nat \ {0} /\ a % IS_MMAPPED = 0
    BY MmapsAssumption, LimitsAssumption
  <1>4. \A b \in BLOCKS : b \in Nat /\ b % pagesize = 0
    BY MmapsAssumption, PowersAssumption
  <1>5. \A b \in BLOCKS : b % IS_MMAPPED = 0
    BY <1>1, <1>2, <1>4, MultipleOfMultiple
  <1> QED
    BY <1>1, <1>2, <1>3, <1>4, <1>5

\* mmap's chunk begins at its page.
LEMMA NewIsSound ==
  ASSUME NEW b \in BLOCKS, NEW n \in Nat
  PROVE  LET c == Chunk(b, 0, AlignUp(n + SIZE_SZ, pagesize))
         IN  Sound(c) /\ total_size(c) = AlignUp(n + SIZE_SZ, pagesize)
  <1> DEFINE size == AlignUp(n + SIZE_SZ, pagesize)
             c == Chunk(b, 0, size)
  <1>1. size \in Nat \ {0} /\ size % pagesize = 0
    <2>1. n + SIZE_SZ \in Int
      BY MmapsAssumption
    <2> QED
      BY <2>1, MappedSize, AlignUpMultiple, Multiples
  <1> HIDE DEF size
  <1>2. size % IS_MMAPPED = 0
    <2>1. size \in Int /\ pagesize \in Nat \ {0} /\ IS_MMAPPED \in Nat \ {0} /\ pagesize % IS_MMAPPED = 0
      BY <1>1, Multiples
    <2> QED
      BY <1>1, <2>1, MultipleOfMultiple
  <1>3. c.block = b /\ c.offset = 0 /\ c.size = size /\ total_size(c) = size
    BY <1>1 DEF Chunk, total_size
  <1>4. 0 % IS_MMAPPED = 0
    BY Multiples
  <1> HIDE DEF c
  <1>5. (b + CHUNK_HDR_SZ) % pagesize = CHUNK_HDR_SZ % pagesize
    <2>1. b \in Int /\ CHUNK_HDR_SZ \in Int /\ pagesize \in Nat \ {0} /\ b % pagesize = 0
      BY Multiples
    <2> QED
      BY <2>1, SameRest
  <1>6. powerof2((c.block + c.offset + CHUNK_HDR_SZ) % pagesize)
    <2>1. c.block + c.offset + CHUNK_HDR_SZ = b + CHUNK_HDR_SZ
      BY <1>3, Multiples
    <2> QED
      BY <2>1, <1>5, PowersAssumption
  <1>7. ~invalid_pointer(c)
    BY <1>1, <1>3, <1>6, Multiples DEF invalid_pointer
  <1>8. Sound(c)
    BY <1>2, <1>3, <1>4, <1>7 DEF Sound
  <1> QED
    BY <1>3, <1>8 DEF c, size

\* mremap_chunk keeps the chunk as far from the begin of its mapping as it was.
LEMMA RemappedIsSound ==
  ASSUME NEW c \in ChunkType, Sound(c), NEW b \in BLOCKS, NEW n \in Nat
  PROVE  LET size == remapped_size(c, n)
             d    == Chunk(b, c.offset, size - c.offset)
         IN  Sound(d) /\ total_size(d) = size /\ size \in Nat \ {0}
  <1> DEFINE size == remapped_size(c, n)
             d == Chunk(b, c.offset, size - c.offset)
  <1>1. c.block \in BLOCKS /\ c.offset \in Nat /\ c.offset % IS_MMAPPED = 0
    BY DEF ChunkType, Sound
  <1>2. size \in Nat \ {0} /\ size % pagesize = 0
    <2>1. n + c.offset \in Nat /\ (n + c.offset) + SIZE_SZ \in Int
      BY <1>1, MmapsAssumption
    <2>2. size = AlignUp((n + c.offset) + SIZE_SZ, pagesize)
      BY DEF remapped_size
    <2> QED
      BY <2>1, <2>2, MappedSize, AlignUpMultiple, Multiples
  <1> HIDE DEF size
  <1>3. size % IS_MMAPPED = 0
    <2>1. size \in Int /\ pagesize \in Nat \ {0} /\ IS_MMAPPED \in Nat \ {0} /\ pagesize % IS_MMAPPED = 0
      BY <1>2, Multiples
    <2> QED
      BY <1>2, <2>1, MultipleOfMultiple
  <1>4. (size - c.offset) % IS_MMAPPED = 0
    <2>1. size \in Int /\ c.offset \in Int /\ IS_MMAPPED \in Nat \ {0}
      BY <1>1, <1>2, Multiples
    <2> QED
      BY <1>1, <1>3, <2>1, SumOfMultiples
  <1>5. d.block = b /\ d.offset = c.offset /\ d.size = size - c.offset /\ total_size(d) = size
    BY <1>1, <1>2 DEF Chunk, total_size
  <1> HIDE DEF d
  <1> DEFINE behind == c.offset + CHUNK_HDR_SZ
  <1>6. behind \in Int /\ c.block \in Int /\ b \in Int /\ pagesize \in Nat \ {0}
        /\ b % pagesize = 0 /\ c.block % pagesize = 0
    BY <1>1, Multiples
  <1>7. /\ d.block + d.offset + CHUNK_HDR_SZ = b + behind
        /\ c.block + c.offset + CHUNK_HDR_SZ = c.block + behind
    BY <1>1, <1>5, Multiples
  <1> HIDE DEF behind
  <1>8. (b + behind) % pagesize = behind % pagesize /\ (c.block + behind) % pagesize = behind % pagesize
    BY <1>6, SameRest
  <1>9. powerof2((c.block + c.offset + CHUNK_HDR_SZ) % pagesize)
    BY DEF Sound, invalid_pointer
  <1>10. ~invalid_pointer(d)
    BY <1>2, <1>5, <1>6, <1>7, <1>8, <1>9 DEF invalid_pointer
  <1>11. Sound(d)
    BY <1>1, <1>4, <1>5, <1>10 DEF Sound
  <1> QED
    BY <1>2, <1>5, <1>11 DEF d, size

\* memalign moves a chunk to an address that is aligned, and that munmap_chunk
\* accepts: the alignment divides the page, or the page the alignment.
LEMMA AlignedIsSound ==
  ASSUME NEW c \in ChunkType, Sound(c), c.offset = 0, NEW a \in ALIGNMENTS \cup {0}
  PROVE  Sound(aligned_chunk(c, a)) /\ total_size(aligned_chunk(c, a)) = total_size(c)
  <1> DEFINE m == c.block + c.offset + CHUNK_HDR_SZ
             up == AlignUp(m, a)
             first == up - CHUNK_HDR_SZ - (c.block + c.offset)
             to == IF first < MINSIZE THEN up + a ELSE up
             d == aligned_chunk(c, a)
  <1>1. CASE a = 0 \/ m % a = 0
    BY <1>1 DEF aligned_chunk
  <1>2. CASE ~(a = 0 \/ m % a = 0)
    <2>1. /\ a \in ALIGNMENTS /\ a \in Nat \ {0} /\ a % IS_MMAPPED = 0
          /\ c.block \in BLOCKS /\ c.block \in Nat /\ c.size \in Int
          /\ c.block % pagesize = 0 /\ c.block % IS_MMAPPED = 0
          /\ pagesize \in Nat \ {0} /\ IS_MMAPPED \in Nat \ {0} /\ CHUNK_HDR_SZ \in Nat
          /\ CHUNK_HDR_SZ % IS_MMAPPED = 0 /\ c.size % IS_MMAPPED = 0
          /\ total_size(c) % pagesize = 0 /\ MINSIZE \in Nat
      BY <1>2, Multiples, MmapsAssumption DEF ChunkType, Sound, invalid_pointer
    <2>2. m = c.block + CHUNK_HDR_SZ /\ m \in Int /\ m % a # 0
      BY <1>2, <2>1
    <2> HIDE DEF m
    <2>3. up \in Int /\ m <= up /\ up < m + a /\ up % a = 0
      BY <2>1, <2>2, AlignUpBounds, AlignUpMultiple
    <2> HIDE DEF up
    <2>4. to \in {up, up + a} /\ to \in Int /\ (up + a) \in Int
      BY <2>1, <2>3
    <2>5. d.block = c.block /\ d.offset = to - CHUNK_HDR_SZ - c.block
          /\ d.size = c.size - (to - CHUNK_HDR_SZ - c.block)
      <3> DEFINE shift == IF first < MINSIZE THEN first + a ELSE first
      <3>1. d = [block |-> c.block, offset |-> c.offset + shift, size |-> c.size - shift]
        BY <1>2 DEF aligned_chunk, moved_chunk, Chunk, m, up
      <3>2. first = up - CHUNK_HDR_SZ - c.block /\ first \in Int /\ first + a = up + a - CHUNK_HDR_SZ - c.block
        <4> DEFINE b == c.block
        <4>1. b + c.offset = b /\ b \in Int
          BY <2>1
        <4> HIDE DEF b
        <4>2. first = up - CHUNK_HDR_SZ - b
          BY <4>1 DEF b
        <4> HIDE DEF first
        <4>3. first + a = up + a - CHUNK_HDR_SZ - b /\ first \in Int
          BY <2>1, <2>3, <4>1, <4>2
        <4> QED
          BY <4>2, <4>3 DEF b
      <3>3. shift = to - CHUNK_HDR_SZ - c.block
        <4> HIDE DEF first
        <4>1. CASE first < MINSIZE
          <5>1. shift = first + a /\ to = up + a
            BY <4>1
          <5> HIDE DEF shift, to
          <5> QED
            BY <2>1, <2>3, <3>2, <5>1
        <4>2. CASE ~(first < MINSIZE)
          <5>1. shift = first /\ to = up
            BY <4>2
          <5> HIDE DEF shift, to
          <5> QED
            BY <2>1, <2>3, <3>2, <5>1
        <4> QED
          BY <4>1, <4>2
      <3>4. shift \in Int
        <4> HIDE DEF first
        <4> QED
          BY <2>1, <3>2
      <3>5. c.offset + shift = shift
        <4> HIDE DEF shift
        <4> QED
          BY <3>4
      <3> HIDE DEF shift, to, d
      <3> QED
        BY <3>1, <3>3, <3>5
    <2> HIDE DEF d, to, first
    <2>6. (up + a) % a = 0
      <3>1. a % a = 0 /\ a \in Int
        BY <2>1
      <3> QED
        BY <2>1, <2>3, <3>1, SumOfMultiples
    <2>7. to % a = 0
      BY <2>3, <2>4, <2>6
    <2>8. total_size(d) = total_size(c)
      <3> DEFINE x == to - CHUNK_HDR_SZ - c.block
      <3>1. x \in Int
        BY <2>1, <2>4
      <3> HIDE DEF x
      <3>2. d.offset = x /\ d.size = c.size - x
        BY <2>5 DEF x
      <3>3. x + (c.size - x) = 0 + c.size
        BY <2>1, <3>1
      <3> QED
        BY <3>2, <3>3 DEF total_size
    <2>9. d.offset % IS_MMAPPED = 0 /\ d.size % IS_MMAPPED = 0
      <3>1. to % IS_MMAPPED = 0
        BY <2>1, <2>4, <2>7, MultipleOfMultiple
      <3> DEFINE x == to - CHUNK_HDR_SZ
                 y == x - c.block
      <3>2. x \in Int /\ x % IS_MMAPPED = 0
        <4>1. x \in Int /\ to \in Int /\ CHUNK_HDR_SZ \in Int /\ IS_MMAPPED \in Nat \ {0}
          BY <2>1, <2>4
        <4>2. (to - CHUNK_HDR_SZ) % IS_MMAPPED = 0
          BY <2>1, <3>1, <4>1, SumOfMultiples
        <4> QED
          BY <4>1, <4>2
      <3> HIDE DEF x
      <3>3. y \in Int /\ y % IS_MMAPPED = 0
        BY <2>1, <3>2, SumOfMultiples
      <3> HIDE DEF y
      <3>4. (c.size - y) % IS_MMAPPED = 0
        BY <2>1, <3>3, SumOfMultiples
      <3> QED
        BY <2>5, <3>3, <3>4 DEF x, y
    <2>10. powerof2(to % pagesize)
      <3>1. CASE a % pagesize = 0
        <4>1. to % pagesize = 0
          BY <2>1, <2>4, <2>7, <3>1, MultipleOfMultiple
        <4> QED
          BY <4>1 DEF powerof2
      <3>2. CASE pagesize % a = 0
        <4>1. c.block % a = 0
          BY <2>1, <3>2, MultipleOfMultiple
        <4>2. CHUNK_HDR_SZ <= a
          BY <2>1, PowersAssumption
        <4>3. CHUNK_HDR_SZ % a # 0
          BY <2>1, <2>2, <4>1, SumOfMultiples
        <4>4. CHUNK_HDR_SZ > 0 /\ CHUNK_HDR_SZ < a
          <5>1. 0 % a = 0 /\ a % a = 0
            BY <2>1
          <5> QED
            BY <2>1, <4>2, <4>3, <5>1
        <4>5. up - c.block = a
          <5> DEFINE x == up - c.block
          <5> DEFINE b == c.block
          <5>0. b \in Int /\ m = b + CHUNK_HDR_SZ
            BY <2>1, <2>2
          <5> HIDE DEF b
          <5>1. x \in Int /\ x > 0 /\ x < a + a
            <6>1. x = up - b
              BY DEF b
            <6> QED
              BY <2>1, <2>3, <4>4, <5>0, <6>1
          <5>1a. x % a = 0
            BY <2>1, <2>3, <4>1, SumOfMultiples
          <5> HIDE DEF x
          <5>2. PICK k \in Int : x = a * k
            BY <2>1, <5>1, <5>1a, Divides
          <5>3. k > 0
            BY <2>1, <5>1, <5>2
          <5>4. k < 2
            BY <2>1, <5>1, <5>2
          <5>5. k = 1
            BY <5>3, <5>4
          <5>6. x = a
            BY <2>1, <5>2, <5>5
          <5> QED
            BY <5>6 DEF x
        <4>6. to \in {c.block + a, c.block + (2 * a)} /\ 2 * a \in Int /\ a \in Int
          <5> DEFINE b == c.block
          <5>1. b \in Int /\ up - b = a
            BY <2>1, <4>5
          <5> HIDE DEF b
          <5>2. up = b + a /\ up + a = b + (2 * a) /\ 2 * a \in Int /\ a \in Int
            BY <2>1, <2>3, <5>1
          <5> QED
            BY <2>4, <5>2 DEF b
        <4>7. (c.block + a) % pagesize = a % pagesize /\ (c.block + (2 * a)) % pagesize = (2 * a) % pagesize
          <5>1. c.block \in Int /\ pagesize \in Nat \ {0} /\ c.block % pagesize = 0
            BY <2>1
          <5> QED
            BY <4>6, <5>1, SameRest
        <4> QED
          BY <2>1, <4>6, <4>7, PowersAssumption
      <3> QED
        BY <2>1, <3>1, <3>2, PowersAssumption
    <2>11. d.block + d.offset + CHUNK_HDR_SZ = to
      BY <2>1, <2>4, <2>5
    <2>12. ~invalid_pointer(d)
      BY <2>1, <2>5, <2>8, <2>10, <2>11 DEF invalid_pointer
    <2>13. Sound(d)
      BY <2>9, <2>12 DEF Sound
    <2> QED
      BY <2>8, <2>13 DEF d
  <1> QED
    BY <1>1, <1>2

-----------------------------------------------------------------------------
(* The memory.                                                             *)

\* A chunk in hand is whole.
LEMMA InHandIsWhole ==
  ASSUME IInv, MemoryInv, NEW t \in THREADS, pc[t] \in HasChunk
  PROVE  chunk[t] \in ChunkType /\ chunk[t] # NoChunk /\ Whole(chunk[t])
  <1>1. chunk[t] \in ChunkType
    BY HasOne DEF IInv, TypeOK
  <1>2. chunk[t] # NoChunk
    BY <1>1, NoChunkIsNone
  <1>3. chunk[t] \in AllChunks
    BY <1>2, Among
  <1> QED
    BY <1>1, <1>2, <1>3 DEF MemoryInv, ChunksWhole

\* Where no memory is pending, and none is counted, ChunksStay is simpler.
LEMMA NothingPending ==
  ASSUME IInv, IInv', MemoryInv, NEW t \in THREADS, Step(t),
         UNCHANGED <<abort, mapped, mmapped_mem, AllChunks>>,
         pc[t] \notin {"count", "max", "add", "readd", "unmap"},
         pc'[t] \notin {"count", "max", "add", "maxmem", "readd", "unmap"}
  PROVE  MemoryInv'
  <1>1. Pending(t) = 0 /\ Pending(t)' = 0
    BY DEF Pending
  <1>2. mmapped_mem' = mmapped_mem + Pending(t) - Pending(t)'
    BY <1>1 DEF IInv, TypeOK, CountersOK
  <1> QED
    BY <1>2, ChunksStay

\* A request that gets no mapping moves no memory.
LEMMA OtherwiseStays ==
  ASSUME IInv, IInv', MemoryInv, NEW t \in THREADS, Step(t),
         UNCHANGED <<abort, mapped, mmapped_mem>>, pc[t] \in {"check", "map"}, Otherwise(t)
  PROVE  MemoryInv'
  <1> USE DEF IInv, TypeOK, DataOK, Goto, Set
  <1>1. chunk[t] = NoChunk /\ orig'[t] = NoChunk
    BY DEF HandsMatchPlaces, HasChunk, Otherwise
  <1>2. pc'[t] \in {"idle", "release"}
    BY DEF Otherwise
  <1>3. AllChunks' = AllChunks
    <2>1. CASE orig[t] = NoChunk
      <3>1. held' = held /\ chunk' = chunk
        BY <2>1 DEF Otherwise
      <3> QED
        BY <1>1, <2>1, <3>1, Handed
    <2>2. CASE orig[t] # NoChunk /\ held' = held \cup {orig[t]} /\ chunk' = chunk
      BY <1>1, <2>2, Handed
    <2>3. CASE orig[t] # NoChunk /\ held' = held /\ chunk'[t] = orig[t]
      BY <1>1, <2>3, Handed
    <2> QED
      BY <2>1, <2>2, <2>3 DEF Otherwise
  <1> QED
    BY <1>2, <1>3, NothingPending

\* mmap's chunk.
LEMMA MapMemory ==
  ASSUME IInv, IInv', MemoryInv, NEW t \in THREADS, Step(t), Map(t)
  PROVE  MemoryInv'
  <1> USE DEF IInv, TypeOK, DataOK, At, Goto, Set, counters, parameters
  <1>1. CASE Otherwise(t) /\ UNCHANGED mapped
    BY <1>1, OtherwiseStays DEF Map
  <1>2. CASE ~(Otherwise(t) /\ UNCHANGED mapped)
    <2> DEFINE size == AlignUp(nb[t] + SIZE_SZ, pagesize)
    <2>1. PICK b \in BLOCKS : /\ mapped[b] = 0 /\ mapped' = Set(mapped, b, size)
                              /\ chunk' = Set(chunk, t, Chunk(b, 0, size))
                              /\ UNCHANGED <<orig, held>> /\ Goto(t, "count")
      BY <1>2 DEF Map
    <2> DEFINE c == Chunk(b, 0, size)
    <2>2. size \in Nat \ {0} /\ Sound(c) /\ total_size(c) = size /\ c.block = b /\ c.size = size
          /\ c.offset = 0
      BY MappedSize, NewIsSound DEF Chunk
    <2> HIDE DEF size
    <2>3. chunk[t] = NoChunk /\ chunk'[t] = c /\ pc'[t] = "count" /\ pc[t] = "map"
      BY <2>1, <1>2 DEF HandsMatchPlaces, HasChunk, Map
    <2> HIDE DEF c
    <2>4. c # NoChunk
      BY <2>3 DEF HandsMatchPlaces, HasChunk
    <2>5. \A d : d \in AllChunks' <=> d \in AllChunks \/ d = c
      <3> SUFFICES ASSUME NEW d PROVE d \in AllChunks' <=> d \in AllChunks \/ d = c
        OBVIOUS
      <3> QED
        BY <2>1, <2>3, <2>4, Among, Elsewhere
    <2>6. mapped'[b] = size /\ \A x \in BLOCKS : x # b => mapped'[x] = mapped[x]
      BY <2>1
    <2>7. ChunksWhole'
      <3> SUFFICES ASSUME NEW d \in AllChunks' PROVE Whole(d)'
        BY DEF ChunksWhole
      <3>1. CASE d = c
        BY <2>2, <2>6, <3>1 DEF Whole
      <3>2. CASE d \in AllChunks
        <4>1. Whole(d) /\ d \in ChunkType
          BY <3>2, AllAreChunks DEF MemoryInv, ChunksWhole
        <4>2. mapped[d.block] # 0 /\ d.block \in BLOCKS
          BY <4>1, Fields DEF Whole
        <4>3. mapped'[d.block] = mapped[d.block]
          BY <2>1, <2>6, <4>2
        <4> QED
          BY <4>1, <4>3 DEF Whole
      <3> QED
        BY <2>5, <3>1, <3>2
    <2>8. NothingElse'
      <3> SUFFICES ASSUME NEW x \in BLOCKS, mapped'[x] # 0
                   PROVE  \E d \in AllChunks' : d.block = x
        BY DEF NothingElse
      <3> QED
        BY <2>2, <2>5, <2>6 DEF MemoryInv, NothingElse
    <2>9. NewAtTheirBegin'
      BY <2>2, <2>3, Elsewhere DEF MemoryInv, NewAtTheirBegin
    <2>10. SumFunction(mapped)' = SumFunction(mapped) + size
      <3>1. mapped \in [BLOCKS -> Int] /\ mapped' \in [BLOCKS -> Int] /\ IsFiniteSet(BLOCKS)
        BY MmapsAssumption
      <3>2. SumFunction(mapped') = SumFunction(mapped) - mapped[b] + mapped'[b]
        BY <2>6, <3>1, SumChanges
      <3>3. SumFunction(mapped) \in Int
        BY <3>1, SumType
      <3> QED
        BY <2>1, <2>2, <2>6, <3>2, <3>3
    <2>11. Pending(t) = 0 /\ Pending(t)' = size
      BY <2>2, <2>3 DEF Pending
    <2>12. mmapped_mem' = mmapped_mem + size + Pending(t) - Pending(t)'
      <3>1. mmapped_mem' = mmapped_mem /\ mmapped_mem \in Int
        BY DEF Map, CountersOK
      <3> QED
        BY <2>2, <2>11, <3>1
    <2>13. SumInv'
      BY <2>2, <2>10, <2>12, Accounted DEF MemoryInv
    <2>14. ~abort'
      BY DEF Map, MemoryInv
    <2> QED
      BY <2>7, <2>8, <2>9, <2>13, <2>14 DEF MemoryInv
  <1> QED
    BY <1>1, <1>2

\* memalign's chunk, in place of the one that mmap gave.
LEMMA MaxMemMemory ==
  ASSUME IInv, IInv', MemoryInv, NEW t \in THREADS, Step(t), MaxMem(t)
  PROVE  MemoryInv'
  <1> USE DEF IInv, TypeOK, DataOK, At, Goto, Set, counters, parameters
  <1> DEFINE c == chunk[t]
             d == aligned_chunk(c, lead[t])
  <1>1. c \in ChunkType /\ c # NoChunk /\ Whole(c) /\ c.offset = 0 /\ lead[t] \in ALIGNMENTS \cup {0}
    BY InHandIsWhole DEF MaxMem, HasChunk, MemoryInv, NewAtTheirBegin
  <1>2. d \in ChunkType /\ d.block = c.block /\ Sound(d) /\ total_size(d) = total_size(c)
    BY <1>1, AlignedChunk, AlignedIsSound DEF Whole
  <1>3. /\ held' = held \cup {d} /\ chunk'[t] = orig[t] /\ orig'[t] = NoChunk
        /\ UNCHANGED <<mapped, mmapped_mem, abort>>
        /\ pc[t] = "maxmem" /\ pc'[t] \in {"idle", "release"}
    BY DEF MaxMem
  <1> HIDE DEF c, d
  <1>4. \A e : e \in AllChunks' => e \in AllChunks \/ e = d
    <2> SUFFICES ASSUME NEW e, e \in AllChunks' PROVE e \in AllChunks \/ e = d
      OBVIOUS
    <2> QED
      BY <1>3, Among, Elsewhere
  <1>5. \A e : e \in AllChunks => e \in AllChunks' \/ e = c
    <2> SUFFICES ASSUME NEW e, e \in AllChunks PROVE e \in AllChunks' \/ e = c
      OBVIOUS
    <2> QED
      BY <1>3, Among, Elsewhere DEF c
  <1>6. d \in AllChunks'
    BY <1>2, <1>3, Among, NoChunkIsNone
  <1>7. ChunksWhole'
    <2> SUFFICES ASSUME NEW e \in AllChunks' PROVE Whole(e)'
      BY DEF ChunksWhole
    <2>1. mapped[d.block] = total_size(d)
      BY <1>1, <1>2 DEF Whole
    <2> QED
      BY <1>2, <1>3, <1>4, <2>1 DEF Whole, MemoryInv, ChunksWhole
  <1>8. NothingElse'
    BY <1>2, <1>3, <1>5, <1>6 DEF MemoryInv, NothingElse
  <1>9. NewAtTheirBegin'
    BY <1>3, Elsewhere DEF MemoryInv, NewAtTheirBegin
  <1>10. mmapped_mem' = mmapped_mem + Pending(t) - Pending(t)'
    <2>1. Pending(t) = 0 /\ Pending(t)' = 0
      BY <1>3 DEF Pending
    <2> QED
      BY <1>3, <2>1 DEF CountersOK
  <1>11. SumInv'
    BY <1>3, <1>10, AccountKept DEF MemoryInv
  <1> QED
    BY <1>3, <1>7, <1>8, <1>9, <1>11 DEF MemoryInv

\* What munmap gives back is all that was mapped for the chunk.
LEMMA UnmapMemory ==
  ASSUME IInv, IInv', MemoryInv, NEW t \in THREADS, Step(t), Unmap(t)
  PROVE  MemoryInv'
  <1> USE DEF IInv, TypeOK, DataOK, At, Goto, Set, counters, parameters
  <1> DEFINE c == chunk[t]
  <1>1. c \in ChunkType /\ c # NoChunk /\ Whole(c) /\ c.block \in BLOCKS /\ total_size(c) \in Int
    BY InHandIsWhole, Fields DEF Unmap, HasChunk
  <1>2. /\ held' = held /\ chunk'[t] = NoChunk /\ orig' = orig /\ pc[t] = "unmap" /\ pc'[t] = "idle"
        /\ UNCHANGED <<mmapped_mem, abort>>
    BY DEF Unmap
  <1>3. mapped[c.block] = total_size(c) /\ mapped'[c.block] = 0
        /\ \A b \in BLOCKS : b # c.block => mapped'[b] = mapped[b]
    BY <1>1 DEF Unmap, Whole
  <1> HIDE DEF c
  <1>4. \A e : e \in AllChunks' => e \in AllChunks
    <2> SUFFICES ASSUME NEW e, e \in AllChunks' PROVE e \in AllChunks
      OBVIOUS
    <2> QED
      BY <1>2, Among, Elsewhere
  <1>5. \A e : e \in AllChunks => e \in AllChunks' \/ e = c
    <2> SUFFICES ASSUME NEW e, e \in AllChunks PROVE e \in AllChunks' \/ e = c
      OBVIOUS
    <2> QED
      BY <1>2, Among, Elsewhere DEF c
  <1>6. ChunksWhole'
    <2> SUFFICES ASSUME NEW e \in AllChunks' PROVE Whole(e)'
      BY DEF ChunksWhole
    <2>1. Whole(e) /\ e \in ChunkType
      BY <1>4, AllAreChunks DEF MemoryInv, ChunksWhole
    <2>2. e.block \in BLOCKS
      BY <2>1, Fields
    <2>3. mapped'[e.block] # 0
      BY Among DEF OwnMapping
    <2>4. mapped'[e.block] = mapped[e.block]
      BY <1>3, <2>2, <2>3
    <2> QED
      BY <2>1, <2>4 DEF Whole
  <1>7. NothingElse'
    BY <1>3, <1>5 DEF MemoryInv, NothingElse
  <1>8. NewAtTheirBegin'
    BY <1>2, Elsewhere DEF MemoryInv, NewAtTheirBegin
  <1> DEFINE d == -total_size(c)
  <1>9. d \in Int /\ SumFunction(mapped)' = SumFunction(mapped) + d
    <2>1. mapped \in [BLOCKS -> Int] /\ mapped' \in [BLOCKS -> Int] /\ IsFiniteSet(BLOCKS)
      BY MmapsAssumption
    <2>2. SumFunction(mapped') = SumFunction(mapped) - mapped[c.block] + mapped'[c.block]
      BY <1>1, <1>3, <2>1, SumChanges
    <2>3. SumFunction(mapped) \in Int
      BY <2>1, SumType
    <2> QED
      BY <1>1, <1>3, <2>2, <2>3
  <1>10. Pending(t) = total_size(c) /\ Pending(t)' = 0
    BY <1>2 DEF Pending, c
  <1>11. mmapped_mem' = mmapped_mem + d + Pending(t) - Pending(t)'
    BY <1>1, <1>2, <1>10 DEF CountersOK
  <1> HIDE DEF d
  <1>12. SumInv'
    BY <1>9, <1>11, Accounted DEF MemoryInv
  <1> QED
    BY <1>2, <1>6, <1>7, <1>8, <1>12 DEF MemoryInv

\* The chunk that mremap moves or resizes.
LEMMA RemapMemory ==
  ASSUME IInv, IInv', MemoryInv, NEW t \in THREADS, Step(t), Remap(t)
  PROVE  MemoryInv'
  <1> USE DEF IInv, TypeOK, DataOK, At, Goto, Set, counters, parameters
  <1> DEFINE c == chunk[t]
             size == remapped_size(c, nb[t])
  <1>1. c \in ChunkType /\ c # NoChunk /\ Whole(c) /\ c.block \in BLOCKS /\ total_size(c) \in Int
        /\ nb[t] \in Nat /\ mapped[c.block] = total_size(c)
    BY InHandIsWhole, Fields DEF Remap, HasChunk, Whole
  <1>2. PICK b \in BLOCKS : /\ b = c.block \/ mapped[b] = 0
                            /\ mapped' = [mapped EXCEPT ![c.block] = 0, ![b] = size]
                            /\ chunk'[t] = Chunk(b, c.offset, size - c.offset)
    BY DEF Remap
  <1> DEFINE d == Chunk(b, c.offset, size - c.offset)
  <1>3. size \in Nat \ {0} /\ Sound(d) /\ total_size(d) = size /\ d.block = b
    BY <1>1, RemappedIsSound DEF Whole, Chunk
  <1>4. /\ held' = held /\ orig' = orig /\ pc[t] = "remap" /\ pc'[t] = "readd"
        /\ seen'[t] = size - total_size(c) /\ UNCHANGED <<mmapped_mem, abort>>
    BY DEF Remap, CountersOK
  <1>5. chunk'[t] = d /\ d # NoChunk
    BY <1>2, <1>4 DEF HandsMatchPlaces, HasChunk
  <1> HIDE DEF d, size
  <1>6. /\ mapped'[b] = size
        /\ b # c.block => mapped'[c.block] = 0
        /\ \A x \in BLOCKS : x # b /\ x # c.block => mapped'[x] = mapped[x]
    BY <1>1, <1>2
  <1> HIDE DEF c
  <1>7. \A e : e \in AllChunks' => e = d \/ (e \in AllChunks /\ e.block # c.block)
    <2> SUFFICES ASSUME NEW e, e \in AllChunks', e # d PROVE e \in AllChunks /\ e.block # c.block
      OBVIOUS
    <2>1. e # NoChunk
      BY Among
    <2>2. e \in held \/ (\E u \in THREADS : u # t /\ e = chunk[u]) \/ \E u \in THREADS : e = orig[u]
      BY <1>4, <1>5, Among, Elsewhere
    <2>3. e \in AllChunks
      BY <2>1, <2>2, Among
    <2> QED
      BY <1>1, <2>1, <2>2, <2>3 DEF OwnMapping, c
  <1>8. \A e : e \in AllChunks => e \in AllChunks' \/ e = c
    <2> SUFFICES ASSUME NEW e, e \in AllChunks PROVE e \in AllChunks' \/ e = c
      OBVIOUS
    <2> QED
      BY <1>4, Among, Elsewhere DEF c
  <1>9. d \in AllChunks'
    BY <1>5, Among
  <1>10. ChunksWhole'
    <2> SUFFICES ASSUME NEW e \in AllChunks' PROVE Whole(e)'
      BY DEF ChunksWhole
    <2>1. CASE e = d
      BY <1>3, <1>6, <2>1 DEF Whole
    <2>2. CASE e # d
      <3>1. Whole(e) /\ e \in ChunkType /\ e.block # c.block
        BY <1>7, <2>2, AllAreChunks DEF MemoryInv, ChunksWhole
      <3>2. e.block \in BLOCKS /\ mapped[e.block] # 0
        BY <3>1, Fields DEF Whole
      <3>3. mapped'[e.block] = mapped[e.block]
        BY <1>2, <1>6, <3>1, <3>2
      <3> QED
        BY <3>1, <3>3 DEF Whole
    <2> QED
      BY <2>1, <2>2
  <1>11. NothingElse'
    <2> SUFFICES ASSUME NEW x \in BLOCKS, mapped'[x] # 0
                 PROVE  \E e \in AllChunks' : e.block = x
      BY DEF NothingElse
    <2>1. CASE x = b
      BY <1>3, <1>9, <2>1
    <2>2. CASE x # b
      <3>1. x # c.block /\ mapped[x] # 0
        BY <1>6, <2>2
      <3>2. PICK e \in AllChunks : e.block = x
        BY <3>1 DEF MemoryInv, NothingElse
      <3> QED
        BY <1>8, <3>1, <3>2
    <2> QED
      BY <2>1, <2>2
  <1>12. NewAtTheirBegin'
    BY <1>4, Elsewhere DEF MemoryInv, NewAtTheirBegin
  <1> DEFINE grown == size - total_size(c)
  <1>13. grown \in Int /\ SumFunction(mapped)' = SumFunction(mapped) + grown
    <2>1. mapped \in [BLOCKS -> Int] /\ mapped' \in [BLOCKS -> Int] /\ IsFiniteSet(BLOCKS)
      BY MmapsAssumption
    <2> DEFINE gone == [mapped EXCEPT ![c.block] = 0]
    <2>2. gone \in [BLOCKS -> Int] /\ gone[c.block] = 0
          /\ \A x \in BLOCKS : x # c.block => gone[x] = mapped[x]
      BY <1>1, <2>1
    <2>3. gone[b] = 0
      BY <1>1, <1>2, <2>2
    <2>4. \A x \in BLOCKS : x # b => mapped'[x] = gone[x]
      BY <1>2, <2>1
    <2> HIDE DEF gone
    <2>5. SumFunction(gone) = SumFunction(mapped) - mapped[c.block] + gone[c.block]
      BY <1>1, <2>1, <2>2, SumChanges
    <2>6. SumFunction(mapped') = SumFunction(gone) - gone[b] + mapped'[b]
      BY <2>1, <2>2, <2>4, SumChanges
    <2>7. SumFunction(mapped) \in Int
      BY <2>1, SumType
    <2> QED
      BY <1>1, <1>3, <1>6, <2>2, <2>3, <2>5, <2>6, <2>7
  <1>14. Pending(t) = 0 /\ Pending(t)' = grown
    BY <1>4 DEF Pending
  <1>15. mmapped_mem' = mmapped_mem + grown + Pending(t) - Pending(t)'
    BY <1>4, <1>13, <1>14 DEF CountersOK
  <1> HIDE DEF grown
  <1>16. SumInv'
    BY <1>13, <1>15, Accounted DEF MemoryInv
  <1> QED
    BY <1>4, <1>10, <1>11, <1>12, <1>16 DEF MemoryInv

\* Every step keeps what is known of the memory.
LEMMA MemoryStep ==
  ASSUME IInv, IInv', MemoryInv, NEW t \in THREADS, Step(t)
  PROVE  MemoryInv'
  <1> USE DEF IInv, TypeOK, DataOK, CountersOK, At, Goto, Set, counters, parameters, locals
  <1>0. UNCHANGED <<held, chunk, orig>> => AllChunks' = AllChunks
    BY DEF AllChunks
  <1>1. CASE Malloc(t)
    BY <1>1, <1>0, NothingPending DEF Malloc
  <1>2. CASE Check(t)
    <2>1. CASE Otherwise(t)
      BY <1>2, <2>1, OtherwiseStays DEF Check
    <2>2. CASE ~Otherwise(t)
      BY <1>2, <2>2, <1>0, NothingPending DEF Check
    <2> QED
      BY <2>1, <2>2
  <1>3. CASE Map(t)
    BY <1>3, MapMemory
  <1>4. CASE Count(t)
    <2>1. chunk[t] \in ChunkType
      BY <1>4, HasOne DEF Count, HasChunk
    <2>2. chunk[t].size \in Int /\ total_size(chunk[t]) \in Int
      BY <2>1, Fields
    <2>3. mmapped_mem' = mmapped_mem + Pending(t) - Pending(t)'
      BY <1>4, <2>2 DEF Count, Pending
    <2> QED
      BY <1>4, <1>0, <2>3, ChunksStay DEF Count
  <1>5. CASE MaxCount(t)
    <2>1. chunk[t] \in ChunkType
      BY <1>5, HasOne DEF MaxCount, HasChunk
    <2>2. chunk[t].size \in Int /\ total_size(chunk[t]) \in Int
      BY <2>1, Fields
    <2>3. mmapped_mem' = mmapped_mem + Pending(t) - Pending(t)'
      BY <1>5, <2>2 DEF MaxCount, Pending
    <2> QED
      BY <1>5, <1>0, <2>3, ChunksStay DEF MaxCount
  <1>6. CASE Add(t)
    <2>1. chunk[t] \in ChunkType
      BY <1>6, HasOne DEF Add, HasChunk
    <2>2. chunk[t].size \in Int /\ total_size(chunk[t]) \in Int
      BY <2>1, Fields
    <2>3. mmapped_mem' = mmapped_mem + Pending(t) - Pending(t)'
      BY <1>6, <2>2 DEF Add, Pending
    <2> QED
      BY <1>6, <1>0, <2>3, ChunksStay DEF Add
  <1>7. CASE MaxMem(t)
    BY <1>7, MaxMemMemory
  <1>8. CASE Free(t)
    <2>1. chunk[t] = NoChunk /\ orig' = orig
      BY <1>8 DEF Free, HandsMatchPlaces, HasChunk
    <2>2. PICK c \in held : held' = held \ {c} /\ chunk'[t] = c
      BY <1>8 DEF Free
    <2>3. AllChunks' = AllChunks
      BY <2>1, <2>2, Handed
    <2> QED
      BY <1>8, <2>3, NothingPending DEF Free
  <1>9. CASE Dynamic(t)
    BY <1>9, <1>0, NothingPending DEF Dynamic
  <1>10. CASE Compare(t)
    BY <1>10, <1>0, NothingPending DEF Compare
  <1>11. CASE Raise(t)
    BY <1>11, <1>0, NothingPending DEF Raise
  <1>12. CASE Double(t)
    BY <1>12, <1>0, NothingPending DEF Double
  <1>13. CASE Release(t)
    <2>1. ~invalid_pointer(chunk[t])
      BY <1>13, InHandIsWhole DEF Release, HasChunk, Whole, Sound
    <2>2. atomic_decrement(t) /\ UNCHANGED <<abort, mapped, mmapped_mem, held, chunk, orig>>
          /\ pc[t] = "release"
      BY <1>13, <2>1 DEF Release
    <2>3. pc'[t] = "subtract"
      BY <2>2 DEF atomic_decrement
    <2> QED
      BY <2>2, <2>3, <1>0, NothingPending
  <1>14. CASE Subtract(t)
    <2>1. chunk[t] \in ChunkType
      BY <1>14, HasOne DEF Subtract, HasChunk
    <2>2. chunk[t].size \in Int /\ total_size(chunk[t]) \in Int
      BY <2>1, Fields
    <2>3. mmapped_mem' = mmapped_mem + Pending(t) - Pending(t)'
      BY <1>14, <2>2 DEF Subtract, Pending
    <2> QED
      BY <1>14, <1>0, <2>3, ChunksStay DEF Subtract
  <1>15. CASE Unmap(t)
    BY <1>15, UnmapMemory
  <1>16. CASE Realloc(t)
    <2>1. chunk[t] = NoChunk /\ orig' = orig
      BY <1>16 DEF Realloc, HandsMatchPlaces, HasChunk
    <2>2. PICK c \in held : held' = held \ {c} /\ chunk'[t] = c
      BY <1>16 DEF Realloc
    <2>3. AllChunks' = AllChunks
      BY <2>1, <2>2, Handed
    <2> QED
      BY <1>16, <2>3, NothingPending DEF Realloc
  <1>17. CASE Remap(t)
    BY <1>17, RemapMemory
  <1>18. CASE NoRemap(t)
    <2>1. ~invalid_pointer(chunk[t]) /\ chunk[t] # NoChunk /\ orig[t] = NoChunk
      BY <1>18, InHandIsWhole DEF NoRemap, HasChunk, HasOrig, HandsMatchPlaces, Whole, Sound
    <2>2. chunk'[t] = NoChunk /\ UNCHANGED <<abort, mapped, mmapped_mem>> /\ pc[t] = "remap"
          /\ pc'[t] \in {"idle", "check"}
      BY <1>18, <2>1 DEF NoRemap
    <2>3. \/ held' = held \cup {chunk[t]} /\ orig'[t] = NoChunk
          \/ held' = held /\ orig'[t] = chunk[t]
      BY <1>18, <2>1 DEF NoRemap
    <2>4. AllChunks' = AllChunks
      BY <2>1, <2>2, <2>3, Handed
    <2> QED
      BY <2>2, <2>4, NothingPending
  <1>19. CASE ReAdd(t)
    <2>1. mmapped_mem' = mmapped_mem + Pending(t) - Pending(t)'
      BY <1>19 DEF ReAdd, remap_difference, Pending
    <2> QED
      BY <1>19, <1>0, <2>1, ChunksStay DEF ReAdd
  <1>20. CASE ReMax(t)
    <2>1. chunk[t] # NoChunk
      BY <1>20, InHandIsWhole DEF ReMax, HasChunk
    <2>2. AllChunks' = AllChunks
      BY <1>20, <2>1, Handed DEF ReMax
    <2> QED
      BY <1>20, <2>2, NothingPending DEF ReMax
  <1>21. CASE Mallopt(t)
    BY <1>21, <1>0, NothingPending DEF Mallopt
  <1>22. CASE Fix(t)
    BY <1>22, <1>0, NothingPending DEF Fix
  <1> QED
    BY <1>1, <1>2, <1>3, <1>4, <1>5, <1>6, <1>7, <1>8, <1>9, <1>10, <1>11, <1>12,
       <1>13, <1>14, <1>15, <1>16, <1>17, <1>18, <1>19, <1>20, <1>21, <1>22 DEF Step

-----------------------------------------------------------------------------
(* The threshold.                                                          *)

\* The defaults are numbers of bytes.
LEMMA Defaults ==
  /\ IS_MMAPPED \in Nat \ {0} /\ DEFAULT_MMAP_THRESHOLD_MAX \in Nat
  /\ DEFAULT_MMAP_THRESHOLD \in Int /\ DEFAULT_MMAP_THRESHOLD % IS_MMAPPED = 0
  /\ THRESHOLDS \subseteq Nat
  <1>1. DEFAULT_MMAP_THRESHOLD % IS_MMAPPED = 0
    BY LimitsAssumption
  <1>2. DEFAULT_MMAP_THRESHOLD \in Nat /\ DEFAULT_MMAP_THRESHOLD_MAX \in Nat
    BY LimitsAssumption
  <1> QED
    BY <1>1, <1>2, LimitsAssumption

\* Of two multiples, one that is less than a unit below the other is not below.
LEMMA NotBelow ==
  ASSUME NEW d \in Nat \ {0}, NEW m \in Int, NEW n \in Int, m % d = 0, n % d = 0, m + d > n
  PROVE  m >= n
  <1>1. PICK j \in Int : m = d * j
    BY Divides
  <1>2. PICK k \in Int : n = d * k
    BY Divides
  <1>3. d * (j + 1) > d * k
    BY <1>1, <1>2
  <1>4. j + 1 > k
    BY <1>3
  <1>5. j - k \in Nat
    BY <1>4
  <1>6. d * (j - k) >= 0
    BY <1>5
  <1> QED
    BY <1>1, <1>2, <1>6

\* A step that moves no threshold and sends no thread to raise it.
LEMMA LimitsStay ==
  ASSUME IInv, LimitsInv, NEW t \in THREADS, Step(t), UNCHANGED mmap_threshold,
         pc'[t] # "raise", NoMallopt' => NoMallopt
  PROVE  LimitsInv'
  <1>1. ThresholdWithinLimits'
    BY DEF LimitsInv, ThresholdWithinLimits, NoMallopt
  <1>2. ASSUME NEW u \in THREADS, pc'[u] = "raise"
        PROVE  pc[u] = "raise" /\ chunk'[u] = chunk[u]
    BY <1>2, Elsewhere DEF IInv
  <1> QED
    BY <1>1, <1>2 DEF LimitsInv

\* mallopt is never undone.
LEMMA MalloptStays ==
  ASSUME IInv, NEW t \in THREADS, Step(t), NoMallopt'
  PROVE  NoMallopt
  <1>1. no_dyn_threshold' = no_dyn_threshold /\ pc[t] # "fix"
    <2> USE DEF At, parameters
    <2>1. CASE Malloc(t)
      BY <2>1 DEF Malloc
    <2>2. CASE Check(t)
      BY <2>2 DEF Check
    <2>3. CASE Map(t)
      BY <2>3 DEF Map
    <2>4. CASE Count(t)
      BY <2>4 DEF Count
    <2>5. CASE MaxCount(t)
      BY <2>5 DEF MaxCount
    <2>6. CASE Add(t)
      BY <2>6 DEF Add
    <2>7. CASE MaxMem(t)
      BY <2>7 DEF MaxMem
    <2>8. CASE Free(t)
      BY <2>8 DEF Free
    <2>9. CASE Dynamic(t)
      BY <2>9 DEF Dynamic
    <2>10. CASE Compare(t)
      BY <2>10 DEF Compare
    <2>11. CASE Raise(t)
      BY <2>11 DEF Raise
    <2>12. CASE Double(t)
      BY <2>12 DEF Double
    <2>13. CASE Release(t)
      BY <2>13 DEF Release
    <2>14. CASE Subtract(t)
      BY <2>14 DEF Subtract
    <2>15. CASE Unmap(t)
      BY <2>15 DEF Unmap
    <2>16. CASE Realloc(t)
      BY <2>16 DEF Realloc
    <2>17. CASE Remap(t)
      BY <2>17 DEF Remap
    <2>18. CASE NoRemap(t)
      BY <2>18 DEF NoRemap
    <2>19. CASE ReAdd(t)
      BY <2>19 DEF ReAdd
    <2>20. CASE ReMax(t)
      BY <2>20 DEF ReMax
    <2>21. CASE Mallopt(t)
      BY <2>21 DEF Mallopt
    <2>22. CASE Fix(t)
      BY <2>22 DEF Fix, NoMallopt
    <2> QED
      BY <2>1, <2>2, <2>3, <2>4, <2>5, <2>6, <2>7, <2>8, <2>9, <2>10, <2>11, <2>12,
         <2>13, <2>14, <2>15, <2>16, <2>17, <2>18, <2>19, <2>20, <2>21, <2>22 DEF Step
  <1> QED
    BY <1>1, Elsewhere DEF NoMallopt, IInv

\* Every step keeps the threshold within its limits: a chunk that raises it was
\* compared with the threshold that there was, and its size is a multiple of
\* what the flag bits take.
LEMMA LimitsStep ==
  ASSUME IInv, MemoryInv, LimitsInv, NEW t \in THREADS, Step(t)
  PROVE  LimitsInv'
  <1> USE DEF IInv, TypeOK, DataOK, At, Goto, Set, counters, parameters, locals
  <1>0. NoMallopt' => NoMallopt
    BY MalloptStays
  <1>1. CASE Malloc(t)
    BY <1>1, <1>0, LimitsStay DEF Malloc
  <1>2. CASE Check(t)
    BY <1>2, <1>0, LimitsStay DEF Check, Otherwise
  <1>3. CASE Map(t)
    BY <1>3, <1>0, LimitsStay DEF Map, Otherwise
  <1>4. CASE Count(t)
    BY <1>4, <1>0, LimitsStay DEF Count
  <1>5. CASE MaxCount(t)
    BY <1>5, <1>0, LimitsStay DEF MaxCount
  <1>6. CASE Add(t)
    BY <1>6, <1>0, LimitsStay DEF Add
  <1>7. CASE MaxMem(t)
    BY <1>7, <1>0, LimitsStay DEF MaxMem
  <1>8. CASE Free(t)
    BY <1>8, <1>0, LimitsStay DEF Free
  <1>9. CASE Dynamic(t)
    BY <1>9, <1>0, LimitsStay DEF Dynamic
  <1>10. CASE Compare(t)
    <2>1. chunk[t] \in ChunkType /\ Whole(chunk[t])
      BY <1>10, InHandIsWhole DEF Compare, HasChunk
    <2> DEFINE size == chunk[t].size
    <2>2. size \in Int /\ size % IS_MMAPPED = 0
      BY <2>1, Fields DEF Whole, Sound
    <2>3. CASE ~raises_threshold(chunk[t])
      BY <1>10, <1>0, <2>3, LimitsStay DEF Compare
    <2>4. CASE raises_threshold(chunk[t])
      <3>1. size + IS_MMAPPED > mmap_threshold /\ size + IS_MMAPPED <= DEFAULT_MMAP_THRESHOLD_MAX
        BY <2>4 DEF raises_threshold, chunksize_nomask
      <3>2. /\ IS_MMAPPED \in Nat \ {0} /\ DEFAULT_MMAP_THRESHOLD_MAX \in Nat
            /\ DEFAULT_MMAP_THRESHOLD \in Int /\ DEFAULT_MMAP_THRESHOLD % IS_MMAPPED = 0
            /\ THRESHOLDS \subseteq Nat
        BY Defaults
      <3>3. mmap_threshold \in Nat
        BY <3>2 DEF LimitsInv, ThresholdWithinLimits
      <3>4. NoMallopt => mmap_threshold >= DEFAULT_MMAP_THRESHOLD
        BY DEF LimitsInv, ThresholdWithinLimits, NoMallopt
      <3> HIDE DEF size
      <3>5. size >= 0
        <4>1. 0 % IS_MMAPPED = 0 /\ size + IS_MMAPPED > 0
          BY <2>2, <3>1, <3>2, <3>3
        <4> QED
          BY <2>2, <3>2, <4>1, NotBelow
      <3>6. size \in 0 .. DEFAULT_MMAP_THRESHOLD_MAX
        BY <2>2, <3>1, <3>2, <3>5
      <3>7. NoMallopt => size >= DEFAULT_MMAP_THRESHOLD
        <4> SUFFICES ASSUME NoMallopt PROVE size >= DEFAULT_MMAP_THRESHOLD
          OBVIOUS
        <4>1. size + IS_MMAPPED > DEFAULT_MMAP_THRESHOLD
          BY <2>2, <3>1, <3>2, <3>3, <3>4
        <4> QED
          BY <2>2, <3>2, <4>1, NotBelow
      <3>8. UNCHANGED <<mmap_threshold, no_dyn_threshold, chunk>>
        BY <1>10 DEF Compare
      <3>9. ThresholdWithinLimits'
        BY <1>0, <3>8 DEF LimitsInv, ThresholdWithinLimits, NoMallopt
      <3>10. \A u \in THREADS : pc'[u] = "raise" => u = t \/ pc[u] = "raise"
        BY Elsewhere
      <3> QED
        BY <1>0, <3>6, <3>7, <3>8, <3>9, <3>10 DEF LimitsInv, size
    <2> QED
      BY <2>3, <2>4
  <1>11. CASE Raise(t)
    <2>1. mmap_threshold' = chunk[t].size /\ chunk' = chunk /\ pc[t] = "raise" /\ pc'[t] # "raise"
      BY <1>11 DEF Raise
    <2>2. ThresholdWithinLimits'
      BY <1>0, <2>1 DEF LimitsInv, ThresholdWithinLimits, NoMallopt
    <2>3. \A u \in THREADS : pc'[u] = "raise" => pc[u] = "raise"
      BY <2>1, Elsewhere
    <2> QED
      BY <1>0, <2>1, <2>2, <2>3 DEF LimitsInv
  <1>12. CASE Double(t)
    BY <1>12, <1>0, LimitsStay DEF Double
  <1>13. CASE Release(t)
    BY <1>13, <1>0, LimitsStay DEF Release, atomic_decrement
  <1>14. CASE Subtract(t)
    BY <1>14, <1>0, LimitsStay DEF Subtract
  <1>15. CASE Unmap(t)
    BY <1>15, <1>0, LimitsStay DEF Unmap
  <1>16. CASE Realloc(t)
    BY <1>16, <1>0, LimitsStay DEF Realloc
  <1>17. CASE Remap(t)
    BY <1>17, <1>0, LimitsStay DEF Remap
  <1>18. CASE NoRemap(t)
    BY <1>18, <1>0, LimitsStay DEF NoRemap
  <1>19. CASE ReAdd(t)
    BY <1>19, <1>0, LimitsStay DEF ReAdd
  <1>20. CASE ReMax(t)
    BY <1>20, <1>0, LimitsStay DEF ReMax
  <1>21. CASE Mallopt(t)
    <2>1. mmap_threshold' \in THRESHOLDS \cup {mmap_threshold} /\ chunk' = chunk /\ pc'[t] = "fix"
      BY <1>21 DEF Mallopt
    <2>2. ~NoMallopt'
      BY <2>1 DEF NoMallopt
    <2>3. ThresholdWithinLimits'
      BY <2>1, <2>2 DEF LimitsInv, ThresholdWithinLimits, NoMallopt
    <2>4. \A u \in THREADS : pc'[u] = "raise" => pc[u] = "raise"
      BY <2>1, Elsewhere
    <2> QED
      BY <2>1, <2>2, <2>3, <2>4 DEF LimitsInv
  <1>22. CASE Fix(t)
    BY <1>22, <1>0, LimitsStay DEF Fix
  <1> QED
    BY <1>1, <1>2, <1>3, <1>4, <1>5, <1>6, <1>7, <1>8, <1>9, <1>10, <1>11, <1>12,
       <1>13, <1>14, <1>15, <1>16, <1>17, <1>18, <1>19, <1>20, <1>21, <1>22 DEF Step

-----------------------------------------------------------------------------
(* The invariant of the memory and the threshold.                          *)

\* At the start nothing is mapped, and the threshold is the first.
LEMMA InitMemory == Init => MemoryInv /\ LimitsInv
  <1> SUFFICES ASSUME Init PROVE MemoryInv /\ LimitsInv
    OBVIOUS
  <1> USE DEF Init
  <1>1. AllChunks = {}
    <2>1. ASSUME NEW c, c \in AllChunks PROVE FALSE
      BY <2>1, Among
    <2> QED
      BY <2>1
  <1>2. ChunksWhole /\ NothingElse /\ NewAtTheirBegin
    BY <1>1 DEF ChunksWhole, NothingElse, NewAtTheirBegin
  <1>3. SumFunction(mapped) = 0
    <2>1. mapped \in [BLOCKS -> Int] /\ \A b \in BLOCKS : mapped[b] = 0
      OBVIOUS
    <2> QED
      BY <2>1, MmapsAssumption, SumOfZeros
  <1>4. SumFunction([t \in THREADS |-> Pending(t)]) = 0
    <2> DEFINE P == [t \in THREADS |-> Pending(t)]
    <2>1. \A t \in THREADS : Pending(t) = 0
      BY DEF Pending
    <2>2. P \in [THREADS -> Int] /\ \A t \in THREADS : P[t] = 0
      BY <2>1
    <2> HIDE DEF P
    <2>3. SumFunction(P) = 0
      BY <2>2, MmapsAssumption, SumOfZeros
    <2> QED
      BY <2>3 DEF P
  <1>5. SumInv
    BY <1>3, <1>4 DEF SumInv
  <1>6. LimitsInv
    BY LimitsAssumption DEF LimitsInv, ThresholdWithinLimits
  <1> QED
    BY <1>2, <1>5, <1>6 DEF MemoryInv

\* Every step keeps both, and so does one that changes nothing.
LEMMA NextMemory ==
  ASSUME IInv, IInv', MemoryInv, LimitsInv, [Next]_vars
  PROVE  MemoryInv' /\ LimitsInv'
  <1>1. ASSUME NEW t \in THREADS, Step(t) PROVE MemoryInv' /\ LimitsInv'
    BY <1>1, MemoryStep, LimitsStep
  <1>2. CASE UNCHANGED vars
    <2> USE <1>2 DEF vars, counters, parameters, locals
    <2>1. AllChunks' = AllChunks /\ mapped' = mapped
      BY DEF AllChunks
    <2>2. ChunksWhole' /\ NothingElse'
      BY <2>1, AsBefore DEF MemoryInv
    <2>3. NewAtTheirBegin'
      BY DEF MemoryInv, NewAtTheirBegin
    <2>4. SumInv'
      BY DEF MemoryInv, SumInv, Pending
    <2>5. LimitsInv'
      BY DEF LimitsInv, ThresholdWithinLimits, NoMallopt
    <2> QED
      BY <2>2, <2>3, <2>4, <2>5 DEF MemoryInv
  <1> QED
    BY <1>1, <1>2 DEF Next

\* The invariant of the mapped memory: every chunk covers its mapping and will
\* pass the checks of munmap_chunk, nothing else is mapped, mmapped_mem lacks
\* what the threads have still to add or have subtracted already, and a thread
\* that raises the threshold does so within the limits.
THEOREM MemoryInvariance == Spec => [](IInv /\ MemoryInv /\ LimitsInv)
  <1>1. Init => IInv /\ MemoryInv /\ LimitsInv
    BY InitInv, InitMemory
  <1>2. IInv /\ MemoryInv /\ LimitsInv /\ [Next]_vars => (IInv /\ MemoryInv /\ LimitsInv)'
    BY NextInv, NextMemory
  <1> QED
    BY <1>1, <1>2, PTL DEF Spec

\* sysmalloc, memalign, munmap_chunk and mremap_chunk account for the mapped
\* memory exactly, for any number of threads, mappings, sizes and alignments:
\* when no call is under way mmapped_mem is the sum of the kernel's mappings,
\* each of which belongs to a chunk of the program that covers all of it, and
\* none of their checks ever fails.
THEOREM MemoryExact == Spec => []MemoryIsExact
  <1>1. IInv /\ MemoryInv => MemoryIsExact
    <2> SUFFICES ASSUME IInv, MemoryInv PROVE MemoryIsExact
      OBVIOUS
    <2>1. ~abort
      BY DEF MemoryInv
    <2>2. ASSUME Quiet
          PROVE  /\ mmapped_mem = SumFunction(mapped)
                 /\ \A c \in held : mapped[c.block] = total_size(c)
                 /\ { b \in BLOCKS : mapped[b] # 0 } = { c.block : c \in held }
      <3>1. \A t \in THREADS : chunk[t] = NoChunk /\ orig[t] = NoChunk
        BY <2>2 DEF IInv, HandsMatchPlaces, HasChunk, HasOrig, Quiet
      <3>2. \A c : c \in AllChunks <=> c \in held
        <4> SUFFICES ASSUME NEW c PROVE c \in AllChunks <=> c \in held
          OBVIOUS
        <4>1. c \in held => c # NoChunk
          BY NoChunkIsNone DEF IInv, TypeOK, DataOK
        <4> QED
          BY <3>1, <4>1, Among
      <3>3. \A c \in held : Whole(c) /\ c \in ChunkType
        BY <3>2 DEF MemoryInv, ChunksWhole, IInv, TypeOK, DataOK
      <3>4. \A c \in held : mapped[c.block] = total_size(c) /\ c.block \in BLOCKS /\ mapped[c.block] # 0
        BY <3>3, Fields DEF Whole
      <3>5. \A b \in BLOCKS : mapped[b] # 0 => \E c \in held : c.block = b
        BY <3>2 DEF MemoryInv, NothingElse
      <3>6. mmapped_mem = SumFunction(mapped)
        <4> DEFINE P == [t \in THREADS |-> Pending(t)]
        <4>1. \A t \in THREADS : Pending(t) = 0
          BY <2>2 DEF Pending, Quiet
        <4>2. P \in [THREADS -> Int] /\ \A t \in THREADS : P[t] = 0
          BY <4>1
        <4>3. mmapped_mem = SumFunction(mapped) - SumFunction(P)
          BY DEF MemoryInv, SumInv
        <4> HIDE DEF P
        <4>4. SumFunction(P) = 0
          BY <4>2, MmapsAssumption, SumOfZeros
        <4>5. SumFunction(mapped) \in Int
          BY MmapsAssumption, SumType DEF IInv, TypeOK, DataOK
        <4> QED
          BY <4>3, <4>4, <4>5
      <3> QED
        BY <3>4, <3>5, <3>6
    <2> QED
      BY <2>1, <2>2 DEF MemoryIsExact
  <1> QED
    BY <1>1, MemoryInvariance, PTL

\* The dynamic threshold stays within its limits, though free compares without
\* a lock and raises later: between DEFAULT_MMAP_THRESHOLD and its maximum until
\* the first mallopt, and after it never above the maximum but by the user's value.
THEOREM ThresholdLimited == Spec => []ThresholdWithinLimits
  <1>1. LimitsInv => ThresholdWithinLimits
    BY DEF LimitsInv
  <1> QED
    BY <1>1, MemoryInvariance, PTL
=============================================================================
