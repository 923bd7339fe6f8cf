-------------------------- MODULE MallocRefinement --------------------------
(***************************************************************************)
(* The program of MallocProgram sees the allocator of MallocSpec: an       *)
(* allocation is the part of a held chunk after its header, and the word   *)
(* that is the prev_size of the next chunk (musable).                      *)
(***************************************************************************)
EXTENDS ArenaProps

musable(a, p) == chunksize(a, p) - SIZE_SZ

S == INSTANCE MallocSpec WITH
       HEADER <- CHUNK_HDR_SZ,
       ALIGN <- MALLOC_ALIGNMENT,
       given <- [q \in { p + CHUNK_HDR_SZ : p \in held } |-> musable(m, q - CHUNK_HDR_SZ)],
       mapped <- (BREAK_START .. m.brk - 1) \cup (MMAP_START .. m.mmap_next - 1)

(***************************************************************************)
(* Every call, with foreign sbrk calls and refusals of the kernel between, *)
(* is a step of MallocSpec: no memory is given twice, none that is not the *)
(* arena's, and trimming takes nothing that is in use.                     *)
(***************************************************************************)
ImplementsMallocSpec == S!SSpec
=============================================================================
