---------------------------- MODULE MallocProgram ----------------------------
(***************************************************************************)
(* A program of one thread that uses malloc: it calls the public functions *)
(* in any order, frees and reallocates only what it was given and still    *)
(* holds, writes to all of it, and moves the break for its own purposes    *)
(* (a foreign sbrk) between calls.                                         *)
(***************************************************************************)
EXTENDS Arena

CONSTANTS
  REQUESTS,    \* sizes the program asks of malloc and memalign
  CALLOCS,     \* sizes it asks of calloc
  REALLOCS,    \* sizes it asks of realloc
  ALIGNMENTS,  \* alignments it asks memalign for
  PADS,        \* arguments of malloc_trim
  MXFASTS,     \* values it sets M_MXFAST to
  FOREIGN,     \* amounts it moves the break by
  KERNELS,     \* what the kernel may do in a call
  MAX_HELD     \* bound: allocations held at a time

VARIABLES
  m,        \* the arena
  held,     \* the chunks the program holds
  foreign,  \* the bytes of its own sbrk calls
  dirty     \* the bytes the program or malloc may have written to

vars == <<m, held, foreign, dirty>>

Kernel(grow, fix, map, shrink) == [grow |-> grow, fix |-> fix, map |-> map, shrink |-> shrink]

\* The bytes of the chunks other than top, and the header of top.
Written(a) ==
  UNION { p .. p + chunksize(a, p) - 1 : p \in DOMAIN a.head \ {a.top} } \cup (a.top .. a.top + CHUNK_HDR_SZ - 1)

\* After a call: the kernel clears the pages it took back.  Nothing but calloc
\* depends on this, and it is not followed for a program without calloc.
Wrote(a) ==
  { b \in dirty \cup Written(a) :
      CALLOCS # {} /\ (b < AlignUp(a.brk, pagesize) \/ b >= MMAP_START) }

\* A call that leaves the arena a.
Called(a) == m' = a /\ dirty' = Wrote(a) /\ UNCHANGED foreign

\* An allocation that returns r.
Returns(r) ==
  /\ Called(r.m)
  /\ held' = IF r.p = NoChunk THEN held ELSE held \cup {r.p}

Running == m.abort = "none"

Room == Cardinality(held) < MAX_HELD

Init == m = malloc_init_state /\ held = {} /\ foreign = {} /\ dirty = {}

Malloc == Running /\ Room /\ \E n \in REQUESTS, k \in KERNELS : Returns(libc_malloc(m, n, k))

Calloc == Running /\ Room /\ \E n \in CALLOCS, k \in KERNELS : Returns(libc_calloc(m, n, k))

Memalign ==
  Running /\ Room /\ \E a \in ALIGNMENTS, n \in REQUESTS, k \in KERNELS : Returns(mid_memalign(m, a, n, k))

Free ==
  /\ Running
  /\ \E p \in held, k \in KERNELS : Called(libc_free(m, p, k)) /\ held' = held \ {p}

\* A reallocation that fails leaves the old one; one to 0 bytes frees it.
Reallocated(p, n, r) ==
  /\ Called(r.m)
  /\ held' = IF n > 0 /\ r.p = NoChunk THEN held ELSE (held \ {p}) \cup ({r.p} \ {NoChunk})

Realloc ==
  Running /\ \E p \in held, n \in REALLOCS, k \in KERNELS : Reallocated(p, n, libc_realloc(m, p, n, k))

Trim ==
  Running /\ \E pad \in PADS, k \in KERNELS : Called(mtrim(m, pad, k).m) /\ UNCHANGED held

Mallopt ==
  Running /\ \E value \in MXFASTS : Called(mallopt_mxfast(m, value)) /\ UNCHANGED held

ForeignSbrk ==
  /\ Running
  /\ \E n \in FOREIGN :
       /\ m.brk + n <= BREAK_LIMIT
       /\ m' = [m EXCEPT !.brk = @ + n]
       /\ foreign' = foreign \cup (m.brk .. m.brk + n - 1)
       /\ dirty' = IF CALLOCS = {} THEN {} ELSE dirty \cup (m.brk .. m.brk + n - 1)
  /\ UNCHANGED held

Next ==
  \/ Malloc \/ Calloc \/ Memalign \/ Free \/ Realloc \/ Trim \/ Mallopt \/ ForeignSbrk

Spec == Init /\ [][Next]_vars
=============================================================================
