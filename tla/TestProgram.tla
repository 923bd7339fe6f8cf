---------------------------- MODULE TestProgram ----------------------------
(***************************************************************************)
(* The program of main.c: the three tests of tests.c, one after the other, *)
(* each with a heap of its own that it unmaps at its end, and the dump of  *)
(* mem_debug.c that they print.  It is the client of module Heap, whose    *)
(* calls it makes in a fixed order; other code still maps pages, and mmap  *)
(* still may fail.                                                         *)
(***************************************************************************)
EXTENDS Heap, SequencesExt

HEAP_SIZE == 4096
BLOCK_SIZE == 256
DEBUG_FIRST_BYTES == 4

\* What each test asks _malloc for.
tests == << << BLOCK_SIZE >>,
            << BLOCK_SIZE, BLOCK_SIZE >>,
            << BLOCK_SIZE \div 2, BLOCK_SIZE * 2, BLOCK_SIZE >> >>

VARIABLES
  test,      \* the test that runs
  at,        \* where in it: "init", "malloc", "calling", "free", "freeing", "munmap", "end"
  heap,      \* what heap_init returned to it
  got,       \* what _malloc returned so far
  verdict    \* "running", "completed", or "failed" (main returns 1)

testvars == <<test, at, heap, got, verdict>>

TestInit ==
  /\ Init
  /\ test = 1 /\ at = "init" /\ heap = NULL /\ got = << >> /\ verdict = "running"

\* tests_run: && stops at the first test that fails.
tests_run(ok) ==
  IF ok /\ test < Len(tests)
  THEN test' = test + 1 /\ at' = "init" /\ heap' = NULL /\ got' = << >> /\ UNCHANGED verdict
  ELSE at' = "end" /\ verdict' = (IF ok THEN "completed" ELSE "failed") /\ UNCHANGED <<test, heap, got>>

InitHeap ==
  /\ at = "init"
  /\ heap_init(HEAP_SIZE)
  /\ heap' = regions'[Len(regions')].addr
  /\ at' = "malloc"
  /\ UNCHANGED <<test, got, verdict>>

InitFails ==
  /\ at = "init"
  /\ \E r \in alloc_region(HEAP_START, HEAP_SIZE) : region_is_invalid(r)
  /\ tests_run(FALSE)
  /\ UNCHANGED vars

CallMalloc ==
  LET q == tests[test][Len(got) + 1]
  IN  /\ at = "malloc" /\ Len(got) < Len(tests[test])
      /\ malloc(q) \/ malloc_no_heap(q)
      /\ at' = "calling"
      /\ UNCHANGED <<test, heap, got, verdict>>

\* A step of the call; its last one hands the program a pointer, or NULL.
RunCall ==
  /\ at \in {"calling", "freeing"}
  /\ Running
  /\ IF pc' # "idle" THEN UNCHANGED <<at, got>>
     ELSE IF at = "freeing" THEN at' = "munmap" /\ UNCHANGED got
     ELSE /\ at' = "malloc"
          /\ LET new == DOMAIN live' \ DOMAIN live
             IN  got' = Append(got, IF new = {} THEN NULL ELSE CHOOSE p \in new : TRUE)
  /\ UNCHANGED <<test, heap, verdict>>

\* The test looks at its pointers; where one is NULL it returns at once.
CheckBlocks ==
  /\ at = "malloc" /\ Len(got) = Len(tests[test])
  /\ IF \E i \in DOMAIN got : got[i] = NULL
     THEN tests_run(FALSE)
     ELSE at' = "free" /\ UNCHANGED <<test, heap, got, verdict>>
  /\ UNCHANGED vars

\* memory_free: only the first block is freed ...
FreeFirst ==
  /\ at = "free" /\ free(got[1])
  /\ at' = "freeing" /\ UNCHANGED <<test, heap, got, verdict>>

\* Mutant: the heap's header is not counted.
UnmapCapacity == round_pages(HEAP_SIZE)

\* munmap takes whole pages.
unmapped_size == round_pages(size_from_capacity(HEAP_SIZE))

\* ... then the memory of the heap goes, and with it what is in it.
Munmap ==
  LET gone(a) == heap <= a /\ a < heap + unmapped_size
      rest(r) == [addr |-> heap + unmapped_size, size |-> r.size - unmapped_size]
      kept(r) == IF ~gone(r.addr) THEN <<r>>
                 ELSE IF r.size > unmapped_size THEN <<rest(r)>> ELSE << >>
  IN  /\ at = "munmap"
      /\ regions' = FlattenSeq([i \in DOMAIN regions |-> kept(regions[i])])
      /\ hdr' = [b \in { a \in DOMAIN hdr : ~gone(a) } |-> hdr[b]]
      /\ live' = [p \in { a \in DOMAIN live : ~gone(a) } |-> live[p]]
      /\ heads' = heads \ {heap}
      /\ UNCHANGED <<foreign, pc, cur, request, query, grown>>
      /\ tests_run(TRUE)

Program ==
  InitHeap \/ InitFails \/ CallMalloc \/ RunCall \/ CheckBlocks \/ FreeFirst \/ Munmap

TestNext ==
  \/ Program
  \/ (OtherCode \/ Crashed) /\ UNCHANGED testvars

TestSpec == TestInit /\ [][TestNext]_<<vars, testvars>>

-----------------------------------------------------------------------------
(* The dump.                                                               *)

\* debug_struct_info: what is printed of a block, with the number of its bytes
\* that are read.
debug_struct_info(b) ==
  [ addr |-> b, capacity |-> hdr[b].capacity, is_free |-> hdr[b].is_free,
    bytes |-> IF hdr[b].capacity < DEBUG_FIRST_BYTES THEN hdr[b].capacity ELSE DEBUG_FIRST_BYTES ]

\* debug_heap: the blocks from ptr on, at most as many as there are.
debug_heap(ptr) ==
  LET dump[n \in 0 .. Cardinality(DOMAIN hdr)] ==
        IF n = 0 THEN << >>
        ELSE LET b == IF n = 1 THEN ptr
                      ELSE IF Len(dump[n - 1]) < n - 1 THEN NULL
                      ELSE hdr[dump[n - 1][n - 1].addr].next
             IN  IF b \in DOMAIN hdr THEN Append(dump[n - 1], debug_struct_info(b)) ELSE dump[n - 1]
  IN  dump[Cardinality(DOMAIN hdr)]

-----------------------------------------------------------------------------
(* Properties.                                                             *)

\* The tests do not disturb each other.  Each begins with nothing of the heaps
\* before it, for a heap left at HEAP_START would send the next one elsewhere;
\* and they fail only where heap_init does: no _malloc of theirs gives NULL, so
\* none of them returns with its heap still mapped.
TestsIndependent ==
  /\ at = "init" => regions = << >> /\ DOMAIN hdr = {} /\ DOMAIN live = {}
  /\ verdict = "failed" => regions = << >>

\* The dumps before and after the calls show every block of the heap once, the
\* blocks fill it from end to end, and as many are taken as the test got.
DumpShowsHeap ==
  at = "malloc" =>
    LET d == debug_heap(heap)
    IN  /\ Len(d) = Cardinality(DOMAIN hdr)
        /\ \A i \in 1 .. Len(d) - 1 : d[i + 1].addr = contents(d[i].addr) + d[i].capacity
        /\ contents(d[Len(d)].addr) + d[Len(d)].capacity = heap + unmapped_size
        /\ Cardinality({ i \in DOMAIN d : ~d[i].is_free }) = Len(got)
=============================================================================
