------------------------------ MODULE MCArena ------------------------------
(***************************************************************************)
(* Small arenas for TLC, under several set-ups: the parameters of mp_, the *)
(* kernel and what the program asks for.  The numbers are scaled down      *)
(* together: a size_t is one unit, alignment is 2, so that the least chunk *)
(* is 4 and the small bins are for 4 and 6; the large bins are 4 wide, up  *)
(* to the last one.                                                        *)
(***************************************************************************)
EXTENDS Integers

CONSTANTS
  SIZE_SZ, MALLOC_ALIGNMENT, NSMALLBINS, NBINS, TCACHE_MAX_BINS, WORD_BITS,
  top_pad, MAX_ITERS, MMAP_AS_MORECORE_SIZE, MMAP_START,
  SETUPS   \* the set-ups of a run

VARIABLES setup, m, held, foreign, dirty

vars == <<setup, m, held, foreign, dirty>>

LARGE_STEPS == << [width |-> 4, last |-> 4, base |-> 2] >>

Arena(s) == INSTANCE MallocRefinement WITH
  DL_PAGESIZE <- s.pagesize, tcache_bins <- s.tcache_bins, tcache_count <- 1,
  tcache_unsorted_limit <- s.unsorted_limit, trim_threshold <- s.trim,
  FASTBIN_CONSOLIDATION_THRESHOLD <- s.consolidate, DEFAULT_MXFAST <- s.mxfast,
  BREAK_START <- s.brk, BREAK_LIMIT <- s.limit, MMAP_LIMIT <- s.mmap_limit,
  REQUESTS <- s.requests, CALLOCS <- s.callocs, REALLOCS <- s.reallocs,
  ALIGNMENTS <- s.alignments, PADS <- s.pads, MXFASTS <- s.mxfasts,
  FOREIGN <- s.foreign, KERNELS <- s.kernels, MAX_HELD <- s.held

Kernel(grow, fix, map, shrink) == [grow |-> grow, fix |-> fix, map |-> map, shrink |-> shrink]
Able == Kernel(TRUE, TRUE, TRUE, TRUE)

NoSbrk == Kernel(FALSE, TRUE, TRUE, TRUE)
Nothing == Kernel(FALSE, TRUE, FALSE, FALSE)

\* No thread cache, few pages, a kernel that grants everything.
Plain ==
  [ pagesize |-> 8, tcache_bins |-> 0, unsorted_limit |-> 0, trim |-> 16, consolidate |-> 10,
    mxfast |-> 3, brk |-> 4, limit |-> 24, mmap_limit |-> MMAP_START,
    requests |-> {3, 7}, callocs |-> {7}, reallocs |-> {0, 3}, alignments |-> {},
    pads |-> {0}, mxfasts |-> {0}, foreign |-> {}, kernels |-> {Able}, held |-> 3 ]

\* No fastbins, one long page: several sizes to a large bin.
Bins ==
  [ Plain EXCEPT !.pagesize = 30, !.trim = 100, !.consolidate = 100, !.mxfast = 0, !.brk = 30,
    !.limit = 60, !.requests = {3, 7, 9}, !.callocs = {}, !.reallocs = {}, !.pads = {},
    !.mxfasts = {}, !.held = 4 ]

\* A thread cache of one chunk for each of two sizes.
Tcache ==
  [ Plain EXCEPT !.tcache_bins = 2, !.limit = 32, !.requests = {3, 5}, !.callocs = {},
    !.reallocs = {}, !.pads = {}, !.mxfasts = {}, !.held = 3 ]

\* With a limit on the unsorted chunks that are looked at to fill it.
TcacheLimit ==
  [ Bins EXCEPT !.pagesize = 24, !.brk = 24, !.limit = 48, !.tcache_bins = 1,
    !.unsorted_limit = 1, !.requests = {3, 5}, !.held = 5 ]

ListSetups == {Plain, Bins, Tcache, TcacheLimit}

\* The program asks memalign for an alignment of 8; the kernel may refuse all.
Aligned ==
  [ Plain EXCEPT !.brk = 3, !.limit = 36, !.requests = {4, 7}, !.callocs = {}, !.reallocs = {9},
    !.alignments = {8}, !.pads = {}, !.mxfasts = {}, !.kernels = {Able, Nothing}, !.held = 2 ]

\* The program moves the break itself, by no multiple of the alignment.
ForeignSbrk ==
  [ Plain EXCEPT !.brk = 3, !.limit = 28, !.callocs = {7}, !.reallocs = {9}, !.pads = {4},
    !.mxfasts = {}, !.foreign = {3}, !.held = 2 ]

\* sbrk may be refused, in one call or the other.
MmapAsMorecore ==
  [ Plain EXCEPT !.brk = 8, !.mmap_limit = MMAP_START + 16, !.callocs = {7}, !.reallocs = {9},
    !.pads = {}, !.mxfasts = {}, !.foreign = {8}, !.held = 2,
    !.kernels = {Able, NoSbrk} ]

SystemSetups == {Aligned, ForeignSbrk, MmapAsMorecore}

Init == \E s \in SETUPS : setup = s /\ Arena(s)!Init

Next == UNCHANGED setup /\ \E s \in SETUPS : setup = s /\ Arena(s)!Next

Spec == Init /\ [][Next]_vars

-----------------------------------------------------------------------------
(* The properties of ArenaProps and MallocRefinement.  Those that try a    *)
(* further call in each state are for the set-up they were made for.       *)

MallocStateOK == \E s \in SETUPS : setup = s /\ Arena(s)!MallocStateOK
EveryChunkInOnePlace == \E s \in SETUPS : setup = s /\ Arena(s)!EveryChunkInOnePlace
InUseBitsRight == \E s \in SETUPS : setup = s /\ Arena(s)!InUseBitsRight
MemoryAccountedFor == \E s \in SETUPS : setup = s /\ Arena(s)!MemoryAccountedFor

AsksSystemOnlyIfNeeded == setup = Plain => Arena(Plain)!AsksSystemOnlyIfNeeded
AllFreedIsOneChunk == setup = Plain => Arena(Plain)!AllFreedIsOneChunk
BestFit == setup = Bins => Arena(Bins)!BestFit
EnoughAndAligned == setup = Aligned => Arena(Aligned)!EnoughAndAligned
CallocZeroes ==
  \A s \in SETUPS : setup = s /\ s.callocs # {} => Arena(s)!CallocZeroes

\* As the action property and the initial condition that it is.
ImplementsMallocSpec ==
  /\ \E s \in SETUPS : setup = s /\ Arena(s)!S!SInit
  /\ [][\E s \in SETUPS : setup = s /\ Arena(s)!S!SNext]_vars
=============================================================================
