------------------------------ MODULE HeapProps ------------------------------
(***************************************************************************)
(* What makes the heap of mem.c correct, stated of module Heap.            *)
(***************************************************************************)
EXTENDS Heap

Blocks == DOMAIN hdr

Header == [next : Nat, capacity : Nat, is_free : BOOLEAN]

\* Types of the state; while nothing runs, the locals of a call are gone.
TypeOK ==
  /\ RegionTypeOK
  /\ Blocks \subseteq Nat \ {NULL}
  /\ hdr \in [Blocks -> Header]
  /\ DOMAIN live \subseteq Nat
  /\ live \in [DOMAIN live -> Nat]
  /\ pc \in {"idle", "search", "grow", "free", "undefined"}
  /\ cur \in Nat /\ request \in Nat /\ query \in Nat
  /\ grown \in BOOLEAN
  /\ heads \subseteq Nat

Inside(x, a, size) == a <= x /\ x < a + size

InBlock(x, b) == b <= x /\ x < block_after(hdr, b)

InRegion(x, i) == Inside(x, regions[i].addr, regions[i].size)

\* Regions in the order they were mapped, addresses upward within a region:
\* the order in which the list visits memory.
Before(x, y) ==
  \E i, j \in DOMAIN regions :
    /\ InRegion(x, i) /\ InRegion(y, j)
    /\ i < j \/ (i = j /\ x < y)

\* heap_init calls that found HEAP_START taken made a heap nobody uses.
StrayHeads == heads \ {HEAP_START}

Listed == Blocks \ StrayHeads

-----------------------------------------------------------------------------
(***************************************************************************)
(* No byte belongs to two blocks, header included, and every block has at  *)
(* least BLOCK_MIN_CAPACITY bytes of contents.  At risk in                 *)
(* split_if_too_big and in try_merge_with_next, which compute addresses and*)
(* sizes of headers in the middle of raw memory.                           *)
(***************************************************************************)
BlocksDisjoint ==
  /\ \A b \in Blocks : hdr[b].capacity >= BLOCK_MIN_CAPACITY
  /\ \A b, c \in Blocks : b < c => block_after(hdr, b) <= c

(***************************************************************************)
(* The blocks fill the regions (README.md:60): a byte is in some block     *)
(* exactly when it is in a region that mmap gave to the heap.  A byte no   *)
(* block owns is lost for good; a block beyond its region is a fault.      *)
(***************************************************************************)
BlocksFillRegions ==
  \A x \in 0 .. ADDRESS_TOP :
    (\E i \in DOMAIN regions : InRegion(x, i)) <=> (\E b \in Blocks : InBlock(x, b))

(***************************************************************************)
(* A block that ends inside a region is linked to the block that starts    *)
(* there, so that neighbours in memory can find each other to merge.       *)
(***************************************************************************)
NeighboursLinked ==
  \A b \in Blocks :
    LET e == block_after(hdr, b)
    IN  (\E i \in DOMAIN regions : regions[i].addr < e /\ InRegion(e, i))
          => hdr[b].next = e

(***************************************************************************)
(* Following next always leads to a block, and to a later one: the list    *)
(* has no cycle and no dangling pointer after any number of splits, merges *)
(* and growths, wherever mmap put the regions.                             *)
(***************************************************************************)
ListOrdered ==
  \A b \in Blocks :
    hdr[b].next # NULL => hdr[b].next \in Blocks /\ Before(b, hdr[b].next)

(***************************************************************************)
(* Every block of the heap at HEAP_START can be reached from HEAP_START,   *)
(* where _malloc begins (mem.c:217); only what heap_init put elsewhere     *)
(* cannot.  A block off the list is memory that is never used again.       *)
(***************************************************************************)
EveryBlockListed ==
  LET reach[n \in 0 .. Cardinality(Blocks)] ==
        IF n = 0 THEN {HEAP_START} \cap Blocks
        ELSE reach[n - 1] \cup ({ hdr[b].next : b \in reach[n - 1] } \cap Blocks)
  IN  reach[Cardinality(Blocks)] = Listed

(***************************************************************************)
(* The pointer that a running call holds is a block, never a header that a *)
(* merge has absorbed (stale state between iterations of the loops).       *)
(***************************************************************************)
CursorOnBlock == pc \in {"search", "grow", "free"} => cur \in Blocks

(***************************************************************************)
(* The blocks in use are exactly those the client holds, and each has room *)
(* for what the client asked for: nothing is handed out twice, nothing is  *)
(* lost, and memalloc "returns the header of the allocated block"          *)
(* (mem.c:196).                                                            *)
(***************************************************************************)
AllocatedBlocks ==
  /\ \A p \in DOMAIN live :
       /\ block_get_header(p) \in Blocks
       /\ ~hdr[block_get_header(p)].is_free
       /\ hdr[block_get_header(p)].capacity >= live[p]
  /\ \A b \in Blocks : ~hdr[b].is_free => contents(b) \in DOMAIN live

(***************************************************************************)
(* The search is first fit and leaves nothing unmerged behind: a block of  *)
(* the list before the cursor is in use, or too small and not mergeable    *)
(* with its neighbour.  When grow_heap runs this holds of the whole list:  *)
(* the heap grows only if no run of adjacent free blocks has room.         *)
(***************************************************************************)
SearchedBlocksAreUnfit ==
  /\ pc = "search" => \A b \in Listed : Before(b, cur) => IsPassed(b)
  /\ pc = "grow" => \A b \in Listed : IsPassed(b)

(***************************************************************************)
(* The last block ends where a region ends, so that the address at which   *)
(* grow_heap asks for more (block_after(last)) starts a page and is the    *)
(* edge of the heap: MAP_FIXED_NOREPLACE would refuse any other.           *)
(***************************************************************************)
GrowsAtRegionEnd ==
  pc = "grow" =>
    LET e == block_after(hdr, cur)
    IN  /\ IsPageAddress(e)
        /\ \E i \in DOMAIN regions : e = regions[i].addr + regions[i].size

(***************************************************************************)
(* While the client holds an allocation, no step writes a header into its  *)
(* contents, and its own header keeps its capacity and its mark.           *)
(***************************************************************************)
HeldUntouchedStep ==
  \A p \in DOMAIN live \cap DOMAIN live' :
    LET b == block_get_header(p)
    IN  /\ b \in DOMAIN hdr'
        /\ hdr'[b].capacity = hdr[b].capacity
        /\ hdr'[b].is_free = hdr[b].is_free
        /\ \A c \in DOMAIN hdr' :
             (c \notin Blocks \/ hdr'[c] # hdr[c]) => Disjoint(c, HEADER_SIZE, p, live[p])

HeldMemoryUntouched == [][HeldUntouchedStep]_vars

(***************************************************************************)
(* Every call returns: no list the heap can get into makes the loops of    *)
(* find_good_or_last or _free run for ever, and memalloc searches at most  *)
(* twice.                                                                  *)
(***************************************************************************)
CallsReturn == (pc \in {"search", "grow", "free"}) ~> (pc = "idle")

(***************************************************************************)
(* A heap that heap_init returned is one that _malloc can serve from:      *)
(* README.md:78, "the heap is given by the reference to the header of its  *)
(* first block", and tests.c:20-28, where every result but NULL is used.   *)
(***************************************************************************)
InitialisedHeapUsable == heads # {} => pc # "undefined"
=============================================================================
