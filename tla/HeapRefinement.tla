--------------------------- MODULE HeapRefinement ---------------------------
(***************************************************************************)
(* Heap implements AllocSpec: the arena is the set of regions, what is     *)
(* held is what the client got from _malloc and has not given to _free.    *)
(* The merges, the walk along the list and the failures are stutters.      *)
(***************************************************************************)
EXTENDS HeapProps

Arena == { regions[i] : i \in DOMAIN regions }

RegionSizes ==
  { region_size_for(i) : i \in INITIALS }
  \cup { region_size_for(size_max(q, BLOCK_MIN_CAPACITY)) : q \in QUERIES }

PossibleRegions ==
  { [addr |-> a, size |-> s] :
      a \in { b \in 0 .. ADDRESS_TOP : IsPageAddress(b) }, s \in RegionSizes }

A == INSTANCE AllocSpec WITH
       Addresses <- 0 .. ADDRESS_TOP,
       Ranges <- PossibleRegions,
       Requests <- QUERIES,
       arena <- Arena,
       held <- live

(***************************************************************************)
(* Every step of mem.c is a step of the abstract allocator or invisible to *)
(* the client: _malloc gives memory of the heap that nobody holds, a call  *)
(* that fails takes nothing away, only _free ends an allocation.           *)
(***************************************************************************)
ImplementsAllocSpec == A!ASpec

(***************************************************************************)
(* No byte is in two allocations that the client holds.                    *)
(***************************************************************************)
HeldDisjoint == A!HeldDisjoint
=============================================================================
