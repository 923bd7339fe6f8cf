---------------------------- MODULE AddressSpace ----------------------------
(***************************************************************************)
(* The address space of the process as the allocator sees it through mmap, *)
(* and alloc_region, the only caller of mmap.                              *)
(*                                                                         *)
(* The kernel and the other code of the process are external: what is      *)
(* modelled of them is what mem.c relies on.  mmap returns whole pages     *)
(* that nothing else occupies, or MAP_FAILED; with MAP_FIXED_NOREPLACE it  *)
(* returns the address it was given, without it any free range.  It may    *)
(* fail at any call (ENOMEM), which is also how the limit on the number of *)
(* mappings shows.  Other code (libc, the loader, the caller) maps and     *)
(* unmaps pages of its own at any moment.                                  *)
(***************************************************************************)
EXTENDS Sizes, Sequences

CONSTANTS
  HEAP_START,     \* the fixed address where _malloc looks for the heap
  ADDRESS_TOP,    \* the first address beyond the process's address space
  MMAP_PAGES,     \* addresses at which mmap may place a mapping of its choice
  FOREIGN_PAGES,  \* addresses of the pages that other code may map
  MAX_REGIONS     \* bound: the most regions the kernel lets the heap map

VARIABLES
  regions,  \* the regions mapped for the heap, in the order they were mapped
  foreign   \* the pages mapped at the moment by other code

NULL == 0
MAP_FAILED == -1

IsPageAddress(a) == a > 0 /\ a % PAGE_SIZE = 0

(***************************************************************************)
(* User addresses are far below 2^64: no sum of an address, a header and   *)
(* a minimal capacity wraps.                                               *)
(***************************************************************************)
ASSUME AddressAssumption ==
  /\ HEAP_START \in Nat
  /\ ADDRESS_TOP \in Nat
  /\ ADDRESS_TOP + HEADER_SIZE + BLOCK_MIN_CAPACITY < SIZE_T
  /\ IsPageAddress(HEAP_START)
  /\ MMAP_PAGES \subseteq Nat
  /\ FOREIGN_PAGES \subseteq Nat
  /\ \A a \in MMAP_PAGES \cup FOREIGN_PAGES : IsPageAddress(a)
  /\ MAX_REGIONS \in Nat

Disjoint(a, asize, b, bsize) == a + asize <= b \/ b + bsize <= a

RegionsAvoid(a, size) ==
  \A i \in DOMAIN regions : Disjoint(a, size, regions[i].addr, regions[i].size)

IsFreeRange(a, size) ==
  /\ a + size <= ADDRESS_TOP
  /\ RegionsAvoid(a, size)
  /\ \A p \in foreign : Disjoint(a, size, p, PAGE_SIZE)

\* The results that mmap may give; MAP_FIXED_NOREPLACE is the flag "fixed".
map_pages(addr, length, fixed) ==
  { a \in IF fixed THEN {addr} ELSE MMAP_PAGES :
      /\ IsPageAddress(a)
      /\ Len(regions) < MAX_REGIONS
      /\ IsFreeRange(a, length) }
  \cup {MAP_FAILED}

REGION_INVALID == [addr |-> NULL, size |-> 0, extends |-> FALSE]

region_is_invalid(r) == r.addr = NULL

\* At addr if that range is free, else wherever mmap finds room, else nothing.
\* `extends` compares the address that came back with the one asked for.
alloc_region(addr, query) ==
  LET size == region_size_for(query)
      mapped == UNION { IF a = MAP_FAILED THEN map_pages(addr, size, FALSE) ELSE {a} :
                          a \in map_pages(addr, size, TRUE) }
  IN  { IF a = MAP_FAILED THEN REGION_INVALID
                          ELSE [addr |-> a, size |-> size, extends |-> a = addr] :
          a \in mapped }

\* The mapping that a successful alloc_region leaves in the address space.
RegionsWith(r) == Append(regions, [addr |-> r.addr, size |-> r.size])

SpaceInit == regions = << >> /\ foreign \in SUBSET FOREIGN_PAGES

ForeignMap(p) ==
  /\ p \notin foreign
  /\ RegionsAvoid(p, PAGE_SIZE)
  /\ foreign' = foreign \cup {p}
  /\ UNCHANGED regions

ForeignUnmap(p) ==
  /\ p \in foreign
  /\ foreign' = foreign \ {p}
  /\ UNCHANGED regions

RegionTypeOK ==
  /\ regions \in Seq([addr : Nat, size : Nat])
  /\ foreign \in SUBSET FOREIGN_PAGES
=============================================================================
