----------------------------- MODULE SizesCheck -----------------------------
(***************************************************************************)
(* What the size arithmetic of mem.c has to satisfy, compared with         *)
(* reference definitions, for one request q at a time.                     *)
(***************************************************************************)
EXTENDS Sizes

\* Reference: the page multiples that are representable as a size_t.
PageMultiples == { n \in 0 .. SIZE_T - 1 : n % PAGE_SIZE = 0 }

\* The requests whose size with the header, rounded up to pages, is still a
\* size_t: PAGE_SIZE short of 2^64.
Representable(q) == q + HEADER_SIZE <= SIZE_T - PAGE_SIZE

(***************************************************************************)
(* The length given to mmap (round_pages, region_actual_size) is the least *)
(* whole number of pages that is no shorter than the smallest region and   *)
(* that holds the request and a header.                                    *)
(***************************************************************************)
RegionIsLeastFit(q) ==
  Representable(q) =>
    LET fits == { n \in PageMultiples :
                    n >= q + HEADER_SIZE /\ n >= REGION_MIN_SIZE }
    IN  /\ region_size_for(q) \in fits
        /\ \A n \in fits : region_size_for(q) <= n

(***************************************************************************)
(* A region mapped for a request holds it exactly when nothing wrapped:    *)
(* the first block of a fresh region (block_init) is big enough for the    *)
(* request if and only if the request is at least a page and a header short*)
(* of 2^64.  Beyond that the region is smaller than what was asked for.    *)
(***************************************************************************)
RegionHoldsQueryUnlessWrapped(q) ==
  (capacity_from_size(region_size_for(q)) >= q) <=> Representable(q)
=============================================================================
