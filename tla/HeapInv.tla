------------------------------- MODULE HeapInv -------------------------------
(***************************************************************************)
(* The inductive invariant behind the safety properties of HeapProps.  The *)
(* parts about the block list are stated of any headers h and regions rs,  *)
(* so that a merge, a split and a new region each need one lemma.          *)
(***************************************************************************)
EXTENDS HeapProps

\* mmap gave whole pages, inside the address space, that do not overlap.
RegionsApart(rs) ==
  /\ rs \in Seq([addr : Nat, size : Nat])
  /\ \A i \in DOMAIN rs :
       /\ rs[i].size > 0
       /\ IsPageAddress(rs[i].addr)
       /\ IsPageAddress(rs[i].addr + rs[i].size)
       /\ rs[i].addr + rs[i].size <= ADDRESS_TOP
  /\ \A i, j \in DOMAIN rs :
       i # j => Disjoint(rs[i].addr, rs[i].size, rs[j].addr, rs[j].size)

HeadersTyped(h) ==
  /\ DOMAIN h \subseteq Nat \ {NULL}
  /\ h \in [DOMAIN h -> Header]

BlocksApart(h) ==
  /\ \A b \in DOMAIN h :
       h[b].capacity >= BLOCK_MIN_CAPACITY /\ block_after(h, b) <= ADDRESS_TOP
  /\ \A b, c \in DOMAIN h : b < c => block_after(h, b) <= c

Covers(h, rs) ==
  \A x \in 0 .. ADDRESS_TOP :
    (\E i \in DOMAIN rs : Inside(x, rs[i].addr, rs[i].size))
      <=> (\E b \in DOMAIN h : b <= x /\ x < block_after(h, b))

Linked(h, rs) ==
  \A b \in DOMAIN h :
    LET e == block_after(h, b)
    IN  (\E i \in DOMAIN rs : rs[i].addr < e /\ Inside(e, rs[i].addr, rs[i].size))
          => h[b].next = e

\* next leads to a block, and no two blocks share a successor.
NextValid(h) ==
  /\ \A b \in DOMAIN h : h[b].next # NULL => h[b].next \in DOMAIN h
  /\ \A b, c \in DOMAIN h : h[b].next # NULL /\ h[b].next = h[c].next => b = c

Layout(h, rs) ==
  HeadersTyped(h) /\ BlocksApart(h) /\ Covers(h, rs) /\ Linked(h, rs) /\ NextValid(h)

(***************************************************************************)
(* What a running call knows.  After grow_heap, the block the second       *)
(* search starts from is good, unless the size of the region wrapped:      *)
(* otherwise memalloc never returns an unfit block.                        *)
(***************************************************************************)
RunningCall ==
  /\ pc \in {"search", "grow"} => query = size_max(request, BLOCK_MIN_CAPACITY)
  /\ pc = "search" /\ grown =>
       /\ hdr[cur].is_free
       /\ query + HEADER_SIZE <= SIZE_T - PAGE_SIZE => hdr[cur].capacity >= query
       /\ hdr[cur].next = NULL
  /\ pc = "grow" => hdr[cur].next = NULL
  /\ pc = "free" => hdr[cur].is_free

\* The inductive invariant, whatever sizes the client asks for ...
HInv ==
  /\ TypeOK
  /\ RegionsApart(regions)
  /\ Layout(hdr, regions)
  /\ CursorOnBlock
  /\ RunningCall
  /\ AllocatedBlocks

\* ... and of a client that asks for those of Spec.
IInv ==
  /\ HInv
  /\ pc \in {"search", "grow"} => request \in QUERIES

-----------------------------------------------------------------------------
(***************************************************************************)
(* The order of the list, which module ListProofs adds to IInv.            *)
(***************************************************************************)

\* Before, of any regions.
Earlier(rs, x, y) ==
  \E i, j \in DOMAIN rs :
    /\ Inside(x, rs[i].addr, rs[i].size) /\ Inside(y, rs[j].addr, rs[j].size)
    /\ i < j \/ (i = j /\ x < y)

\* A block may have grown over several regions, which then are in order, and
\* its successor lies behind all of it.
Ordered(h, rs) ==
  \A b \in DOMAIN h : \A x \in b .. block_after(h, b) - 1 :
    /\ \A y \in b .. block_after(h, b) - 1 : x < y => Earlier(rs, x, y)
    /\ h[b].next # NULL => Earlier(rs, x, h[b].next)

\* The successor of a block of the list is the first of those behind it, and
\* HEAP_START comes first.  Stray heads are single blocks.
Chained(h, rs, stray) ==
  /\ \A b \in stray : b \in DOMAIN h /\ h[b].is_free /\ h[b].next = NULL
  /\ \A b \in DOMAIN h : h[b].next \notin stray
  /\ \A b, c \in DOMAIN h \ stray :
       Earlier(rs, b, c) =>
         /\ h[b].next # NULL
         /\ c = h[b].next \/ Earlier(rs, h[b].next, c)
  /\ \A b \in DOMAIN h \ stray :
       /\ HEAP_START \in DOMAIN h
       /\ b = HEAP_START \/ Earlier(rs, HEAP_START, b)

ListInv ==
  /\ Ordered(hdr, regions)
  /\ Chained(hdr, regions, StrayHeads)
  /\ pc \in {"search", "grow", "free"} => cur \in Listed
  /\ SearchedBlocksAreUnfit
=============================================================================
