------------------------------ MODULE LargeBin ------------------------------
(***************************************************************************)
(* One large bin with its pointers.  Its chunks are on a ring through the  *)
(* bin (fd towards the smaller ones, bk back), and the first of each size  *)
(* on a second ring (fd_nextsize, bk_nextsize).  Everywhere else the bin   *)
(* is a sequence; this module is why that may be done.                     *)
(***************************************************************************)
EXTENDS Chunks

CONSTANTS
  CHUNKS,  \* chunks whose size falls in the bin
  SIZES,   \* their sizes
  NEEDS,   \* sizes that are looked for in the bin
  BIN,     \* the bin itself, as a node of the ring
  ALIAS,   \* what fd_nextsize of the bin reads: a pointer of the next bin
  NULL

\* All of it is about one bin; what fd_nextsize of the bin reads is never NULL,
\* since a bin points at least to itself.
ASSUME LargeBinAssumption ==
  /\ IsFiniteSet(CHUNKS)
  /\ SIZES \in [CHUNKS -> Nat] /\ NEEDS \subseteq Nat
  /\ \A p \in CHUNKS, nb \in NEEDS : largebin_index(SIZES[p]) = largebin_index(nb)
  /\ BIN \notin CHUNKS /\ NULL \notin CHUNKS \cup {BIN, ALIAS}

VARIABLES
  fd, bk,                    \* of chunks and of the bin
  fd_nextsize, bk_nextsize,  \* of chunks
  corrupt                    \* a check of the links has failed

lvars == <<fd, bk, fd_nextsize, bk_nextsize, corrupt>>

Nodes == CHUNKS \cup {BIN}

first == fd[BIN]
last  == bk[BIN]

\* link, followed n times from node v.
Follow(link, v, n) ==
  LET at[i \in 0 .. n] == IF i = 0 THEN v ELSE link[at[i - 1]] IN at[n]

\* The chunks on the ring, from the first to the last.
Walk ==
  LET n == Min({ i \in 1 .. Cardinality(Nodes) : Follow(fd, BIN, i) = BIN })
  IN  [i \in 1 .. n - 1 |-> Follow(fd, BIN, i)]

LInit ==
  /\ fd = [p \in Nodes |-> IF p = BIN THEN BIN ELSE NULL]
  /\ bk = fd
  /\ fd_nextsize = [p \in Nodes |-> IF p = BIN THEN ALIAS ELSE NULL]
  /\ bk_nextsize = fd_nextsize
  /\ corrupt = FALSE

\* Where the loop of the insertion stops: at the first of a size that is no
\* longer.
stops_at(size) ==
  LET n == Min({ i \in 0 .. Cardinality(CHUNKS) : SIZES[Follow(fd_nextsize, first, i)] <= size })
  IN  Follow(fd_nextsize, first, n)

\* Put p between bck and fwd.
link_between(p, bck, fwd) ==
  /\ fd' = [fd EXCEPT ![p] = fwd, ![bck] = p]
  /\ bk' = [bk EXCEPT ![p] = bck, ![fwd] = p]

\* p becomes the first of its size, before next on the ring of sizes.
link_size(p, next) ==
  LET prev == bk_nextsize[next]
  IN  /\ fd_nextsize' = [fd_nextsize EXCEPT ![p] = next, ![prev] = p]
      /\ bk_nextsize' = [bk_nextsize EXCEPT ![p] = prev, ![next] = p]

insert_into_empty(p) ==
  /\ first = BIN
  /\ fd_nextsize' = [fd_nextsize EXCEPT ![p] = p]
  /\ bk_nextsize' = [bk_nextsize EXCEPT ![p] = p]
  /\ link_between(p, BIN, first)
  /\ UNCHANGED corrupt

insert_smallest(p) ==
  /\ first # BIN /\ SIZES[p] < SIZES[last]
  /\ link_size(p, first)
  /\ link_between(p, last, BIN)
  /\ UNCHANGED corrupt

\* Mutant: an equal goes in front of the first of its size.
InsertInFront(p) ==
  LET stop == stops_at(SIZES[p])
  IN  /\ first # BIN /\ SIZES[p] >= SIZES[last] /\ SIZES[stop] = SIZES[p]
      /\ corrupt' = (corrupt \/ fd[bk[stop]] # stop)
      /\ link_between(p, bk[stop], stop)
      /\ UNCHANGED <<fd_nextsize, bk_nextsize>>

\* Always the second position, so that the ring of sizes stays as it is.
insert_second(p) ==
  LET stop == stops_at(SIZES[p])
      fwd  == fd[stop]
  IN  /\ first # BIN /\ SIZES[p] >= SIZES[last] /\ SIZES[stop] = SIZES[p]
      /\ corrupt' = (corrupt \/ fd[bk[fwd]] # fwd)
      /\ link_between(p, bk[fwd], fwd)
      /\ UNCHANGED <<fd_nextsize, bk_nextsize>>

insert_new_size(p) ==
  LET stop == stops_at(SIZES[p])
  IN  /\ first # BIN /\ SIZES[p] >= SIZES[last] /\ SIZES[stop] # SIZES[p]
      /\ corrupt' = (corrupt \/ fd_nextsize[bk_nextsize[stop]] # stop \/ fd[bk[stop]] # stop)
      /\ link_size(p, stop)
      /\ link_between(p, bk[stop], stop)

\* A chunk of the unsorted list, whose fd_nextsize is NULL, is put in the bin.
place(p) ==
  /\ fd[p] = NULL
  /\ insert_into_empty(p) \/ insert_smallest(p) \/ insert_second(p) \/ insert_new_size(p)

\* Mutant: the next of the same size does not take p's place.
SizeNotInherited(p) ==
  /\ fd_nextsize' = [fd_nextsize EXCEPT ![bk_nextsize[p]] = fd_nextsize[p], ![p] = NULL]
  /\ bk_nextsize' = [bk_nextsize EXCEPT ![fd_nextsize[p]] = bk_nextsize[p], ![p] = NULL]

\* The ring of sizes without p, the first of its size.
unlink_size(p) ==
  LET heir == fd[p]
      next == fd_nextsize[p]
      prev == bk_nextsize[p]
  IN  IF fd_nextsize[heir] # NULL
      THEN /\ fd_nextsize' = [fd_nextsize EXCEPT ![prev] = next, ![p] = NULL]
           /\ bk_nextsize' = [bk_nextsize EXCEPT ![next] = prev, ![p] = NULL]
      ELSE IF next = p
      THEN /\ fd_nextsize' = [fd_nextsize EXCEPT ![heir] = heir, ![p] = NULL]
           /\ bk_nextsize' = [bk_nextsize EXCEPT ![heir] = heir, ![p] = NULL]
      ELSE /\ fd_nextsize' = [fd_nextsize EXCEPT ![heir] = next, ![prev] = heir, ![p] = NULL]
           /\ bk_nextsize' = [bk_nextsize EXCEPT ![heir] = prev, ![next] = heir, ![p] = NULL]

\* unlink_chunk of module Chunks, with its pointers.  That it leaves those of
\* p NULL stands for whatever is done with p next.
unlink(p) ==
  /\ fd[p] # NULL
  /\ fd' = [fd EXCEPT ![bk[p]] = fd[p], ![p] = NULL]
  /\ bk' = [bk EXCEPT ![fd[p]] = bk[p], ![p] = NULL]
  /\ IF fd_nextsize[p] = NULL
     THEN /\ corrupt' = (corrupt \/ bk[fd[p]] # p \/ fd[bk[p]] # p)
          /\ UNCHANGED <<fd_nextsize, bk_nextsize>>
     ELSE /\ corrupt' = \/ corrupt \/ bk[fd[p]] # p \/ fd[bk[p]] # p
                        \/ bk_nextsize[fd_nextsize[p]] # p \/ fd_nextsize[bk_nextsize[p]] # p
          /\ unlink_size(p)

\* Mutant: the search on the ring of sizes begins at the long end.
LongestVictim(nb) == first

\* The chunk that malloc takes for nb bytes: from the smallest up the ring of
\* sizes, then the second of that size if there is one.
skip_victim(nb) ==
  LET n == Min({ i \in 1 .. Cardinality(CHUNKS) : SIZES[Follow(bk_nextsize, first, i)] >= nb })
      v == Follow(bk_nextsize, first, n)
  IN  IF v # last /\ SIZES[v] = SIZES[fd[v]] THEN fd[v] ELSE v

take(nb) ==
  /\ first # BIN /\ SIZES[first] >= nb
  /\ unlink(skip_victim(nb))

LNext ==
  \/ \E p \in CHUNKS : place(p) \/ unlink(p)
  \/ \E nb \in NEEDS : take(nb)

LSpec == LInit /\ [][LNext]_lvars

-----------------------------------------------------------------------------

\* An arena with this bin, for the operators of module Chunks.
AsArena(bin) ==
  [ head |-> [p \in CHUNKS |-> [size |-> SIZES[p]]],
    bins |-> [i \in { largebin_index(SIZES[p]) : p \in CHUNKS } |-> bin] ]

(***************************************************************************)
(* The ring of sizes has exactly the first chunk of each size, from the    *)
(* longest to the shortest and back, after any insertions and removals;    *)
(* and none of the checks of the links in unlink_chunk and in the          *)
(* insertion has a false alarm.                                            *)
(***************************************************************************)
SizeRingIsFirsts ==
  LET bin    == Walk
      heads  == { i \in DOMAIN bin : i = 1 \/ SIZES[bin[i - 1]] # SIZES[bin[i]] }
      after(i) == IF i = Max(heads) THEN 1 ELSE Min({ j \in heads : j > i })
  IN  /\ ~corrupt
      /\ { p \in CHUNKS : fd_nextsize[p] # NULL } = { bin[i] : i \in heads }
      /\ \A i \in heads : /\ fd_nextsize[bin[i]] = bin[after(i)]
                          /\ bk_nextsize[bin[after(i)]] = bin[i]

(***************************************************************************)
(* The search along the ring of sizes finds the chunk that a search of the *)
(* whole bin finds: of the smallest that fit the second, else the first.   *)
(***************************************************************************)
SkipSearchIsBestFit ==
  \A nb \in NEEDS :
    first # BIN /\ SIZES[first] >= nb => skip_victim(nb) = large_victim(AsArena(Walk), nb)

(***************************************************************************)
(* The ring read from its head is the sequence that place_in_bin and       *)
(* unlink_chunk of module Chunks make of it, step by step.                 *)
(***************************************************************************)
PlacesAndUnlinksAsSequence ==
  [][ LET old == Walk
          new == Walk'
      IN  \/ \E p \in CHUNKS \ ToSet(old) :
               new = InsertAt(old, large_position(AsArena(old), old, SIZES[p]), p)
          \/ \E i \in DOMAIN old : new = RemoveAt(old, i) ]_lvars
=============================================================================
