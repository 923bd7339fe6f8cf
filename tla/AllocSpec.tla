------------------------------ MODULE AllocSpec ------------------------------
(***************************************************************************)
(* What an allocator promises its client, whatever its data structures:    *)
(* README.md, "zeroth approximation" (lines 28 to 47).  Memory for the     *)
(* heap comes in ranges that do not overlap; an allocation lies wholly in  *)
(* that memory, shares no byte with any allocation the client still holds, *)
(* and stays where it is until the client frees it.                        *)
(***************************************************************************)
EXTENDS Integers

CONSTANTS
  Addresses,  \* the addresses of the process
  Ranges,     \* the ranges that may be obtained for the heap, as [addr, size]
  Requests    \* the sizes a client may ask for

VARIABLES
  arena,  \* the ranges of memory obtained for the heap
  held    \* start of an allocation -> the size the client asked for

avars == <<arena, held>>

Apart(a, asize, b, bsize) == a + asize <= b \/ b + bsize <= a

InArena(a, size) ==
  \A x \in a .. a + size - 1 :
    \E r \in arena : r.addr <= x /\ x < r.addr + r.size

AInit == arena = {} /\ held = [a \in {} |-> 0]

Extend(new) ==
  /\ \A r \in arena : Apart(new.addr, new.size, r.addr, r.size)
  /\ arena' = arena \cup {new}
  /\ UNCHANGED held

Allocate(p, q) ==
  /\ p \notin DOMAIN held
  /\ InArena(p, q)
  /\ \A o \in DOMAIN held : Apart(p, q, o, held[o])
  /\ held' = [a \in DOMAIN held \cup {p} |-> IF a = p THEN q ELSE held[a]]
  /\ UNCHANGED arena

Release(p) ==
  /\ p \in DOMAIN held
  /\ held' = [a \in DOMAIN held \ {p} |-> held[a]]
  /\ UNCHANGED arena

ANext ==
  \/ \E new \in Ranges : Extend(new)
  \/ \E p \in Addresses, q \in Requests : Allocate(p, q)
  \/ \E p \in DOMAIN held : Release(p)

ASpec == AInit /\ [][ANext]_avars

\* No byte is promised twice.
HeldDisjoint ==
  \A p, q \in DOMAIN held : p < q => p + held[p] <= q
=============================================================================
