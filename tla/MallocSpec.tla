----------------------------- MODULE MallocSpec -----------------------------
(***************************************************************************)
(* What malloc promises a program, whatever its lists look like: the       *)
(* memory of each allocation belongs to the process, overlaps neither      *)
(* another allocation nor memory that the program got from sbrk itself,    *)
(* and a call changes no allocation but the one it is about.               *)
(***************************************************************************)
EXTENDS Naturals

CONSTANTS
  HEADER,  \* the least distance of an allocation from address 0
  ALIGN    \* every allocation is a multiple of this

VARIABLES
  given,    \* start of an allocation -> the bytes the program may use
  foreign,  \* bytes the program got from sbrk
  mapped    \* bytes the kernel has given to the process

svars == <<given, foreign, mapped>>

Usable(g, p) == p .. p + g[p] - 1

\* The memory is as promised.
Sound(g, f, s) ==
  /\ f \subseteq s
  /\ \A p \in DOMAIN g :
       /\ p % ALIGN = 0 /\ p >= HEADER
       /\ Usable(g, p) \subseteq s \ f
       /\ \A q \in DOMAIN g \ {p} : Usable(g, p) \cap Usable(g, q) = {}

\* Allocations other than those of `ps` are what they were.
OthersKept(ps) ==
  \A p \in (DOMAIN given \cup DOMAIN given') \ ps :
    p \in DOMAIN given /\ p \in DOMAIN given' /\ given'[p] = given[p]

SInit == given = [p \in {} |-> 0] /\ foreign = {}

\* A call is about one allocation: it begins, ends, or is resized or moved.
SCall ==
  /\ \E old \in SUBSET DOMAIN given, new \in SUBSET DOMAIN given' :
       /\ \A p, q \in old : p = q
       /\ \A p, q \in new : p = q
       /\ OthersKept(old \cup new)
  /\ Sound(given', foreign, mapped')
  /\ UNCHANGED foreign

SForeign ==
  /\ foreign \subseteq foreign'
  /\ Sound(given, foreign', mapped')
  /\ UNCHANGED given

SNext == SCall \/ SForeign

SSpec == SInit /\ [][SNext]_svars
=============================================================================
