--------------------------- MODULE FastFreeProps ---------------------------
(***************************************************************************)
(* What has to hold of the chunks, the sizes and the caches while threads  *)
(* run through module FastFree, and the inductive invariant it rests on.   *)
(***************************************************************************)
EXTENDS FastFree, Integers

(* Where a chunk is.                                                       *)

Lists == UNION { [1 .. n -> CHUNKS] : n \in 0 .. LAST }

\* s, from its last element back to its first, is the list that begins at c.
IsList(c, s) ==
  /\ c = IF s = <<>> THEN NULL ELSE s[Len(s)]
  /\ \A i \in DOMAIN s : fd[s[i]] = IF i = 1 THEN NULL ELSE s[i - 1]

\* The indices at which c is in a sequence.
IndicesOf(c, s) == { i \in DOMAIN s : s[i] = c }

\* The places of chunk c: in the bins or top, with the program, in the fastbin
\* or the list a thread consolidates, and with a thread: in its cache, among
\* the chunks it has still to free, or the one it is allocating or freeing.
PlacesOf(c, fast, walked) ==
  (IF c \in free_mem THEN { <<"mem">> } ELSE {})
  \cup { <<"held", a>> : a \in { b \in held : c \in b } }
  \cup { <<"fast", i>> : i \in IndicesOf(c, fast) }
  \cup { <<"walked", i>> : i \in IndicesOf(c, walked) }
  \cup (UNION { { <<"cache", t, i>> : i \in IndicesOf(c, tcache[t]) } : t \in THREADS })
  \cup (UNION { { <<"rest", t, i>> : i \in IndicesOf(c, rest[t]) } : t \in THREADS })
  \cup { <<"call", t>> : t \in { u \in THREADS : p[u] = c } }

\* walked is the list that is being consolidated, and every chunk has one place.
OnePlaceEach(fast, walked) ==
  /\ \A t \in THREADS : pc[t] = "walk" => IsList(list[t], walked)
  /\ (\A t \in THREADS : pc[t] # "walk") => walked = <<>>
  /\ \A c \in CHUNKS : \E x \in PlacesOf(c, fast, walked) : PlacesOf(c, fast, walked) = {x}

\* Every chunk is in exactly one place, whatever pushes, pops and exchanges
\* run at the same time: no free is lost, nothing is handed out twice, and no
\* list runs in a circle.
EachChunkOnce ==
  \E fast \in Lists : IsList(fb, fast) /\ \E walked \in Lists : OnePlaceEach(fast, walked)

-----------------------------------------------------------------------------

\* Correct calls never end in malloc_printerr, although a free compares sizes
\* that another thread is changing.
NoFalseAlarm == ~abort

\* Once a thread's cache was shut down and the thread is in no call, it has no
\* cache and no chunk is stranded in one, also not by calls after the shutdown.
EndedThreadHasNothing ==
  \A t \in THREADS : gone[t] = "ended" /\ pc[t] = "idle" =>
    tcache[t] = <<>> /\ structs[t] = 0

\* If the program stops calling, every call returns.
CallsReturn ==
  <>[][\A t \in THREADS : ~Calls(t)]_vars => <>[](\A t \in THREADS : pc[t] = "idle")

-----------------------------------------------------------------------------
(* The inductive invariant.                                                *)

\* The places of the code: those of a free that has a chunk in hand, and those
\* under the lock.
Freeing == { "put", "next", "compare", "flag", "head", "link", "push" }
Locked ==
  { "first", "second", "pop", "bins", "null", "grow", "grown", "merge", "trim", "trimmed",
    "clear", "take", "walk", "unlock" }

Places == Freeing \cup Locked \cup { "idle", "init", "drain", "cache", "lock" }
Tasks == { "none", "malloc", "large", "other", "free", "freelarge", "exit" }

\* The calls that get to a place.
TasksAt(here) ==
  CASE here = "idle" -> { "none" }
    [] here = "init" -> { "malloc", "large", "other", "free", "freelarge", "exit" }
    [] here = "drain" -> { "exit" }
    [] here \in Freeing -> { "free", "exit" }
    [] here \in { "cache", "first", "second", "pop" } -> { "malloc" }
    [] here \in { "bins", "null" } -> { "malloc", "large" }
    [] here \in { "grow", "grown" } -> { "other" }
    [] here \in { "merge", "trim", "trimmed" } -> { "freelarge" }
    [] here \in { "clear", "take", "walk" } -> { "malloc", "large", "freelarge" }
    [] here \in { "lock", "unlock" } -> { "malloc", "large", "other", "freelarge" }
    [] OTHER -> {}

TypeOK ==
  /\ mutex \in THREADS \cup {NULL} /\ have_fastchunks \in BOOLEAN
  /\ fb \in CHUNKS \cup {NULL} /\ fd \in [CHUNKS -> CHUNKS \cup {NULL}]
  /\ free_mem \subseteq CHUNKS /\ held \subseteq SUBSET CHUNKS
  /\ top_size \in Nat /\ system_mem \in Int
  /\ tcache \in [THREADS -> Seq(CHUNKS)] /\ rest \in [THREADS -> Seq(CHUNKS)]
  /\ tcache_on \in [THREADS -> BOOLEAN] /\ shutting_down \in [THREADS -> BOOLEAN]
  /\ structs \in [THREADS -> Int] /\ gone \in [THREADS -> { "no", "unused", "ended" }]
  /\ p \in [THREADS -> CHUNKS \cup {NULL}] /\ list \in [THREADS -> CHUNKS \cup {NULL}]
  /\ old \in [THREADS -> Int \cup {NULL}]
  /\ pc \in [THREADS -> Places] /\ task \in [THREADS -> Tasks]

\* A thread is in a call that gets to where it is, and has the lock in the
\* places that need it.
PlaceOK(t) == task[t] \in TasksAt(pc[t]) /\ (mutex = t <=> pc[t] \in Locked)

\* A free, and the shutdown of a cache, have a chunk in hand; a malloc may have
\* got one; only a large free and a shutdown have chunks still to free.
HasChunk(t) == pc[t] \in Freeing \/ (pc[t] = "init" /\ task[t] \in { "free", "exit" })
HasPair(t) == pc[t] \in { "init", "lock", "merge" } /\ task[t] = "freelarge"

HandOK(t) ==
  /\ HasChunk(t) => p[t] # NULL
  /\ p[t] # NULL => HasChunk(t) \/ pc[t] \in { "first", "second", "pop", "unlock" }
  /\ HasPair(t) => Len(rest[t]) = 2
  /\ rest[t] # <<>> => task[t] = "exit" \/ HasPair(t)

\* What a thread has read and not used yet: the size of the next chunk; the head
\* of the list, never the chunk it pushes; the head and its successor, which
\* stay what they are while the thread has the lock.
ReadOK(t) ==
  /\ pc[t] = "compare" => old[t] \in Int
  /\ pc[t] \in { "link", "push" } => old[t] \in CHUNKS \cup {NULL} /\ old[t] # p[t]
  /\ pc[t] = "push" => fd[p[t]] = old[t]
  /\ pc[t] \in { "second", "pop" } => old[t] \in CHUNKS
  /\ pc[t] = "pop" => list[t] = fd[old[t]]

\* A cache exists from its first use to the shutdown, and never again.
CacheOK(t) ==
  /\ gone[t] = "ended" => /\ shutting_down[t] /\ ~tcache_on[t]
                          /\ structs[t] = IF task[t] = "exit" THEN 1 ELSE 0
  /\ gone[t] # "ended" => /\ ~shutting_down[t] /\ task[t] # "exit"
                          /\ structs[t] = IF tcache_on[t] THEN 1 ELSE 0
  /\ ~tcache_on[t] => tcache[t] = <<>>
  /\ pc[t] \in { "second", "pop" } /\ p[t] # NULL => tcache_on[t]

ThreadsOK == \A t \in THREADS : PlaceOK(t) /\ HandOK(t) /\ ReadOK(t) /\ CacheOK(t)

\* The memory of the arena is the row of chunks and top, except between the two
\* steps that change it.
SizesOK ==
  /\ \A t \in THREADS : /\ pc[t] = "grown" => system_mem = LAST + 1 + GROWN
                        /\ pc[t] = "trimmed" => system_mem = LAST + 1 + TRIMMED
  /\ (\A t \in THREADS : pc[t] \notin { "grown", "trimmed" }) => system_mem = LAST + 1 + top_size

\* EachChunkOnce, and the chunk that a thread is about to pop is still listed.
ChunksOK ==
  \E fast \in Lists :
    /\ IsList(fb, fast)
    /\ \A t \in THREADS : pc[t] \in { "second", "pop" } => IndicesOf(old[t], fast) # {}
    /\ \E walked \in Lists : OnePlaceEach(fast, walked)

IInv ==
  TypeOK /\ ThreadsOK /\ SizesOK /\ ChunksOK /\ NoFalseAlarm
=============================================================================
