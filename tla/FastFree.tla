------------------------------ MODULE FastFree ------------------------------
(***************************************************************************)
(* Threads that share the main arena of glibc's malloc (docs/malloc-       *)
(* impl.c): each has a cache of its own (tcache); chunks of a cached size  *)
(* go from there to a fastbin, on which free pushes without the arena's    *)
(* lock (compare and swap) while whoever has the lock pops, or takes the   *)
(* whole list to consolidate it.  A step is one access to memory that is   *)
(* shared and not under the lock.                                          *)
(*                                                                         *)
(* Module Arena is about what is done under the lock.  Here the chunks of  *)
(* one fast size lie in a row, 1 to LAST, top after them; free_mem is the  *)
(* memory of those that are in the bins or in top.  A large chunk is two   *)
(* neighbours of them.  Allocations of other sizes only move the end of    *)
(* top, and the memory of a cache itself is not among the chunks.          *)
(***************************************************************************)
EXTENDS Naturals, Sequences, FiniteSets

CONSTANTS
  THREADS,
  ENDING,              \* bound: the threads that may end
  OTHERS,              \* bound: the threads that ask for other sizes
  LAST,                \* the number of chunks
  tcache_count,        \* mp_.tcache_count
  GROWN, TRIMMED,      \* top before and after a trim
  NULL

ASSUME FastFreeAssumption ==
  /\ LAST \in Nat /\ tcache_count \in Nat
  /\ TRIMMED \in Nat \ {0} /\ GROWN \in Nat /\ TRIMMED < GROWN
  /\ NULL \notin THREADS \cup Nat

CHUNKS == 1 .. LAST
Pairs == { {c, c + 1} : c \in 1 .. LAST - 1 }

VARIABLES
  mutex,               \* the thread that has the arena's lock, or NULL
  fb,                  \* the first chunk of the fastbin, or NULL
  fd,                  \* the fd word of each chunk, NULL when others use it
  have_fastchunks,
  free_mem,
  top_size, system_mem,
  tcache,              \* of a thread: the chunks in its cache
  tcache_on,           \* its pointer `tcache` is not NULL
  shutting_down,       \* its tcache_shutting_down
  structs,             \* how many tcache structs it has allocated
  gone,                \* of a thread: "no", or its shutdown found the cache "unused" or "ended" it
  held,                \* what the program holds: sets of one or two chunks
  abort,               \* malloc_printerr was called
  pc, task,            \* where a thread is, and in which call
  p, old, list, rest   \* locals: its chunk, *fb as read, chunks still to do

fastbin == <<fb, fd>>
sizes   == <<top_size, system_mem>>
caches  == <<tcache, tcache_on, shutting_down, structs, gone>>
locals  == <<p, old, list, rest>>
vars    == <<mutex, fastbin, have_fastchunks, free_mem, sizes, caches, held, abort,
             pc, task, locals>>

Init ==
  /\ mutex = NULL /\ fb = NULL /\ fd = [c \in CHUNKS |-> NULL]
  /\ have_fastchunks = FALSE /\ free_mem = CHUNKS
  /\ top_size = GROWN /\ system_mem = LAST + 1 + GROWN
  /\ tcache = [t \in THREADS |-> <<>>] /\ structs = [t \in THREADS |-> 0]
  /\ tcache_on = [t \in THREADS |-> FALSE]
  /\ shutting_down = [t \in THREADS |-> FALSE] /\ gone = [t \in THREADS |-> "no"]
  /\ held = {} /\ abort = FALSE
  /\ pc = [t \in THREADS |-> "idle"] /\ task = [t \in THREADS |-> "none"]
  /\ p = [t \in THREADS |-> NULL] /\ old = [t \in THREADS |-> NULL]
  /\ list = [t \in THREADS |-> NULL] /\ rest = [t \in THREADS |-> <<>>]

-----------------------------------------------------------------------------

At(t, here) == ~abort /\ pc[t] = here
Goto(t, there) == pc' = [pc EXCEPT ![t] = there] /\ UNCHANGED <<task, abort>>
Set(v, t, x) == [v EXCEPT ![t] = x]

\* The end of a call; tcache_thread_shutdown goes on with its next chunk.
Return(t) ==
  IF task[t] = "exit" THEN Goto(t, "drain")
  ELSE pc' = Set(pc, t, "idle") /\ task' = Set(task, t, "none") /\ UNCHANGED abort

\* The program calls.
Call(t, name, there) ==
  /\ At(t, "idle")
  /\ pc' = Set(pc, t, there) /\ task' = Set(task, t, name)
  /\ UNCHANGED <<mutex, fastbin, have_fastchunks, free_mem, sizes, abort, old, list>>

Malloc(t) == Call(t, "malloc", "init") /\ UNCHANGED <<caches, held, p, rest>>
MallocLarge(t) ==
  t \in OTHERS /\ Call(t, "large", "init") /\ UNCHANGED <<caches, held, p, rest>>
MallocOther(t) ==
  t \in OTHERS /\ Call(t, "other", "init") /\ UNCHANGED <<caches, held, p, rest>>

Free(t) ==
  \E c \in CHUNKS :
    /\ {c} \in held /\ held' = held \ {{c}}
    /\ p' = Set(p, t, c)
    /\ Call(t, "free", "init") /\ UNCHANGED <<caches, rest>>

FreeLarge(t) ==
  \E a \in held \cap Pairs :
    /\ t \in OTHERS /\ held' = held \ {a}
    /\ rest' = Set(rest, t, <<CHOOSE c \in a : c + 1 \in a, CHOOSE c \in a : c - 1 \in a>>)
    /\ Call(t, "freelarge", "init") /\ UNCHANGED <<caches, p>>

\* Mutant: a cache may be set up again while its thread shuts down.
ShutdownUnmarked(t) == UNCHANGED shutting_down

mark_shutdown(t) == shutting_down' = Set(shutting_down, t, TRUE)

\* tcache_thread_shutdown, called once, when the thread ends.
Exit(t) ==
  /\ t \in ENDING /\ gone[t] = "no" /\ gone' = Set(gone, t, IF tcache_on[t] THEN "ended" ELSE "unused")
  /\ IF tcache_on[t]
     THEN /\ Call(t, "exit", "drain")
          /\ rest' = Set(rest, t, tcache[t]) /\ tcache' = Set(tcache, t, <<>>)
          /\ tcache_on' = Set(tcache_on, t, FALSE) /\ mark_shutdown(t)
     ELSE /\ Call(t, "none", "idle")
          /\ UNCHANGED <<rest, tcache, tcache_on, shutting_down>>
  /\ UNCHANGED <<structs, held, p>>

\* It frees its next cached chunk; after the last one, the cache itself,
\* which is no fast chunk and needs the lock.
Drain(t) ==
  /\ At(t, "drain")
  /\ IF rest[t] # <<>>
     THEN /\ p' = Set(p, t, Head(rest[t])) /\ rest' = Set(rest, t, Tail(rest[t]))
          /\ Goto(t, "init") /\ UNCHANGED structs
     ELSE /\ mutex = NULL /\ structs' = Set(structs, t, structs[t] - 1)
          /\ pc' = Set(pc, t, "idle") /\ task' = Set(task, t, "none")
          /\ UNCHANGED <<p, rest, abort>>
  /\ UNCHANGED <<mutex, fastbin, have_fastchunks, free_mem, sizes, tcache, tcache_on,
                 shutting_down, gone, held, old, list>>

\* The end of a malloc: the program gets p, or NULL.
Give(t, a) == held' = (IF a = {} THEN held ELSE held \cup {a})

-----------------------------------------------------------------------------
(* MAYBE_INIT_TCACHE, then the start of each call.                         *)

after_init(t) ==
  CASE task[t] = "malloc" -> "cache"
    [] task[t] \in {"free", "exit"} -> "put"
    [] OTHER -> "lock"

MaybeInit(t) ==
  /\ At(t, "init") /\ Goto(t, after_init(t))
  /\ \/ /\ tcache_on[t] \/ shutting_down[t]
        /\ UNCHANGED <<tcache_on, structs>>
     \/ /\ ~tcache_on[t] /\ ~shutting_down[t] /\ mutex = NULL
        /\ \/ UNCHANGED <<tcache_on, structs>>       \* no memory for it
           \/ /\ tcache_on' = Set(tcache_on, t, TRUE)
              /\ structs' = Set(structs, t, structs[t] + 1)
  /\ UNCHANGED <<mutex, fastbin, have_fastchunks, free_mem, sizes, tcache, shutting_down,
                 gone, held, locals>>

has_room(t) == tcache_on[t] /\ Len(tcache[t]) < tcache_count

\* malloc: from the cache, or it needs the lock.
FromCache(t) ==
  /\ At(t, "cache")
  /\ IF tcache_on[t] /\ tcache[t] # <<>>
     THEN /\ tcache' = Set(tcache, t, Tail(tcache[t]))
          /\ Give(t, {Head(tcache[t])}) /\ Return(t)
     ELSE Goto(t, "lock") /\ UNCHANGED <<tcache, held>>
  /\ UNCHANGED <<mutex, fastbin, have_fastchunks, free_mem, sizes, tcache_on,
                 shutting_down, structs, gone, locals>>

\* A freed chunk goes to the cache of the thread that frees it.
ToCache(t) ==
  /\ At(t, "put")
  /\ IF has_room(t)
     THEN /\ tcache' = Set(tcache, t, <<p[t]>> \o tcache[t])
          /\ p' = Set(p, t, NULL) /\ Return(t)
     ELSE Goto(t, "next") /\ UNCHANGED <<tcache, p>>
  /\ UNCHANGED <<mutex, fastbin, have_fastchunks, free_mem, sizes, tcache_on, shutting_down,
                 structs, gone, held, old, list, rest>>

-----------------------------------------------------------------------------
(* _int_free without the lock: a chunk for the fastbin.                    *)

\* The size of the chunk after c: of top if it comes next.
nextsize(c) == IF c + 1 .. LAST \subseteq free_mem THEN LAST - c + top_size ELSE 1

\* Read the size of the next chunk.  old keeps it.
ReadNext(t) ==
  /\ At(t, "next") /\ Goto(t, "compare")
  /\ old' = Set(old, t, nextsize(p[t]))
  /\ UNCHANGED <<mutex, fastbin, have_fastchunks, free_mem, sizes, caches, held, p, list, rest>>

\* Mutant: what was read without the lock is believed.
CompareOnce(t) == abort' = TRUE /\ UNCHANGED <<pc, task>>

\* Too large for the arena: with the lock, look again.
compare_again(t) ==
  /\ mutex = NULL
  /\ IF nextsize(p[t]) >= system_mem THEN abort' = TRUE /\ UNCHANGED <<pc, task>>
     ELSE Goto(t, "flag")

CompareNext(t) ==
  /\ At(t, "compare")
  /\ IF old[t] >= system_mem THEN compare_again(t) ELSE Goto(t, "flag")
  /\ old' = Set(old, t, NULL)
  /\ UNCHANGED <<mutex, fastbin, have_fastchunks, free_mem, sizes, caches, held, p, list, rest>>

SetFlag(t) ==
  /\ At(t, "flag") /\ Goto(t, "head")
  /\ have_fastchunks' = TRUE
  /\ UNCHANGED <<mutex, fastbin, free_mem, sizes, caches, held, locals>>

ReadHead(t) ==
  /\ At(t, "head") /\ Goto(t, "link")
  /\ old' = Set(old, t, fb)
  /\ UNCHANGED <<mutex, fastbin, have_fastchunks, free_mem, sizes, caches, held, p, list, rest>>

\* Not the first of the list already; then it is linked before the first.
Link(t) ==
  /\ At(t, "link")
  /\ IF old[t] = p[t] THEN abort' = TRUE /\ UNCHANGED <<pc, task, fd>>
     ELSE fd' = [fd EXCEPT ![p[t]] = old[t]] /\ Goto(t, "push")
  /\ UNCHANGED <<mutex, fb, have_fastchunks, free_mem, sizes, caches, held, locals>>

\* Mutant: the comparison goes on with the head read first.
StaleHead(t) == UNCHANGED old

\* Another push or pop came first: go on with the head found.
reread_head(t) == old' = Set(old, t, fb)

Push(t) ==
  /\ At(t, "push")
  /\ IF fb = old[t]
     THEN fb' = p[t] /\ p' = Set(p, t, NULL) /\ old' = Set(old, t, NULL) /\ Return(t)
     ELSE reread_head(t) /\ Goto(t, "link") /\ UNCHANGED <<fb, p>>
  /\ UNCHANGED <<mutex, fd, have_fastchunks, free_mem, sizes, caches, held, list, rest>>

-----------------------------------------------------------------------------
(* _int_malloc with the lock.                                              *)

\* Where a call goes once it has the lock: a large malloc consolidates first
\* if there may be fast chunks.
Lock(t) ==
  /\ At(t, "lock") /\ mutex = NULL /\ mutex' = t
  /\ Goto(t, CASE task[t] = "malloc" -> "first"
               [] task[t] = "large" -> IF have_fastchunks THEN "clear" ELSE "bins"
               [] task[t] = "other" -> "grow"
               [] OTHER -> "merge")
  /\ UNCHANGED <<fastbin, have_fastchunks, free_mem, sizes, caches, held, locals>>

\* The first chunk of the fastbin: for the caller (p is NULL), then for the
\* cache as long as it has room.
ReadFirst(t) ==
  /\ At(t, "first")
  /\ old' = Set(old, t, fb)
  /\ Goto(t, CASE fb # NULL /\ (p[t] = NULL \/ has_room(t)) -> "second"
               [] p[t] = NULL -> "bins"
               [] OTHER -> "unlock")
  /\ UNCHANGED <<mutex, fastbin, have_fastchunks, free_mem, sizes, caches, held, p, list, rest>>

\* REMOVE_FB reads the fd of the first chunk ...
ReadSecond(t) ==
  /\ At(t, "second") /\ Goto(t, "pop")
  /\ list' = Set(list, t, fd[old[t]])
  /\ UNCHANGED <<mutex, fastbin, have_fastchunks, free_mem, sizes, caches, held, p, old, rest>>

\* Mutant: the write of a single thread, without a comparison.
StillFirst(t) == TRUE

\* Nobody pushed since *fb was read.
still_first(t) == fb = old[t]

\* ... and makes it the first one, or begins again.
Pop(t) ==
  /\ At(t, "pop") /\ Goto(t, "first")
  /\ list' = Set(list, t, NULL) /\ old' = Set(old, t, NULL)
  /\ IF ~still_first(t) THEN UNCHANGED <<fastbin, p, tcache>>
     ELSE /\ fb' = list[t] /\ fd' = [fd EXCEPT ![old[t]] = NULL]
          /\ IF p[t] = NULL THEN p' = Set(p, t, old[t]) /\ UNCHANGED tcache
             ELSE tcache' = Set(tcache, t, <<old[t]>> \o tcache[t]) /\ UNCHANGED p
  /\ UNCHANGED <<mutex, have_fastchunks, free_mem, sizes, tcache_on, shutting_down,
                 structs, gone, held, rest>>

\* From the bins or top; else consolidate and try again; else NULL, the
\* system having nothing.
FromBins(t) ==
  LET fits == { a \in (IF task[t] = "large" THEN Pairs ELSE { {c} : c \in CHUNKS }) :
                  a \subseteq free_mem }
  IN  /\ At(t, "bins")
      /\ \/ \E a \in fits : free_mem' = free_mem \ a /\ Give(t, a) /\ Goto(t, "unlock")
         \/ /\ fits = {}
            /\ Goto(t, IF have_fastchunks THEN "clear" ELSE "null")
            /\ UNCHANGED <<free_mem, held>>
      /\ UNCHANGED <<mutex, fastbin, have_fastchunks, sizes, caches, locals>>

\* sysmalloc for another size: the arena grows, then top.
Grow(t) ==
  /\ At(t, "grow") /\ Goto(t, "grown")
  /\ system_mem' = system_mem + (GROWN - top_size)
  /\ UNCHANGED <<mutex, fastbin, have_fastchunks, free_mem, top_size, caches, held, locals>>

SetTop(t) ==
  /\ \/ At(t, "grown") /\ top_size' = GROWN
     \/ At(t, "trimmed") /\ top_size' = TRIMMED
  /\ Goto(t, "unlock")
  /\ UNCHANGED <<mutex, fastbin, have_fastchunks, free_mem, system_mem, caches, held, locals>>

\* The call returns: what a malloc took from the fastbin, or nothing.
Unlock(t) ==
  /\ pc[t] \in {"unlock", "null"} /\ At(t, pc[t]) /\ mutex' = NULL /\ Return(t)
  /\ Give(t, IF p[t] = NULL THEN {} ELSE {p[t]})
  /\ p' = Set(p, t, NULL) /\ old' = Set(old, t, NULL)
  /\ UNCHANGED <<fastbin, have_fastchunks, free_mem, sizes, caches, list, rest>>

-----------------------------------------------------------------------------
(* malloc_consolidate, and a large free, which trims top.                  *)

ClearFlag(t) ==
  /\ At(t, "clear") /\ Goto(t, "take")
  /\ have_fastchunks' = FALSE
  /\ UNCHANGED <<mutex, fastbin, free_mem, sizes, caches, held, locals>>

take_list(t) ==
  list' = Set(list, t, fb) /\ fb' = NULL /\ Goto(t, "walk") /\ UNCHANGED old

TakeList(t) ==
  /\ At(t, "take") /\ take_list(t)
  /\ UNCHANGED <<mutex, fd, have_fastchunks, free_mem, sizes, caches, held, p, rest>>

\* One chunk of the list after the other is joined with its neighbours.
Walk(t) ==
  /\ At(t, "walk")
  /\ IF list[t] # NULL
     THEN /\ free_mem' = free_mem \cup {list[t]}
          /\ list' = Set(list, t, fd[list[t]]) /\ fd' = [fd EXCEPT ![list[t]] = NULL]
          /\ UNCHANGED <<pc, task, abort>>
     ELSE /\ Goto(t, IF task[t] = "freelarge" THEN "trim" ELSE "bins")
          /\ UNCHANGED <<free_mem, list, fd>>
  /\ UNCHANGED <<mutex, fb, have_fastchunks, sizes, caches, held, p, old, rest>>

Merge(t) ==
  /\ At(t, "merge")
  /\ free_mem' = free_mem \cup {rest[t][1], rest[t][2]} /\ rest' = Set(rest, t, <<>>)
  /\ Goto(t, IF have_fastchunks THEN "clear" ELSE "trim")
  /\ UNCHANGED <<mutex, fastbin, have_fastchunks, sizes, caches, held, p, old, list>>

Trim(t) ==
  /\ At(t, "trim")
  /\ IF top_size = TRIMMED THEN Goto(t, "unlock") /\ UNCHANGED system_mem
     ELSE Goto(t, "trimmed") /\ system_mem' = system_mem - (top_size - TRIMMED)
  /\ UNCHANGED <<mutex, fastbin, have_fastchunks, free_mem, top_size, caches, held, locals>>

-----------------------------------------------------------------------------

Calls(t) ==
  Malloc(t) \/ MallocLarge(t) \/ MallocOther(t) \/ Free(t) \/ FreeLarge(t) \/ Exit(t)

Step(t) ==
  \/ Drain(t) \/ MaybeInit(t) \/ FromCache(t) \/ ToCache(t)
  \/ ReadNext(t) \/ CompareNext(t) \/ SetFlag(t) \/ ReadHead(t) \/ Link(t) \/ Push(t)
  \/ Lock(t) \/ ReadFirst(t) \/ ReadSecond(t) \/ Pop(t) \/ FromBins(t) \/ Unlock(t)
  \/ Grow(t) \/ SetTop(t) \/ Merge(t) \/ Trim(t)
  \/ ClearFlag(t) \/ TakeList(t) \/ Walk(t)

Next == \E t \in THREADS : Calls(t) \/ Step(t)

\* A thread inside a call goes on; for a lock that stays free it gets it.
Spec == Init /\ [][Next]_vars /\ \A t \in THREADS : WF_vars(Step(t))
=============================================================================
