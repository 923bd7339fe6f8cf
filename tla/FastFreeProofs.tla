--------------------------- MODULE FastFreeProofs ---------------------------
(***************************************************************************)
(* Chunks, sizes and caches stay right for any number of threads, chunks   *)
(* and cached chunks.                                                      *)
(***************************************************************************)
EXTENDS FastFreeProps, SequenceTheorems, FiniteSetTheorems, TLAPS

-----------------------------------------------------------------------------
(* Sequences without repetition.                                           *)

\* One more element in front.
LEMMA InFront ==
  ASSUME NEW S, NEW s \in Seq(S), IsInjective(s), NEW x \in S, x \notin Range(s)
  PROVE  /\ <<x>> \o s \in Seq(S)
         /\ IsInjective(<<x>> \o s)
         /\ Range(<<x>> \o s) = Range(s) \cup {x}
  <1> DEFINE u == <<x>> \o s
  <1>1. <<x>> \in Seq(S) /\ Len(<<x>>) = 1 /\ <<x>>[1] = x
    OBVIOUS
  <1>2. /\ u \in Seq(S) /\ Len(u) = Len(s) + 1
        /\ \A i \in 1 .. Len(s) + 1 : u[i] = IF i = 1 THEN x ELSE s[i - 1]
    BY <1>1, ConcatProperties
  <1> HIDE DEF u
  <1>3. DOMAIN u = 1 .. Len(s) + 1 /\ DOMAIN s = 1 .. Len(s) /\ Len(s) \in Nat
    BY <1>2, LenProperties
  <1>4. \A i \in DOMAIN s : u[i + 1] = s[i] /\ i + 1 \in DOMAIN u
    BY <1>2, <1>3
  <1>5. u[1] = x /\ 1 \in DOMAIN u
    BY <1>2, <1>3
  <1>6. \A i \in DOMAIN u : i = 1 \/ (i - 1 \in DOMAIN s /\ u[i] = s[i - 1])
    BY <1>2, <1>3
  <1>7. Range(u) = Range(s) \cup {x}
    BY <1>4, <1>5, <1>6 DEF Range
  <1>8. IsInjective(u)
    BY <1>2, <1>3, <1>5, <1>6 DEF IsInjective, Range
  <1> QED
    BY <1>2, <1>7, <1>8 DEF u

\* One more element at the end.
LEMMA AtEnd ==
  ASSUME NEW S, NEW s \in Seq(S), IsInjective(s), NEW x \in S, x \notin Range(s)
  PROVE  /\ Append(s, x) \in Seq(S)
         /\ IsInjective(Append(s, x))
         /\ Range(Append(s, x)) = Range(s) \cup {x}
  <1> DEFINE u == Append(s, x)
  <1>1. /\ u \in Seq(S) /\ Len(u) = Len(s) + 1 /\ u[Len(s) + 1] = x
        /\ \A i \in 1 .. Len(s) : u[i] = s[i]
    BY AppendProperties
  <1> HIDE DEF u
  <1>2. DOMAIN u = 1 .. Len(s) + 1 /\ DOMAIN s = 1 .. Len(s) /\ Len(s) \in Nat
    BY <1>1, LenProperties
  <1>3. Range(u) = Range(s) \cup {x}
    <2>1. \A i \in DOMAIN u : i = Len(s) + 1 \/ i \in DOMAIN s
      BY <1>2
    <2>2. \A i \in DOMAIN s : i \in DOMAIN u /\ u[i] = s[i]
      BY <1>1, <1>2
    <2>3. Len(s) + 1 \in DOMAIN u /\ u[Len(s) + 1] = x
      BY <1>1, <1>2
    <2> QED
      BY <2>1, <2>2, <2>3 DEF Range
  <1>4. IsInjective(u)
    BY <1>1, <1>2 DEF IsInjective, Range
  <1> QED
    BY <1>1, <1>3, <1>4 DEF u

\* Without the first element.
LEMMA WithoutFirst ==
  ASSUME NEW S, NEW s \in Seq(S), s # <<>>, IsInjective(s)
  PROVE  /\ Head(s) \in S /\ Tail(s) \in Seq(S)
         /\ IsInjective(Tail(s))
         /\ Head(s) \in Range(s) /\ Range(Tail(s)) = Range(s) \ {Head(s)}
  <1> DEFINE u == Tail(s)
  <1>1. /\ Head(s) \in S /\ u \in Seq(S) /\ Len(u) = Len(s) - 1
        /\ \A i \in 1 .. Len(u) : u[i] = s[i + 1]
    BY HeadTailProperties
  <1> HIDE DEF u
  <1>2. /\ DOMAIN u = 1 .. Len(s) - 1 /\ DOMAIN s = 1 .. Len(s) /\ Len(s) \in Nat \ {0}
        /\ Head(s) = s[1]
    BY <1>1, LenProperties, EmptySeq
  <1>3. \A i \in DOMAIN u : i + 1 \in DOMAIN s /\ u[i] = s[i + 1] /\ i + 1 # 1
    BY <1>1, <1>2
  <1>4. \A i \in DOMAIN s : i = 1 \/ (i - 1 \in DOMAIN u /\ u[i - 1] = s[i])
    BY <1>1, <1>2
  <1>5. 1 \in DOMAIN s
    BY <1>2
  <1>6. Head(s) \in Range(s) /\ Range(u) = Range(s) \ {Head(s)}
    BY <1>2, <1>3, <1>4, <1>5 DEF Range, IsInjective
  <1>7. IsInjective(u)
    BY <1>2, <1>3 DEF IsInjective
  <1> QED
    BY <1>1, <1>6, <1>7 DEF u

Front(s) == SubSeq(s, 1, Len(s) - 1)

\* Without the last element.
LEMMA WithoutLast ==
  ASSUME NEW S, NEW s \in Seq(S), s # <<>>, IsInjective(s)
  PROVE  /\ s[Len(s)] \in S /\ Front(s) \in Seq(S)
         /\ Len(s) \in Nat \ {0} /\ Len(Front(s)) = Len(s) - 1
         /\ \A i \in 1 .. Len(s) - 1 : Front(s)[i] = s[i]
         /\ IsInjective(Front(s))
         /\ s[Len(s)] \in Range(s) /\ Range(Front(s)) = Range(s) \ {s[Len(s)]}
  <1> DEFINE u == Front(s)
             n == Len(s)
  <1>1. DOMAIN s = 1 .. n /\ n \in Nat \ {0} /\ \A i \in 1 .. n : s[i] \in S
    BY LenProperties, EmptySeq, ElementOfSeq
  <1>2. u \in Seq(S) /\ Len(u) = n - 1 /\ \A i \in 1 .. n - 1 : u[i] = s[i]
    BY <1>1, SubSeqProperties DEF Front
  <1> HIDE DEF u, n
  <1>3. DOMAIN u = 1 .. n - 1
    BY <1>2, LenProperties
  <1>4. \A i \in DOMAIN s : i = n \/ (i \in DOMAIN u /\ u[i] = s[i])
    BY <1>1, <1>2, <1>3
  <1>5. \A i \in DOMAIN u : i \in DOMAIN s /\ i # n /\ u[i] = s[i]
    BY <1>1, <1>2, <1>3
  <1>6. n \in DOMAIN s
    BY <1>1
  <1>7. s[n] \in Range(s) /\ Range(u) = Range(s) \ {s[n]}
    BY <1>4, <1>5, <1>6 DEF Range, IsInjective
  <1>8. IsInjective(u)
    BY <1>5 DEF IsInjective
  <1> QED
    BY <1>1, <1>2, <1>7, <1>8 DEF u, n

\* A sequence of different chunks is no longer than the row of chunks.
LEMMA NoLongerThanRow ==
  ASSUME NEW s \in Seq(CHUNKS), IsInjective(s)
  PROVE  s \in Lists
  <1>1. s \in [1 .. Len(s) -> CHUNKS] /\ Len(s) \in Nat
    BY LenProperties
  <1>2. s \in Injection(1 .. Len(s), CHUNKS)
    BY <1>1 DEF Injection
  <1>3. IsFiniteSet(CHUNKS) /\ Cardinality(CHUNKS) = LAST
    BY FS_Interval, FastFreeAssumption DEF CHUNKS
  <1>4. Cardinality(1 .. Len(s)) <= LAST
    BY <1>2, <1>3, FS_Injection
  <1>5. Cardinality(1 .. Len(s)) = Len(s)
    <2>1. 1 \in Int /\ Len(s) \in Int
      BY <1>1
    <2>2. Cardinality(1 .. Len(s)) = IF 1 > Len(s) THEN 0 ELSE Len(s) - 1 + 1
      BY <2>1, FS_Interval
    <2> QED
      BY <1>1, <2>2
  <1>6. Len(s) \in 0 .. LAST
    BY <1>1, <1>4, <1>5, FastFreeAssumption
  <1> QED
    BY <1>1, <1>6 DEF Lists

-----------------------------------------------------------------------------
(* Lists in memory.                                                        *)

\* IsList for links f.
ListIn(f, c, s) ==
  /\ c = IF s = <<>> THEN NULL ELSE s[Len(s)]
  /\ \A i \in DOMAIN s : f[s[i]] = IF i = 1 THEN NULL ELSE s[i - 1]

\* NULL is no chunk.
LEMMA NullIsNoChunk ==
  NULL \notin CHUNKS /\ CHUNKS \subseteq Nat /\ NULL \notin THREADS
  BY FastFreeAssumption DEF CHUNKS

\* The links of other chunks do not matter.
LEMMA ListStays ==
  ASSUME NEW f, NEW g, NEW c, NEW s, ListIn(f, c, s),
         \A x \in Range(s) : g[x] = f[x]
  PROVE  ListIn(g, c, s)
  BY DEF ListIn, Range

\* A chunk linked to the first one becomes the first one.
LEMMA ListPushed ==
  ASSUME NEW f, NEW c, NEW s \in Seq(CHUNKS), ListIn(f, c, s),
         NEW x \in CHUNKS, f[x] = c
  PROVE  ListIn(f, x, Append(s, x))
  <1> DEFINE u == Append(s, x)
  <1>1. /\ u \in Seq(CHUNKS) /\ Len(u) = Len(s) + 1 /\ u[Len(s) + 1] = x /\ u # <<>>
        /\ \A i \in 1 .. Len(s) : u[i] = s[i]
    BY AppendProperties
  <1> HIDE DEF u
  <1>2. DOMAIN u = 1 .. Len(s) + 1 /\ DOMAIN s = 1 .. Len(s) /\ Len(s) \in Nat
    BY <1>1, LenProperties
  <1>3. s = <<>> <=> Len(s) = 0
    BY <1>2, EmptySeq
  <1>4. \A i \in DOMAIN s : f[u[i]] = IF i = 1 THEN NULL ELSE u[i - 1]
    BY <1>1, <1>2 DEF ListIn
  <1>5. f[u[Len(s) + 1]] = IF Len(s) + 1 = 1 THEN NULL ELSE u[Len(s)]
    BY <1>1, <1>2, <1>3 DEF ListIn
  <1>6. \A i \in DOMAIN u : i \in DOMAIN s \/ i = Len(s) + 1
    BY <1>2
  <1>7. Len(s) + 1 - 1 = Len(s)
    BY <1>2
  <1>8. \A i \in DOMAIN u : f[u[i]] = IF i = 1 THEN NULL ELSE u[i - 1]
    BY <1>4, <1>5, <1>6, <1>7
  <1> QED
    BY <1>1, <1>8 DEF ListIn, u

\* The second chunk of a list is the first one of the rest.
LEMMA ListPopped ==
  ASSUME NEW f, NEW c \in CHUNKS, NEW s \in Seq(CHUNKS), ListIn(f, c, s), IsInjective(s)
  PROVE  /\ s # <<>> /\ c = s[Len(s)] /\ c \in Range(s)
         /\ f[c] \in CHUNKS \cup {NULL}
         /\ ListIn(f, f[c], Front(s))
  <1>1. s # <<>> /\ c = s[Len(s)]
    BY NullIsNoChunk DEF ListIn
  <1> DEFINE n == Len(s)
             u == Front(s)
  <1>2. /\ n \in Nat \ {0} /\ u \in Seq(CHUNKS) /\ Len(u) = n - 1
        /\ \A i \in 1 .. n - 1 : u[i] = s[i]
        /\ c \in Range(s)
    BY <1>1, WithoutLast
  <1>3. DOMAIN s = 1 .. n /\ DOMAIN u = 1 .. n - 1
    BY <1>2, LenProperties
  <1>4. u = <<>> <=> n = 1
    BY <1>2, EmptySeq
  <1>5. s[n] = c
    BY <1>1
  <1> HIDE DEF u, n
  <1>6. f[c] = IF n = 1 THEN NULL ELSE s[n - 1]
    BY <1>2, <1>3, <1>5 DEF ListIn
  <1>7. f[c] = IF u = <<>> THEN NULL ELSE u[Len(u)]
    BY <1>2, <1>4, <1>6
  <1>8. f[c] \in CHUNKS \cup {NULL}
    <2>1. n # 1 => n - 1 \in 1 .. n
      BY <1>2
    <2>2. \A i \in 1 .. n : s[i] \in CHUNKS
      BY ElementOfSeq DEF n
    <2> QED
      BY <1>6, <2>1, <2>2
  <1>9. \A i \in DOMAIN u : f[u[i]] = IF i = 1 THEN NULL ELSE u[i - 1]
    BY <1>2, <1>3 DEF ListIn
  <1> QED
    BY <1>1, <1>2, <1>7, <1>8, <1>9 DEF ListIn, u

\* A list that begins at NULL is empty.
LEMMA ListEmpty ==
  ASSUME NEW f, NEW s \in Seq(CHUNKS), ListIn(f, NULL, s)
  PROVE  s = <<>>
  <1>1. DOMAIN s = 1 .. Len(s) /\ Len(s) \in Nat
    BY LenProperties
  <1>2. SUFFICES ASSUME s # <<>> PROVE FALSE
    OBVIOUS
  <1>3. Len(s) \in 1 .. Len(s)
    BY <1>1, <1>2, EmptySeq
  <1>4. s[Len(s)] \in CHUNKS
    BY <1>3, ElementOfSeq
  <1> QED
    BY <1>2, <1>4, NullIsNoChunk DEF ListIn

-----------------------------------------------------------------------------
(* The places of chunks as functions: the kind of place and whose it is.    *)

OwnedKinds == { "cache", "rest", "call" }
PlaceKinds == { "mem", "held", "fast", "walked" } \cup OwnedKinds

\* Chunk c is in a place of kind k, of thread o if it is an owned one, and in
\* no other.
InPlace(c, k, o, fast, walked) ==
  /\ k = "mem" <=> c \in free_mem
  /\ k = "held" <=> \E a \in held : c \in a
  /\ \A a, b \in held : c \in a /\ c \in b => a = b
  /\ k = "fast" <=> c \in Range(fast)
  /\ k = "walked" <=> c \in Range(walked)
  /\ k \in OwnedKinds => o \in THREADS
  /\ \A t \in THREADS : /\ k = "cache" /\ o = t <=> c \in Range(tcache[t])
                        /\ k = "rest" /\ o = t <=> c \in Range(rest[t])
                        /\ k = "call" /\ o = t <=> p[t] = c

\* Every chunk c is in the one place that kind[c] and own[c] name.
Whereabouts(kind, own, fast, walked) ==
  /\ kind \in [CHUNKS -> PlaceKinds]
  /\ fast \in Seq(CHUNKS) /\ IsInjective(fast)
  /\ walked \in Seq(CHUNKS) /\ IsInjective(walked)
  /\ \A t \in THREADS : IsInjective(tcache[t]) /\ IsInjective(rest[t])
  /\ \A c \in CHUNKS : InPlace(c, kind[c], own[c], fast, walked)

\* fast and walked are what their names say.
ListsOK(fast, walked) ==
  /\ ListIn(fd, fb, fast)
  /\ \A t \in THREADS : pc[t] \in { "second", "pop" } => old[t] \in Range(fast)
  /\ \A t \in THREADS : pc[t] = "walk" => ListIn(fd, list[t], walked)
  /\ (\A t \in THREADS : pc[t] # "walk") => walked = <<>>

Placed == \E kind, own, fast, walked : Whereabouts(kind, own, fast, walked) /\ ListsOK(fast, walked)

\* What is in PlacesOf.
LEMMA Members ==
  ASSUME NEW c, NEW fast, NEW walked, NEW y
  PROVE  y \in PlacesOf(c, fast, walked) <=>
           \/ c \in free_mem /\ y = <<"mem">>
           \/ \E a \in held : c \in a /\ y = <<"held", a>>
           \/ \E i \in DOMAIN fast : fast[i] = c /\ y = <<"fast", i>>
           \/ \E i \in DOMAIN walked : walked[i] = c /\ y = <<"walked", i>>
           \/ \E t \in THREADS : \E i \in DOMAIN tcache[t] : tcache[t][i] = c /\ y = <<"cache", t, i>>
           \/ \E t \in THREADS : \E i \in DOMAIN rest[t] : rest[t][i] = c /\ y = <<"rest", t, i>>
           \/ \E t \in THREADS : p[t] = c /\ y = <<"call", t>>
  BY DEF PlacesOf, IndicesOf

\* Sequences of the model are sequences for the library.
LEMMA ListsAreSequences ==
  ASSUME NEW s \in Lists
  PROVE  s \in Seq(CHUNKS)
  BY DEF Lists

\* One place for each chunk, as a set, gives the two functions.
LEMMA ChunksPlaced ==
  ASSUME TypeOK, ChunksOK
  PROVE  Placed
  <1>1. PICK fast \in Lists :
          /\ IsList(fb, fast)
          /\ \A t \in THREADS : pc[t] \in { "second", "pop" } => IndicesOf(old[t], fast) # {}
          /\ \E walked \in Lists : OnePlaceEach(fast, walked)
    BY DEF ChunksOK
  <1>2. PICK walked \in Lists : OnePlaceEach(fast, walked)
    BY <1>1
  <1> DEFINE P(c) == PlacesOf(c, fast, walked)
             the == [c \in CHUNKS |-> CHOOSE x \in P(c) : P(c) = {x}]
             kind == [c \in CHUNKS |-> the[c][1]]
             own == [c \in CHUNKS |-> the[c][2]]
  <1>3. \A c \in CHUNKS : the[c] \in P(c) /\ P(c) = {the[c]}
    <2>1. \A c \in CHUNKS : \E x \in P(c) : P(c) = {x}
      BY <1>2 DEF OnePlaceEach
    <2>2. \A c \in CHUNKS : the[c] = CHOOSE x \in P(c) : P(c) = {x}
      OBVIOUS
    <2> HIDE DEF P, the
    <2> QED
      BY <2>1, <2>2
  <1>4. ASSUME NEW c \in CHUNKS
        PROVE  /\ kind[c] \in PlaceKinds
               /\ kind[c] = "mem" <=> c \in free_mem
               /\ kind[c] = "held" <=> \E a \in held : c \in a
               /\ kind[c] = "fast" <=> c \in Range(fast)
               /\ kind[c] = "walked" <=> c \in Range(walked)
               /\ kind[c] \in OwnedKinds => own[c] \in THREADS
    <2> DEFINE x == the[c]
    <2>1. kind[c] = x[1] /\ own[c] = x[2]
      OBVIOUS
    <2>2. x \in P(c) /\ P(c) = {x}
      BY <1>3
    <2> HIDE DEF x, kind, own, the
    <2>3. \/ c \in free_mem /\ x = <<"mem">>
          \/ \E a \in held : c \in a /\ x = <<"held", a>>
          \/ \E i \in DOMAIN fast : fast[i] = c /\ x = <<"fast", i>>
          \/ \E i \in DOMAIN walked : walked[i] = c /\ x = <<"walked", i>>
          \/ \E t \in THREADS : \E i \in DOMAIN tcache[t] : tcache[t][i] = c /\ x = <<"cache", t, i>>
          \/ \E t \in THREADS : \E i \in DOMAIN rest[t] : rest[t][i] = c /\ x = <<"rest", t, i>>
          \/ \E t \in THREADS : p[t] = c /\ x = <<"call", t>>
      BY <2>2, Members
    <2>4. /\ c \in free_mem => <<"mem">> \in P(c)
          /\ \A a \in held : c \in a => <<"held", a>> \in P(c)
          /\ \A i \in DOMAIN fast : fast[i] = c => <<"fast", i>> \in P(c)
          /\ \A i \in DOMAIN walked : walked[i] = c => <<"walked", i>> \in P(c)
      BY Members
    <2> HIDE DEF P
    <2>5. /\ c \in free_mem => x = <<"mem">>
          /\ \A a \in held : c \in a => x = <<"held", a>>
          /\ \A i \in DOMAIN fast : fast[i] = c => x = <<"fast", i>>
          /\ \A i \in DOMAIN walked : walked[i] = c => x = <<"walked", i>>
      BY <2>2, <2>4
    <2>6. x[1] = "mem" <=> c \in free_mem
      BY <2>3, <2>5
    <2>7. x[1] = "held" <=> \E a \in held : c \in a
      BY <2>3, <2>5
    <2>8. x[1] = "fast" <=> c \in Range(fast)
      BY <2>3, <2>5 DEF Range
    <2>9. x[1] = "walked" <=> c \in Range(walked)
      BY <2>3, <2>5 DEF Range
    <2>10. x[1] \in PlaceKinds /\ (x[1] \in OwnedKinds => x[2] \in THREADS)
      BY <2>3 DEF PlaceKinds, OwnedKinds
    <2> QED
      BY <2>1, <2>6, <2>7, <2>8, <2>9, <2>10
  <1>5. ASSUME NEW c \in CHUNKS, NEW t \in THREADS
        PROVE  /\ kind[c] = "cache" /\ own[c] = t <=> c \in Range(tcache[t])
               /\ kind[c] = "rest" /\ own[c] = t <=> c \in Range(rest[t])
               /\ kind[c] = "call" /\ own[c] = t <=> p[t] = c
    <2> DEFINE x == the[c]
    <2>1. kind[c] = x[1] /\ own[c] = x[2]
      OBVIOUS
    <2>2. x \in P(c) /\ P(c) = {x}
      BY <1>3
    <2> HIDE DEF x, kind, own, the
    <2>3. \/ c \in free_mem /\ x = <<"mem">>
          \/ \E a \in held : c \in a /\ x = <<"held", a>>
          \/ \E i \in DOMAIN fast : fast[i] = c /\ x = <<"fast", i>>
          \/ \E i \in DOMAIN walked : walked[i] = c /\ x = <<"walked", i>>
          \/ \E u \in THREADS : \E i \in DOMAIN tcache[u] : tcache[u][i] = c /\ x = <<"cache", u, i>>
          \/ \E u \in THREADS : \E i \in DOMAIN rest[u] : rest[u][i] = c /\ x = <<"rest", u, i>>
          \/ \E u \in THREADS : p[u] = c /\ x = <<"call", u>>
      BY <2>2, Members
    <2>4. /\ \A i \in DOMAIN tcache[t] : tcache[t][i] = c => <<"cache", t, i>> \in P(c)
          /\ \A i \in DOMAIN rest[t] : rest[t][i] = c => <<"rest", t, i>> \in P(c)
          /\ p[t] = c => <<"call", t>> \in P(c)
      BY Members
    <2> HIDE DEF P
    <2>5. /\ \A i \in DOMAIN tcache[t] : tcache[t][i] = c => x = <<"cache", t, i>>
          /\ \A i \in DOMAIN rest[t] : rest[t][i] = c => x = <<"rest", t, i>>
          /\ p[t] = c => x = <<"call", t>>
      BY <2>2, <2>4
    <2>6. x[1] = "cache" /\ x[2] = t <=> c \in Range(tcache[t])
      BY <2>3, <2>5 DEF Range
    <2>7. x[1] = "rest" /\ x[2] = t <=> c \in Range(rest[t])
      BY <2>3, <2>5 DEF Range
    <2>8. x[1] = "call" /\ x[2] = t <=> p[t] = c
      BY <2>3, <2>5
    <2> QED
      BY <2>1, <2>6, <2>7, <2>8
  <1>6. ASSUME NEW c \in CHUNKS, NEW a \in held, NEW b \in held, c \in a, c \in b
        PROVE  a = b
    <2>1. <<"held", a>> \in P(c) /\ <<"held", b>> \in P(c)
      BY <1>6, Members
    <2> HIDE DEF P, the
    <2>2. <<"held", a>> = <<"held", b>>
      BY <1>3, <2>1
    <2> QED
      BY <2>2
  <1>7. ASSUME NEW i \in DOMAIN fast, NEW j \in DOMAIN fast, fast[i] = fast[j]
        PROVE  i = j
    <2>1. fast[i] \in CHUNKS
      BY ListsAreSequences
    <2>2. <<"fast", i>> \in P(fast[i]) /\ <<"fast", j>> \in P(fast[i])
      BY <1>7, Members
    <2> HIDE DEF P, the
    <2>3. <<"fast", i>> = <<"fast", j>>
      BY <1>3, <2>1, <2>2
    <2> QED
      BY <2>3
  <1>8. ASSUME NEW i \in DOMAIN walked, NEW j \in DOMAIN walked, walked[i] = walked[j]
        PROVE  i = j
    <2>1. walked[i] \in CHUNKS
      BY ListsAreSequences
    <2>2. <<"walked", i>> \in P(walked[i]) /\ <<"walked", j>> \in P(walked[i])
      BY <1>8, Members
    <2> HIDE DEF P, the
    <2>3. <<"walked", i>> = <<"walked", j>>
      BY <1>3, <2>1, <2>2
    <2> QED
      BY <2>3
  <1>9. ASSUME NEW t \in THREADS, NEW i \in DOMAIN tcache[t], NEW j \in DOMAIN tcache[t],
               tcache[t][i] = tcache[t][j]
        PROVE  i = j
    <2>1. tcache[t][i] \in CHUNKS
      BY DEF TypeOK
    <2>2. <<"cache", t, i>> \in P(tcache[t][i]) /\ <<"cache", t, j>> \in P(tcache[t][i])
      BY <1>9, Members
    <2> HIDE DEF P, the
    <2>3. <<"cache", t, i>> = <<"cache", t, j>>
      BY <1>3, <2>1, <2>2
    <2> QED
      BY <2>3
  <1>10. ASSUME NEW t \in THREADS, NEW i \in DOMAIN rest[t], NEW j \in DOMAIN rest[t],
                rest[t][i] = rest[t][j]
         PROVE  i = j
    <2>1. rest[t][i] \in CHUNKS
      BY DEF TypeOK
    <2>2. <<"rest", t, i>> \in P(rest[t][i]) /\ <<"rest", t, j>> \in P(rest[t][i])
      BY <1>10, Members
    <2> HIDE DEF P, the
    <2>3. <<"rest", t, i>> = <<"rest", t, j>>
      BY <1>3, <2>1, <2>2
    <2> QED
      BY <2>3
  <1>11. Whereabouts(kind, own, fast, walked)
    <2>1. kind \in [CHUNKS -> PlaceKinds]
      BY <1>4
    <2> HIDE DEF kind, own
    <2>2. fast \in Seq(CHUNKS) /\ walked \in Seq(CHUNKS)
      BY ListsAreSequences
    <2>3. IsInjective(fast) /\ IsInjective(walked)
      BY <1>7, <1>8 DEF IsInjective
    <2>4. \A t \in THREADS : IsInjective(tcache[t]) /\ IsInjective(rest[t])
      BY <1>9, <1>10 DEF IsInjective
    <2> QED
      BY <1>4, <1>5, <1>6, <2>1, <2>2, <2>3, <2>4 DEF Whereabouts, InPlace
  <1>12. ListsOK(fast, walked)
    <2>1. \A t \in THREADS : pc[t] \in { "second", "pop" } => old[t] \in Range(fast)
      BY <1>1 DEF IndicesOf, Range
    <2> QED
      BY <1>1, <1>2, <2>1 DEF ListsOK, ListIn, IsList, OnePlaceEach
  <1> QED
    BY <1>11, <1>12 DEF Placed

\* And back.
LEMMA PlacedChunks ==
  ASSUME Placed
  PROVE  ChunksOK
  <1>1. PICK kind, own, fast, walked : Whereabouts(kind, own, fast, walked) /\ ListsOK(fast, walked)
    BY DEF Placed
  <1>2. fast \in Lists /\ walked \in Lists
    BY <1>1, NoLongerThanRow DEF Whereabouts, InPlace
  <1>3. ASSUME NEW c \in CHUNKS
        PROVE  \E x \in PlacesOf(c, fast, walked) : PlacesOf(c, fast, walked) = {x}
    <2> DEFINE P == PlacesOf(c, fast, walked)
    <2>1. P # {}
      <3>1. /\ c \in free_mem => <<"mem">> \in P
            /\ \A a \in held : c \in a => <<"held", a>> \in P
            /\ \A i \in DOMAIN fast : fast[i] = c => <<"fast", i>> \in P
            /\ \A i \in DOMAIN walked : walked[i] = c => <<"walked", i>> \in P
            /\ \A t \in THREADS : \A i \in DOMAIN tcache[t] : tcache[t][i] = c => <<"cache", t, i>> \in P
            /\ \A t \in THREADS : \A i \in DOMAIN rest[t] : rest[t][i] = c => <<"rest", t, i>> \in P
            /\ \A t \in THREADS : p[t] = c => <<"call", t>> \in P
        BY Members
      <3> HIDE DEF P
      <3>2. kind[c] \in PlaceKinds
        BY <1>1 DEF Whereabouts, InPlace
      <3>3. CASE kind[c] \in OwnedKinds
        <4>1. own[c] \in THREADS
          BY <1>1, <3>3 DEF Whereabouts, InPlace
        <4>2. \/ c \in Range(tcache[own[c]]) \/ c \in Range(rest[own[c]]) \/ p[own[c]] = c
          BY <1>1, <3>3, <4>1 DEF Whereabouts, InPlace, OwnedKinds
        <4> QED
          BY <3>1, <4>1, <4>2 DEF Range
      <3>4. CASE kind[c] \notin OwnedKinds
        <4>1. \/ c \in free_mem \/ (\E a \in held : c \in a)
              \/ c \in Range(fast) \/ c \in Range(walked)
          BY <1>1, <3>2, <3>4 DEF Whereabouts, InPlace, PlaceKinds
        <4> QED
          BY <3>1, <4>1 DEF Range
      <3> QED
        BY <3>3, <3>4
    <2>2. ASSUME NEW x \in P, NEW y \in P PROVE y = x
      <3>1. ASSUME NEW z \in P
            PROVE  \/ kind[c] = "mem" /\ z = <<"mem">>
                   \/ kind[c] = "held" /\ \E a \in held : c \in a /\ z = <<"held", a>>
                   \/ kind[c] = "fast" /\ \E i \in DOMAIN fast : fast[i] = c /\ z = <<"fast", i>>
                   \/ kind[c] = "walked" /\ \E i \in DOMAIN walked : walked[i] = c /\ z = <<"walked", i>>
                   \/ kind[c] = "cache" /\ \E i \in DOMAIN tcache[own[c]] : tcache[own[c]][i] = c /\ z = <<"cache", own[c], i>>
                   \/ kind[c] = "rest" /\ \E i \in DOMAIN rest[own[c]] : rest[own[c]][i] = c /\ z = <<"rest", own[c], i>>
                   \/ kind[c] = "call" /\ z = <<"call", own[c]>>
        <4>1. \/ c \in free_mem /\ z = <<"mem">>
              \/ \E a \in held : c \in a /\ z = <<"held", a>>
              \/ \E i \in DOMAIN fast : fast[i] = c /\ z = <<"fast", i>>
              \/ \E i \in DOMAIN walked : walked[i] = c /\ z = <<"walked", i>>
              \/ \E t \in THREADS : \E i \in DOMAIN tcache[t] : tcache[t][i] = c /\ z = <<"cache", t, i>>
              \/ \E t \in THREADS : \E i \in DOMAIN rest[t] : rest[t][i] = c /\ z = <<"rest", t, i>>
              \/ \E t \in THREADS : p[t] = c /\ z = <<"call", t>>
          BY Members
        <4>2. ASSUME NEW t \in THREADS
              PROVE  /\ \A i \in DOMAIN tcache[t] : tcache[t][i] = c => kind[c] = "cache" /\ own[c] = t
                     /\ \A i \in DOMAIN rest[t] : rest[t][i] = c => kind[c] = "rest" /\ own[c] = t
                     /\ p[t] = c => kind[c] = "call" /\ own[c] = t
          BY <1>1 DEF Whereabouts, InPlace, Range
        <4>3. /\ c \in free_mem => kind[c] = "mem"
              /\ \A a \in held : c \in a => kind[c] = "held"
              /\ \A i \in DOMAIN fast : fast[i] = c => kind[c] = "fast"
              /\ \A i \in DOMAIN walked : walked[i] = c => kind[c] = "walked"
          BY <1>1 DEF Whereabouts, InPlace, Range
        <4> HIDE DEF P
        <4> QED
          BY <4>1, <4>2, <4>3
      <3>2. \A a, b \in held : c \in a /\ c \in b => a = b
        BY <1>1 DEF Whereabouts, InPlace
      <3>3. /\ \A i, j \in DOMAIN fast : fast[i] = c /\ fast[j] = c => i = j
            /\ \A i, j \in DOMAIN walked : walked[i] = c /\ walked[j] = c => i = j
        BY <1>1 DEF Whereabouts, InPlace, IsInjective
      <3>4. own[c] \in THREADS =>
            /\ \A i, j \in DOMAIN tcache[own[c]] : tcache[own[c]][i] = c /\ tcache[own[c]][j] = c => i = j
            /\ \A i, j \in DOMAIN rest[own[c]] : rest[own[c]][i] = c /\ rest[own[c]][j] = c => i = j
        BY <1>1 DEF Whereabouts, InPlace, IsInjective
      <3>5. kind[c] \in OwnedKinds => own[c] \in THREADS
        BY <1>1 DEF Whereabouts, InPlace
      <3> HIDE DEF P
      <3>6. CASE kind[c] \in OwnedKinds
        BY <3>1, <3>4, <3>5, <3>6 DEF OwnedKinds
      <3>7. CASE kind[c] \notin OwnedKinds
        BY <3>1, <3>2, <3>3, <3>7 DEF OwnedKinds
      <3> QED
        BY <3>6, <3>7
    <2> HIDE DEF P
    <2>3. PICK x \in P : TRUE
      BY <2>1
    <2>4. P = {x}
      BY <2>2
    <2> QED
      BY <2>4 DEF P
  <1>4. \A t \in THREADS : pc[t] \in { "second", "pop" } => IndicesOf(old[t], fast) # {}
    BY <1>1 DEF ListsOK, IndicesOf, Range
  <1>5. IsList(fb, fast) /\ OnePlaceEach(fast, walked)
    BY <1>1, <1>3 DEF ListsOK, ListIn, IsList, OnePlaceEach
  <1> QED
    BY <1>2, <1>4, <1>5 DEF ChunksOK

-----------------------------------------------------------------------------
(* What a step keeps, apart from the places of chunks.                     *)

\* A call ends, or the shutdown goes on.
LEMMA Returned ==
  ASSUME TypeOK, NEW t \in THREADS, Return(t)
  PROVE  /\ pc' = [pc EXCEPT ![t] = IF task[t] = "exit" THEN "drain" ELSE "idle"]
         /\ task' = [task EXCEPT ![t] = IF task[t] = "exit" THEN "exit" ELSE "none"]
         /\ abort' = abort
  BY DEF Return, Goto, Set, TypeOK

\* ... which leads to a place.
LEMMA ReturnedTypes ==
  ASSUME TypeOK, NEW t \in THREADS, Return(t)
  PROVE  pc' \in [THREADS -> Places] /\ task' \in [THREADS -> Tasks]
  <1>1. \E x \in { "drain", "idle" } : pc' = [pc EXCEPT ![t] = x]
    BY Returned
  <1>2. \E x \in { "exit", "none" } : task' = [task EXCEPT ![t] = x]
    BY Returned
  <1>3. pc' \in [THREADS -> Places]
    BY <1>1 DEF TypeOK, Places
  <1>4. task' \in [THREADS -> Tasks]
    BY <1>2 DEF TypeOK, Tasks
  <1> QED
    BY <1>3, <1>4

\* A step changes nothing of another thread.
LEMMA OthersStay ==
  ASSUME NEW t \in THREADS, TypeOK, NEW u \in THREADS, Calls(t) \/ Step(t)
  PROVE  u # t => /\ pc'[u] = pc[u] /\ task'[u] = task[u] /\ p'[u] = p[u] /\ old'[u] = old[u] /\ list'[u] = list[u] /\ rest'[u] = rest[u]
                  /\ tcache'[u] = tcache[u] /\ tcache_on'[u] = tcache_on[u] /\ gone'[u] = gone[u]
                  /\ shutting_down'[u] = shutting_down[u] /\ structs'[u] = structs[u]
  <1> USE DEF TypeOK, At, Goto, Set, caches, locals, fastbin, sizes
  <1>1. CASE Malloc(t)
    BY <1>1 DEF Malloc, Call
  <1>2. CASE MallocLarge(t)
    BY <1>2 DEF MallocLarge, Call
  <1>3. CASE MallocOther(t)
    BY <1>3 DEF MallocOther, Call
  <1>4. CASE Free(t)
    BY <1>4 DEF Free, Call
  <1>5. CASE FreeLarge(t)
    BY <1>5 DEF FreeLarge, Call
  <1>6. CASE Exit(t)
    BY <1>6 DEF Exit, Call, mark_shutdown
  <1>7. CASE Drain(t)
    BY <1>7 DEF Drain
  <1>8. CASE MaybeInit(t)
    BY <1>8 DEF MaybeInit, after_init
  <1>9. CASE FromCache(t)
    BY <1>9 DEF FromCache, Return, Give
  <1>10. CASE ToCache(t)
    BY <1>10 DEF ToCache, Return, has_room
  <1>11. CASE ReadNext(t)
    BY <1>11 DEF ReadNext
  <1>12. CASE CompareNext(t)
    BY <1>12 DEF CompareNext, compare_again
  <1>13. CASE SetFlag(t)
    BY <1>13 DEF SetFlag
  <1>14. CASE ReadHead(t)
    BY <1>14 DEF ReadHead
  <1>15. CASE Link(t)
    BY <1>15 DEF Link
  <1>16. CASE Push(t)
    BY <1>16 DEF Push, Return, reread_head
  <1>17. CASE Lock(t)
    BY <1>17 DEF Lock
  <1>18. CASE ReadFirst(t)
    BY <1>18 DEF ReadFirst, has_room
  <1>19. CASE ReadSecond(t)
    BY <1>19 DEF ReadSecond
  <1>20. CASE Pop(t)
    BY <1>20 DEF Pop, still_first
  <1>21. CASE FromBins(t)
    BY <1>21 DEF FromBins, Give
  <1>22. CASE Unlock(t)
    BY <1>22 DEF Unlock, Return, Give
  <1>23. CASE Grow(t)
    BY <1>23 DEF Grow
  <1>24. CASE SetTop(t)
    BY <1>24 DEF SetTop
  <1>25. CASE Merge(t)
    BY <1>25 DEF Merge
  <1>26. CASE Trim(t)
    BY <1>26 DEF Trim
  <1>27. CASE ClearFlag(t)
    BY <1>27 DEF ClearFlag
  <1>28. CASE TakeList(t)
    BY <1>28 DEF TakeList, take_list
  <1>29. CASE Walk(t)
    BY <1>29 DEF Walk
  <1> QED
    BY <1>1, <1>2, <1>3, <1>4, <1>5, <1>6, <1>7, <1>8, <1>9, <1>10, <1>11, <1>12,
       <1>13, <1>14, <1>15, <1>16, <1>17, <1>18, <1>19, <1>20, <1>21, <1>22, <1>23,
       <1>24, <1>25, <1>26, <1>27, <1>28, <1>29 DEF Calls, Step

\* A thread is where its call gets to, and has the lock if it needs it.
LEMMA PlaceStep ==
  ASSUME NEW t \in THREADS, TypeOK, PlaceOK(t), Calls(t) \/ Step(t)
  PROVE  PlaceOK(t)'
  <1> USE NullIsNoChunk DEF TypeOK, PlaceOK, TasksAt, Freeing, Locked, At, Goto, Set,
         caches, locals, fastbin, sizes
  <1>1. CASE Malloc(t)
    BY <1>1 DEF Malloc, Call
  <1>2. CASE MallocLarge(t)
    BY <1>2 DEF MallocLarge, Call
  <1>3. CASE MallocOther(t)
    BY <1>3 DEF MallocOther, Call
  <1>4. CASE Free(t)
    BY <1>4 DEF Free, Call
  <1>5. CASE FreeLarge(t)
    BY <1>5 DEF FreeLarge, Call
  <1>6. CASE Exit(t)
    BY <1>6 DEF Exit, Call, mark_shutdown
  <1>7. CASE Drain(t)
    BY <1>7 DEF Drain
  <1>8. CASE MaybeInit(t)
    BY <1>8 DEF MaybeInit, after_init
  <1>9. CASE FromCache(t)
    <2>1. pc[t] = "cache" /\ mutex' = mutex
      BY <1>9 DEF FromCache
    <2>2. \/ pc' = [pc EXCEPT ![t] = "lock"] /\ task' = task
          \/ pc' = [pc EXCEPT ![t] = "idle"] /\ task' = [task EXCEPT ![t] = "none"]
          \/ pc' = [pc EXCEPT ![t] = "drain"] /\ task' = task /\ task[t] = "exit"
      BY <1>9 DEF FromCache, Return
    <2> QED
      BY <2>1, <2>2
  <1>10. CASE ToCache(t)
    BY <1>10 DEF ToCache, Return, has_room
  <1>11. CASE ReadNext(t)
    BY <1>11 DEF ReadNext
  <1>12. CASE CompareNext(t)
    BY <1>12 DEF CompareNext, compare_again
  <1>13. CASE SetFlag(t)
    BY <1>13 DEF SetFlag
  <1>14. CASE ReadHead(t)
    BY <1>14 DEF ReadHead
  <1>15. CASE Link(t)
    BY <1>15 DEF Link
  <1>16. CASE Push(t)
    BY <1>16 DEF Push, Return, reread_head
  <1>17. CASE Lock(t)
    BY <1>17 DEF Lock
  <1>18. CASE ReadFirst(t)
    BY <1>18 DEF ReadFirst, has_room
  <1>19. CASE ReadSecond(t)
    BY <1>19 DEF ReadSecond
  <1>20. CASE Pop(t)
    BY <1>20 DEF Pop, still_first
  <1>21. CASE FromBins(t)
    BY <1>21 DEF FromBins, Give
  <1>22. CASE Unlock(t)
    BY <1>22 DEF Unlock, Return, Give
  <1>23. CASE Grow(t)
    BY <1>23 DEF Grow
  <1>24. CASE SetTop(t)
    BY <1>24 DEF SetTop
  <1>25. CASE Merge(t)
    BY <1>25 DEF Merge
  <1>26. CASE Trim(t)
    BY <1>26 DEF Trim
  <1>27. CASE ClearFlag(t)
    BY <1>27 DEF ClearFlag
  <1>28. CASE TakeList(t)
    BY <1>28 DEF TakeList, take_list
  <1>29. CASE Walk(t)
    BY <1>29 DEF Walk
  <1> QED
    BY <1>1, <1>2, <1>3, <1>4, <1>5, <1>6, <1>7, <1>8, <1>9, <1>10, <1>11, <1>12,
       <1>13, <1>14, <1>15, <1>16, <1>17, <1>18, <1>19, <1>20, <1>21, <1>22, <1>23,
       <1>24, <1>25, <1>26, <1>27, <1>28, <1>29 DEF Calls, Step

\* Caches come and go as CacheOK says.
LEMMA CacheStep ==
  ASSUME NEW t \in THREADS, TypeOK, PlaceOK(t), HandOK(t), CacheOK(t), Calls(t) \/ Step(t)
  PROVE  CacheOK(t)'
  <1> USE NullIsNoChunk, FastFreeAssumption DEF TypeOK, TasksAt, Freeing, Locked, PlaceOK,
         HandOK, HasChunk, HasPair, CacheOK, At, Goto, Set, caches, locals, fastbin, sizes
  <1>1. CASE Malloc(t)
    BY <1>1 DEF Malloc, Call
  <1>2. CASE MallocLarge(t)
    BY <1>2 DEF MallocLarge, Call
  <1>3. CASE MallocOther(t)
    BY <1>3 DEF MallocOther, Call
  <1>4. CASE Free(t)
    BY <1>4 DEF Free, Call
  <1>5. CASE FreeLarge(t)
    BY <1>5 DEF FreeLarge, Call
  <1>6. CASE Exit(t)
    BY <1>6 DEF Exit, Call, mark_shutdown
  <1>7. CASE Drain(t)
    BY <1>7 DEF Drain
  <1>8. CASE MaybeInit(t)
    BY <1>8 DEF MaybeInit, after_init
  <1>9. CASE FromCache(t)
    BY <1>9 DEF FromCache, Return, Give
  <1>10. CASE ToCache(t)
    BY <1>10 DEF ToCache, Return, has_room
  <1>11. CASE ReadNext(t)
    BY <1>11 DEF ReadNext
  <1>12. CASE CompareNext(t)
    BY <1>12 DEF CompareNext, compare_again
  <1>13. CASE SetFlag(t)
    BY <1>13 DEF SetFlag
  <1>14. CASE ReadHead(t)
    BY <1>14 DEF ReadHead
  <1>15. CASE Link(t)
    BY <1>15 DEF Link
  <1>16. CASE Push(t)
    BY <1>16 DEF Push, Return, reread_head
  <1>17. CASE Lock(t)
    BY <1>17 DEF Lock
  <1>18. CASE ReadFirst(t)
    BY <1>18 DEF ReadFirst, has_room
  <1>19. CASE ReadSecond(t)
    BY <1>19 DEF ReadSecond
  <1>20. CASE Pop(t)
    BY <1>20 DEF Pop, still_first
  <1>21. CASE FromBins(t)
    BY <1>21 DEF FromBins, Give
  <1>22. CASE Unlock(t)
    BY <1>22 DEF Unlock, Return, Give
  <1>23. CASE Grow(t)
    BY <1>23 DEF Grow
  <1>24. CASE SetTop(t)
    BY <1>24 DEF SetTop
  <1>25. CASE Merge(t)
    BY <1>25 DEF Merge
  <1>26. CASE Trim(t)
    BY <1>26 DEF Trim
  <1>27. CASE ClearFlag(t)
    BY <1>27 DEF ClearFlag
  <1>28. CASE TakeList(t)
    BY <1>28 DEF TakeList, take_list
  <1>29. CASE Walk(t)
    BY <1>29 DEF Walk
  <1> QED
    BY <1>1, <1>2, <1>3, <1>4, <1>5, <1>6, <1>7, <1>8, <1>9, <1>10, <1>11, <1>12,
       <1>13, <1>14, <1>15, <1>16, <1>17, <1>18, <1>19, <1>20, <1>21, <1>22, <1>23,
       <1>24, <1>25, <1>26, <1>27, <1>28, <1>29 DEF Calls, Step

\* A thread has a chunk in hand where its call needs one.
LEMMA HandStep ==
  ASSUME NEW t \in THREADS, TypeOK, PlaceOK(t), HandOK(t), Calls(t) \/ Step(t)
  PROVE  HandOK(t)'
  <1> USE NullIsNoChunk, FastFreeAssumption DEF TypeOK, TasksAt, Freeing, Locked, PlaceOK,
         HandOK, HasChunk, HasPair, At, Goto, Set, caches, locals, fastbin, sizes
  <1>1. CASE Malloc(t)
    BY <1>1 DEF Malloc, Call
  <1>2. CASE MallocLarge(t)
    BY <1>2 DEF MallocLarge, Call
  <1>3. CASE MallocOther(t)
    BY <1>3 DEF MallocOther, Call
  <1>4. CASE Free(t)
    BY <1>4 DEF Free, Call
  <1>5. CASE FreeLarge(t)
    BY <1>5 DEF FreeLarge, Call
  <1>6. CASE Exit(t)
    BY <1>6 DEF Exit, Call, mark_shutdown
  <1>7. CASE Drain(t)
    BY <1>7 DEF Drain
  <1>8. CASE MaybeInit(t)
    BY <1>8 DEF MaybeInit, after_init
  <1>9. CASE FromCache(t)
    <2>1. p' = p /\ rest' = rest /\ pc[t] = "cache"
      BY <1>9 DEF FromCache
    <2>2. \/ pc' = [pc EXCEPT ![t] = "lock"] /\ task' = task
          \/ pc' = [pc EXCEPT ![t] = "idle"] /\ task' = [task EXCEPT ![t] = "none"]
          \/ pc' = [pc EXCEPT ![t] = "drain"] /\ task' = task
      BY <1>9 DEF FromCache, Return
    <2>3. p[t] = NULL /\ rest[t] = <<>>
      BY <2>1
    <2> QED
      BY <2>1, <2>2, <2>3
  <1>10. CASE ToCache(t)
    <2>1. rest' = rest /\ pc[t] = "put"
      BY <1>10 DEF ToCache
    <2>2. CASE has_room(t)
      <3>1. p'[t] = NULL /\ Return(t)
        BY <1>10, <2>2 DEF ToCache
      <3>2. \/ pc'[t] = "drain" /\ task'[t] = "exit" /\ task[t] = "exit"
            \/ pc'[t] = "idle" /\ task'[t] = "none" /\ task[t] # "exit"
        BY <3>1, Returned
      <3> QED
        BY <2>1, <3>1, <3>2
    <2>3. CASE ~has_room(t)
      <3>1. p' = p /\ pc'[t] = "next" /\ task' = task
        BY <1>10, <2>3 DEF ToCache
      <3> QED
        BY <2>1, <3>1
    <2> QED
      BY <2>2, <2>3
  <1>11. CASE ReadNext(t)
    BY <1>11 DEF ReadNext
  <1>12. CASE CompareNext(t)
    BY <1>12 DEF CompareNext, compare_again
  <1>13. CASE SetFlag(t)
    BY <1>13 DEF SetFlag
  <1>14. CASE ReadHead(t)
    BY <1>14 DEF ReadHead
  <1>15. CASE Link(t)
    BY <1>15 DEF Link
  <1>16. CASE Push(t)
    BY <1>16 DEF Push, Return, reread_head
  <1>17. CASE Lock(t)
    BY <1>17 DEF Lock
  <1>18. CASE ReadFirst(t)
    BY <1>18 DEF ReadFirst, has_room
  <1>19. CASE ReadSecond(t)
    BY <1>19 DEF ReadSecond
  <1>20. CASE Pop(t)
    BY <1>20 DEF Pop, still_first
  <1>21. CASE FromBins(t)
    BY <1>21 DEF FromBins, Give
  <1>22. CASE Unlock(t)
    BY <1>22 DEF Unlock, Return, Give
  <1>23. CASE Grow(t)
    BY <1>23 DEF Grow
  <1>24. CASE SetTop(t)
    BY <1>24 DEF SetTop
  <1>25. CASE Merge(t)
    BY <1>25 DEF Merge
  <1>26. CASE Trim(t)
    BY <1>26 DEF Trim
  <1>27. CASE ClearFlag(t)
    BY <1>27 DEF ClearFlag
  <1>28. CASE TakeList(t)
    BY <1>28 DEF TakeList, take_list
  <1>29. CASE Walk(t)
    BY <1>29 DEF Walk
  <1> QED
    BY <1>1, <1>2, <1>3, <1>4, <1>5, <1>6, <1>7, <1>8, <1>9, <1>10, <1>11, <1>12,
       <1>13, <1>14, <1>15, <1>16, <1>17, <1>18, <1>19, <1>20, <1>21, <1>22, <1>23,
       <1>24, <1>25, <1>26, <1>27, <1>28, <1>29 DEF Calls, Step

\* Only who has the lock gives it up, and only a free lock is taken.
LEMMA MutexStep ==
  ASSUME NEW t \in THREADS, TypeOK, PlaceOK(t), Calls(t) \/ Step(t)
  PROVE  mutex' = mutex \/ (mutex = NULL /\ mutex' = t) \/ (mutex = t /\ mutex' = NULL)
  <1> USE NullIsNoChunk DEF TypeOK, PlaceOK, Locked, At, Goto, Set, caches, locals, fastbin,
         sizes
  <1>1. CASE Malloc(t)
    BY <1>1 DEF Malloc, Call
  <1>2. CASE MallocLarge(t)
    BY <1>2 DEF MallocLarge, Call
  <1>3. CASE MallocOther(t)
    BY <1>3 DEF MallocOther, Call
  <1>4. CASE Free(t)
    BY <1>4 DEF Free, Call
  <1>5. CASE FreeLarge(t)
    BY <1>5 DEF FreeLarge, Call
  <1>6. CASE Exit(t)
    BY <1>6 DEF Exit, Call, mark_shutdown
  <1>7. CASE Drain(t)
    BY <1>7 DEF Drain
  <1>8. CASE MaybeInit(t)
    BY <1>8 DEF MaybeInit, after_init
  <1>9. CASE FromCache(t)
    BY <1>9 DEF FromCache, Return, Give
  <1>10. CASE ToCache(t)
    BY <1>10 DEF ToCache, Return, has_room
  <1>11. CASE ReadNext(t)
    BY <1>11 DEF ReadNext
  <1>12. CASE CompareNext(t)
    BY <1>12 DEF CompareNext, compare_again
  <1>13. CASE SetFlag(t)
    BY <1>13 DEF SetFlag
  <1>14. CASE ReadHead(t)
    BY <1>14 DEF ReadHead
  <1>15. CASE Link(t)
    BY <1>15 DEF Link
  <1>16. CASE Push(t)
    BY <1>16 DEF Push, Return, reread_head
  <1>17. CASE Lock(t)
    BY <1>17 DEF Lock
  <1>18. CASE ReadFirst(t)
    BY <1>18 DEF ReadFirst, has_room
  <1>19. CASE ReadSecond(t)
    BY <1>19 DEF ReadSecond
  <1>20. CASE Pop(t)
    BY <1>20 DEF Pop, still_first
  <1>21. CASE FromBins(t)
    BY <1>21 DEF FromBins, Give
  <1>22. CASE Unlock(t)
    BY <1>22 DEF Unlock, Return, Give
  <1>23. CASE Grow(t)
    BY <1>23 DEF Grow
  <1>24. CASE SetTop(t)
    BY <1>24 DEF SetTop
  <1>25. CASE Merge(t)
    BY <1>25 DEF Merge
  <1>26. CASE Trim(t)
    BY <1>26 DEF Trim
  <1>27. CASE ClearFlag(t)
    BY <1>27 DEF ClearFlag
  <1>28. CASE TakeList(t)
    BY <1>28 DEF TakeList, take_list
  <1>29. CASE Walk(t)
    BY <1>29 DEF Walk
  <1> QED
    BY <1>1, <1>2, <1>3, <1>4, <1>5, <1>6, <1>7, <1>8, <1>9, <1>10, <1>11, <1>12,
       <1>13, <1>14, <1>15, <1>16, <1>17, <1>18, <1>19, <1>20, <1>21, <1>22, <1>23,
       <1>24, <1>25, <1>26, <1>27, <1>28, <1>29 DEF Calls, Step

\* Top and the memory of the arena change together.
LEMMA SizesStep ==
  ASSUME NEW t \in THREADS, TypeOK, \A u \in THREADS : PlaceOK(u), SizesOK,
         \A u \in THREADS : u # t => pc'[u] = pc[u], Calls(t) \/ Step(t)
  PROVE  SizesOK'
  <1> USE NullIsNoChunk, FastFreeAssumption DEF TypeOK, SizesOK, At, Goto, Set, caches,
         locals, fastbin, sizes
  <1>1. CASE Malloc(t)
    <2>1. /\ top_size' = top_size /\ system_mem' = system_mem
          /\ pc[t] \notin { "grown", "trimmed" } /\ pc'[t] \notin { "grown", "trimmed" }
      BY <1>1 DEF Malloc, Call
    <2> QED
      BY <2>1
  <1>2. CASE MallocLarge(t)
    <2>1. /\ top_size' = top_size /\ system_mem' = system_mem
          /\ pc[t] \notin { "grown", "trimmed" } /\ pc'[t] \notin { "grown", "trimmed" }
      BY <1>2 DEF MallocLarge, Call
    <2> QED
      BY <2>1
  <1>3. CASE MallocOther(t)
    <2>1. /\ top_size' = top_size /\ system_mem' = system_mem
          /\ pc[t] \notin { "grown", "trimmed" } /\ pc'[t] \notin { "grown", "trimmed" }
      BY <1>3 DEF MallocOther, Call
    <2> QED
      BY <2>1
  <1>4. CASE Free(t)
    <2>1. /\ top_size' = top_size /\ system_mem' = system_mem
          /\ pc[t] \notin { "grown", "trimmed" } /\ pc'[t] \notin { "grown", "trimmed" }
      BY <1>4 DEF Free, Call
    <2> QED
      BY <2>1
  <1>5. CASE FreeLarge(t)
    <2>1. /\ top_size' = top_size /\ system_mem' = system_mem
          /\ pc[t] \notin { "grown", "trimmed" } /\ pc'[t] \notin { "grown", "trimmed" }
      BY <1>5 DEF FreeLarge, Call
    <2> QED
      BY <2>1
  <1>6. CASE Exit(t)
    <2>1. /\ top_size' = top_size /\ system_mem' = system_mem
          /\ pc[t] \notin { "grown", "trimmed" } /\ pc'[t] \notin { "grown", "trimmed" }
      BY <1>6 DEF Exit, Call, mark_shutdown
    <2> QED
      BY <2>1
  <1>7. CASE Drain(t)
    <2>1. /\ top_size' = top_size /\ system_mem' = system_mem
          /\ pc[t] \notin { "grown", "trimmed" } /\ pc'[t] \notin { "grown", "trimmed" }
      BY <1>7 DEF Drain
    <2> QED
      BY <2>1
  <1>8. CASE MaybeInit(t)
    <2>1. /\ top_size' = top_size /\ system_mem' = system_mem
          /\ pc[t] \notin { "grown", "trimmed" } /\ pc'[t] \notin { "grown", "trimmed" }
      BY <1>8 DEF MaybeInit, after_init
    <2> QED
      BY <2>1
  <1>9. CASE FromCache(t)
    <2>1. /\ top_size' = top_size /\ system_mem' = system_mem
          /\ pc[t] \notin { "grown", "trimmed" } /\ pc'[t] \notin { "grown", "trimmed" }
      BY <1>9 DEF FromCache, Return, Give
    <2> QED
      BY <2>1
  <1>10. CASE ToCache(t)
    <2>1. /\ top_size' = top_size /\ system_mem' = system_mem
          /\ pc[t] \notin { "grown", "trimmed" } /\ pc'[t] \notin { "grown", "trimmed" }
      BY <1>10 DEF ToCache, Return, has_room
    <2> QED
      BY <2>1
  <1>11. CASE ReadNext(t)
    <2>1. /\ top_size' = top_size /\ system_mem' = system_mem
          /\ pc[t] \notin { "grown", "trimmed" } /\ pc'[t] \notin { "grown", "trimmed" }
      BY <1>11 DEF ReadNext
    <2> QED
      BY <2>1
  <1>12. CASE CompareNext(t)
    <2>1. /\ top_size' = top_size /\ system_mem' = system_mem
          /\ pc[t] \notin { "grown", "trimmed" } /\ pc'[t] \notin { "grown", "trimmed" }
      BY <1>12 DEF CompareNext, compare_again
    <2> QED
      BY <2>1
  <1>13. CASE SetFlag(t)
    <2>1. /\ top_size' = top_size /\ system_mem' = system_mem
          /\ pc[t] \notin { "grown", "trimmed" } /\ pc'[t] \notin { "grown", "trimmed" }
      BY <1>13 DEF SetFlag
    <2> QED
      BY <2>1
  <1>14. CASE ReadHead(t)
    <2>1. /\ top_size' = top_size /\ system_mem' = system_mem
          /\ pc[t] \notin { "grown", "trimmed" } /\ pc'[t] \notin { "grown", "trimmed" }
      BY <1>14 DEF ReadHead
    <2> QED
      BY <2>1
  <1>15. CASE Link(t)
    <2>1. /\ top_size' = top_size /\ system_mem' = system_mem
          /\ pc[t] \notin { "grown", "trimmed" } /\ pc'[t] \notin { "grown", "trimmed" }
      BY <1>15 DEF Link
    <2> QED
      BY <2>1
  <1>16. CASE Push(t)
    <2>1. /\ top_size' = top_size /\ system_mem' = system_mem
          /\ pc[t] \notin { "grown", "trimmed" } /\ pc'[t] \notin { "grown", "trimmed" }
      BY <1>16 DEF Push, Return, reread_head
    <2> QED
      BY <2>1
  <1>17. CASE Lock(t)
    <2>1. /\ top_size' = top_size /\ system_mem' = system_mem
          /\ pc[t] \notin { "grown", "trimmed" } /\ pc'[t] \notin { "grown", "trimmed" }
      BY <1>17 DEF Lock
    <2> QED
      BY <2>1
  <1>18. CASE ReadFirst(t)
    <2>1. /\ top_size' = top_size /\ system_mem' = system_mem
          /\ pc[t] \notin { "grown", "trimmed" } /\ pc'[t] \notin { "grown", "trimmed" }
      BY <1>18 DEF ReadFirst, has_room
    <2> QED
      BY <2>1
  <1>19. CASE ReadSecond(t)
    <2>1. /\ top_size' = top_size /\ system_mem' = system_mem
          /\ pc[t] \notin { "grown", "trimmed" } /\ pc'[t] \notin { "grown", "trimmed" }
      BY <1>19 DEF ReadSecond
    <2> QED
      BY <2>1
  <1>20. CASE Pop(t)
    <2>1. /\ top_size' = top_size /\ system_mem' = system_mem
          /\ pc[t] \notin { "grown", "trimmed" } /\ pc'[t] \notin { "grown", "trimmed" }
      BY <1>20 DEF Pop, still_first
    <2> QED
      BY <2>1
  <1>21. CASE FromBins(t)
    <2>1. /\ top_size' = top_size /\ system_mem' = system_mem
          /\ pc[t] \notin { "grown", "trimmed" } /\ pc'[t] \notin { "grown", "trimmed" }
      BY <1>21 DEF FromBins, Give
    <2> QED
      BY <2>1
  <1>22. CASE Unlock(t)
    <2>1. /\ top_size' = top_size /\ system_mem' = system_mem
          /\ pc[t] \notin { "grown", "trimmed" } /\ pc'[t] \notin { "grown", "trimmed" }
      BY <1>22 DEF Unlock, Return, Give
    <2> QED
      BY <2>1
  <1>23. CASE Grow(t)
    <2>1. pc[t] \in Locked
      BY <1>23 DEF Grow, Locked
    <2>2. \A u \in THREADS : u # t => pc'[u] = pc[u] /\ pc[u] \notin { "grown", "trimmed" }
      BY <2>1 DEF PlaceOK, Locked
    <2>3. top_size \in Nat /\ LAST \in Nat /\ GROWN \in Nat /\ TRIMMED \in Nat
      OBVIOUS
    <2>4. /\ pc[t] = "grow" /\ pc'[t] = "grown"
          /\ system_mem' = system_mem + (GROWN - top_size)
      BY <1>23 DEF Grow
    <2>5. system_mem = LAST + 1 + top_size
      BY <2>2, <2>4
    <2>6. system_mem' = LAST + 1 + GROWN
      BY <2>3, <2>4, <2>5
    <2> QED
      BY <2>2, <2>4, <2>6
  <1>24. CASE SetTop(t)
    <2>1. pc[t] \in Locked
      BY <1>24 DEF SetTop, Locked
    <2>2. \A u \in THREADS : u # t => pc'[u] = pc[u] /\ pc[u] \notin { "grown", "trimmed" }
      BY <2>1 DEF PlaceOK, Locked
    <2>3. top_size \in Nat /\ LAST \in Nat /\ GROWN \in Nat /\ TRIMMED \in Nat
      OBVIOUS
    <2>4. system_mem' = system_mem /\ pc'[t] = "unlock"
      BY <1>24 DEF SetTop
    <2>5. \/ pc[t] = "grown" /\ top_size' = GROWN
          \/ pc[t] = "trimmed" /\ top_size' = TRIMMED
      BY <1>24 DEF SetTop
    <2>6. system_mem' = LAST + 1 + top_size'
      BY <2>4, <2>5
    <2> QED
      BY <2>2, <2>4, <2>6
  <1>25. CASE Merge(t)
    <2>1. /\ top_size' = top_size /\ system_mem' = system_mem
          /\ pc[t] \notin { "grown", "trimmed" } /\ pc'[t] \notin { "grown", "trimmed" }
      BY <1>25 DEF Merge
    <2> QED
      BY <2>1
  <1>26. CASE Trim(t)
    <2>1. pc[t] \in Locked
      BY <1>26 DEF Trim, Locked
    <2>2. \A u \in THREADS : u # t => pc'[u] = pc[u] /\ pc[u] \notin { "grown", "trimmed" }
      BY <2>1 DEF PlaceOK, Locked
    <2>3. top_size \in Nat /\ LAST \in Nat /\ GROWN \in Nat /\ TRIMMED \in Nat
      OBVIOUS
    <2>4. pc[t] = "trim" /\ top_size' = top_size
      BY <1>26 DEF Trim
    <2>5. system_mem = LAST + 1 + top_size
      BY <2>2, <2>4
    <2>6. CASE top_size = TRIMMED
      <3>1. system_mem' = system_mem /\ pc'[t] = "unlock"
        BY <1>26, <2>6 DEF Trim
      <3> QED
        BY <2>2, <2>4, <2>5, <3>1
    <2>7. CASE top_size # TRIMMED
      <3>1. system_mem' = system_mem - (top_size - TRIMMED) /\ pc'[t] = "trimmed"
        BY <1>26, <2>7 DEF Trim
      <3>2. system_mem' = LAST + 1 + TRIMMED
        BY <2>3, <2>5, <3>1
      <3> QED
        BY <2>2, <2>4, <3>1, <3>2
    <2> QED
      BY <2>6, <2>7
  <1>27. CASE ClearFlag(t)
    <2>1. /\ top_size' = top_size /\ system_mem' = system_mem
          /\ pc[t] \notin { "grown", "trimmed" } /\ pc'[t] \notin { "grown", "trimmed" }
      BY <1>27 DEF ClearFlag
    <2> QED
      BY <2>1
  <1>28. CASE TakeList(t)
    <2>1. /\ top_size' = top_size /\ system_mem' = system_mem
          /\ pc[t] \notin { "grown", "trimmed" } /\ pc'[t] \notin { "grown", "trimmed" }
      BY <1>28 DEF TakeList, take_list
    <2> QED
      BY <2>1
  <1>29. CASE Walk(t)
    <2>1. /\ top_size' = top_size /\ system_mem' = system_mem
          /\ pc[t] \notin { "grown", "trimmed" } /\ pc'[t] \notin { "grown", "trimmed" }
      BY <1>29 DEF Walk
    <2> QED
      BY <2>1
  <1> QED
    BY <1>1, <1>2, <1>3, <1>4, <1>5, <1>6, <1>7, <1>8, <1>9, <1>10, <1>11, <1>12,
       <1>13, <1>14, <1>15, <1>16, <1>17, <1>18, <1>19, <1>20, <1>21, <1>22, <1>23,
       <1>24, <1>25, <1>26, <1>27, <1>28, <1>29 DEF Calls, Step

\* No step calls malloc_printerr.
LEMMA AlarmStep ==
  ASSUME NEW t \in THREADS, NoFalseAlarm, TypeOK, \A u \in THREADS : PlaceOK(u),
         HandOK(t), ReadOK(t), SizesOK, Calls(t) \/ Step(t)
  PROVE  NoFalseAlarm'
  <1> USE DEF NoFalseAlarm, At, Goto, Set, caches, locals, fastbin, sizes
  <1>1. CASE Malloc(t)
    <2>1. abort' = abort
      BY <1>1 DEF Malloc, Call
    <2> QED
      BY <2>1
  <1>2. CASE MallocLarge(t)
    <2>1. abort' = abort
      BY <1>2 DEF MallocLarge, Call
    <2> QED
      BY <2>1
  <1>3. CASE MallocOther(t)
    <2>1. abort' = abort
      BY <1>3 DEF MallocOther, Call
    <2> QED
      BY <2>1
  <1>4. CASE Free(t)
    <2>1. abort' = abort
      BY <1>4 DEF Free, Call
    <2> QED
      BY <2>1
  <1>5. CASE FreeLarge(t)
    <2>1. abort' = abort
      BY <1>5 DEF FreeLarge, Call
    <2> QED
      BY <2>1
  <1>6. CASE Exit(t)
    <2>1. abort' = abort
      BY <1>6 DEF Exit, Call, mark_shutdown
    <2> QED
      BY <2>1
  <1>7. CASE Drain(t)
    <2>1. abort' = abort
      BY <1>7 DEF Drain
    <2> QED
      BY <2>1
  <1>8. CASE MaybeInit(t)
    <2>1. abort' = abort
      BY <1>8 DEF MaybeInit, after_init
    <2> QED
      BY <2>1
  <1>9. CASE FromCache(t)
    <2>1. abort' = abort
      BY <1>9 DEF FromCache, Return, Give
    <2> QED
      BY <2>1
  <1>10. CASE ToCache(t)
    <2>1. abort' = abort
      BY <1>10 DEF ToCache, Return, has_room
    <2> QED
      BY <2>1
  <1>11. CASE ReadNext(t)
    <2>1. abort' = abort
      BY <1>11 DEF ReadNext
    <2> QED
      BY <2>1
  <1>12. CASE CompareNext(t)
    <2>1. pc[t] = "compare" /\ p[t] \in CHUNKS
      BY <1>12, NullIsNoChunk DEF CompareNext, HandOK, HasChunk, Freeing, TypeOK
    <2>2. CASE mutex = NULL
      <3>1. \A u \in THREADS : pc[u] \notin { "grown", "trimmed" }
        BY <2>2, NullIsNoChunk DEF PlaceOK, Locked
      <3>2. system_mem = LAST + 1 + top_size
        BY <3>1 DEF SizesOK
      <3>3. nextsize(p[t]) < system_mem
        <4>1. p[t] \in Nat /\ p[t] >= 1 /\ LAST \in Nat /\ top_size \in Nat
          BY <2>1, FastFreeAssumption DEF CHUNKS, TypeOK
        <4>2. LAST - p[t] + top_size < LAST + 1 + top_size /\ (top_size >= 1 \/ LAST >= 1)
          BY <4>1, <2>1 DEF CHUNKS
        <4>3. 1 < LAST + 1 + top_size
          BY <4>1, <4>2
        <4> QED
          BY <3>2, <4>2, <4>3 DEF nextsize
      <3>4. nextsize(p[t]) \in Int
        <4>1. p[t] \in Nat /\ LAST \in Nat /\ top_size \in Nat
          BY <2>1, FastFreeAssumption DEF CHUNKS, TypeOK
        <4> QED
          BY <4>1 DEF nextsize
      <3>5. ~(nextsize(p[t]) >= system_mem)
        BY <3>3, <3>4 DEF TypeOK
      <3> HIDE DEF Set
      <3> QED
        BY <1>12, <3>5 DEF CompareNext, compare_again
    <2>3. CASE mutex # NULL
      BY <1>12, <2>3 DEF CompareNext, compare_again
    <2> QED
      BY <2>2, <2>3
  <1>13. CASE SetFlag(t)
    <2>1. abort' = abort
      BY <1>13 DEF SetFlag
    <2> QED
      BY <2>1
  <1>14. CASE ReadHead(t)
    <2>1. abort' = abort
      BY <1>14 DEF ReadHead
    <2> QED
      BY <2>1
  <1>15. CASE Link(t)
    <2>1. pc[t] = "link"
      BY <1>15 DEF Link
    <2>2. old[t] # p[t]
      BY <2>1 DEF ReadOK
    <2> QED
      BY <1>15, <2>2 DEF Link
  <1>16. CASE Push(t)
    <2>1. abort' = abort
      BY <1>16 DEF Push, Return, reread_head
    <2> QED
      BY <2>1
  <1>17. CASE Lock(t)
    <2>1. abort' = abort
      BY <1>17 DEF Lock
    <2> QED
      BY <2>1
  <1>18. CASE ReadFirst(t)
    <2>1. abort' = abort
      BY <1>18 DEF ReadFirst, has_room
    <2> QED
      BY <2>1
  <1>19. CASE ReadSecond(t)
    <2>1. abort' = abort
      BY <1>19 DEF ReadSecond
    <2> QED
      BY <2>1
  <1>20. CASE Pop(t)
    <2>1. abort' = abort
      BY <1>20 DEF Pop, still_first
    <2> QED
      BY <2>1
  <1>21. CASE FromBins(t)
    <2>1. abort' = abort
      BY <1>21 DEF FromBins, Give
    <2> QED
      BY <2>1
  <1>22. CASE Unlock(t)
    <2>1. abort' = abort
      BY <1>22 DEF Unlock, Return, Give
    <2> QED
      BY <2>1
  <1>23. CASE Grow(t)
    <2>1. abort' = abort
      BY <1>23 DEF Grow
    <2> QED
      BY <2>1
  <1>24. CASE SetTop(t)
    <2>1. abort' = abort
      BY <1>24 DEF SetTop
    <2> QED
      BY <2>1
  <1>25. CASE Merge(t)
    <2>1. abort' = abort
      BY <1>25 DEF Merge
    <2> QED
      BY <2>1
  <1>26. CASE Trim(t)
    <2>1. abort' = abort
      BY <1>26 DEF Trim
    <2> QED
      BY <2>1
  <1>27. CASE ClearFlag(t)
    <2>1. abort' = abort
      BY <1>27 DEF ClearFlag
    <2> QED
      BY <2>1
  <1>28. CASE TakeList(t)
    <2>1. abort' = abort
      BY <1>28 DEF TakeList, take_list
    <2> QED
      BY <2>1
  <1>29. CASE Walk(t)
    <2>1. abort' = abort
      BY <1>29 DEF Walk
    <2> QED
      BY <2>1
  <1> QED
    BY <1>1, <1>2, <1>3, <1>4, <1>5, <1>6, <1>7, <1>8, <1>9, <1>10, <1>11, <1>12,
       <1>13, <1>14, <1>15, <1>16, <1>17, <1>18, <1>19, <1>20, <1>21, <1>22, <1>23,
       <1>24, <1>25, <1>26, <1>27, <1>28, <1>29 DEF Calls, Step

\* An update of a function keeps its type.
LEMMA Updated ==
  ASSUME NEW S, NEW T, NEW f \in [S -> T], NEW g, NEW x,
         g = f \/ \E y \in T : g = [f EXCEPT ![x] = y]
  PROVE  g \in [S -> T]
  OBVIOUS

\* The two chunks of a pair.
LEMMA PairHalves ==
  ASSUME NEW a \in Pairs
  PROVE  /\ (CHOOSE c \in a : c + 1 \in a) \in CHUNKS /\ (CHOOSE c \in a : c - 1 \in a) \in CHUNKS
         /\ (CHOOSE c \in a : c + 1 \in a) # (CHOOSE c \in a : c - 1 \in a)
         /\ a = { CHOOSE c \in a : c + 1 \in a, CHOOSE c \in a : c - 1 \in a }
  <1>1. PICK b \in 1 .. LAST - 1 : a = {b, b + 1}
    BY DEF Pairs
  <1>2. b \in CHUNKS /\ b + 1 \in CHUNKS /\ b \in Int /\ b + 1 # b
    BY FastFreeAssumption DEF CHUNKS
  <1>3. \A c \in a : c + 1 \in a <=> c = b
    BY <1>1, <1>2
  <1>4. \A c \in a : c - 1 \in a <=> c = b + 1
    BY <1>1, <1>2
  <1>5. (CHOOSE c \in a : c + 1 \in a) = b
    BY <1>1, <1>3
  <1>6. (CHOOSE c \in a : c - 1 \in a) = b + 1
    BY <1>1, <1>4
  <1> QED
    BY <1>1, <1>2, <1>5, <1>6

\* The types of the lock, the memory and the program.
LEMMA TypeStep1 ==
  ASSUME NEW t \in THREADS, TypeOK, PlaceOK(t), HandOK(t), ReadOK(t), Calls(t) \/ Step(t)
  PROVE  (mutex \in THREADS \cup {NULL} /\ have_fastchunks \in BOOLEAN
         /\ free_mem \subseteq CHUNKS /\ held \subseteq SUBSET CHUNKS /\ top_size \in Nat /\ system_mem \in Int)'
  <1> USE NullIsNoChunk, FastFreeAssumption DEF TypeOK, PlaceOK, HandOK, HasChunk, HasPair,
         ReadOK, Freeing, Locked, Places, Tasks, TasksAt, At, Goto, Set, caches, locals,
         fastbin, sizes
  <1>1. CASE Malloc(t)
    BY <1>1 DEF Malloc, Call
  <1>2. CASE MallocLarge(t)
    BY <1>2 DEF MallocLarge, Call
  <1>3. CASE MallocOther(t)
    BY <1>3 DEF MallocOther, Call
  <1>4. CASE Free(t)
    BY <1>4 DEF Free, Call
  <1>5. CASE FreeLarge(t)
    BY <1>5 DEF FreeLarge, Call
  <1>6. CASE Exit(t)
    BY <1>6 DEF Exit, Call, mark_shutdown
  <1>7. CASE Drain(t)
    BY <1>7 DEF Drain
  <1>8. CASE MaybeInit(t)
    BY <1>8 DEF MaybeInit, after_init
  <1>9. CASE FromCache(t)
    <2>1. /\ mutex' = mutex /\ have_fastchunks' = have_fastchunks /\ free_mem' = free_mem
          /\ top_size' = top_size /\ system_mem' = system_mem
      BY <1>9 DEF FromCache
    <2>2. CASE tcache_on[t] /\ tcache[t] # <<>>
      <3>1. Head(tcache[t]) \in CHUNKS
        BY <2>2, HeadTailProperties
      <3>2. held' = held \cup {{Head(tcache[t])}}
        BY <1>9, <2>2 DEF FromCache, Give
      <3> QED
        BY <2>1, <3>1, <3>2
    <2>3. CASE ~(tcache_on[t] /\ tcache[t] # <<>>)
      <3>1. held' = held
        BY <1>9, <2>3 DEF FromCache
      <3> QED
        BY <2>1, <3>1
    <2> QED
      BY <2>2, <2>3
  <1>10. CASE ToCache(t)
    BY <1>10 DEF ToCache, Return, has_room
  <1>11. CASE ReadNext(t)
    BY <1>11 DEF ReadNext
  <1>12. CASE CompareNext(t)
    BY <1>12 DEF CompareNext, compare_again
  <1>13. CASE SetFlag(t)
    BY <1>13 DEF SetFlag
  <1>14. CASE ReadHead(t)
    BY <1>14 DEF ReadHead
  <1>15. CASE Link(t)
    BY <1>15 DEF Link
  <1>16. CASE Push(t)
    BY <1>16 DEF Push, Return, reread_head
  <1>17. CASE Lock(t)
    BY <1>17 DEF Lock
  <1>18. CASE ReadFirst(t)
    BY <1>18 DEF ReadFirst, has_room
  <1>19. CASE ReadSecond(t)
    BY <1>19 DEF ReadSecond
  <1>20. CASE Pop(t)
    BY <1>20 DEF Pop, still_first
  <1>21. CASE FromBins(t)
    <2>1. /\ mutex' = mutex /\ have_fastchunks' = have_fastchunks /\ top_size' = top_size
          /\ system_mem' = system_mem
      BY <1>21 DEF FromBins
    <2>2. \/ \E a \in SUBSET free_mem : free_mem' = free_mem \ a /\ Give(t, a)
          \/ free_mem' = free_mem /\ held' = held
      BY <1>21 DEF FromBins
    <2>3. CASE \E a \in SUBSET free_mem : free_mem' = free_mem \ a /\ Give(t, a)
      <3>1. PICK a \in SUBSET free_mem : free_mem' = free_mem \ a /\ Give(t, a)
        BY <2>3
      <3>2. a \subseteq CHUNKS /\ held \subseteq SUBSET CHUNKS /\ free_mem \subseteq CHUNKS
        OBVIOUS
      <3> HIDE DEF TypeOK, PlaceOK, HandOK, ReadOK, HasChunk, HasPair, TasksAt, Places,
             Tasks, Locked, Freeing
      <3>3. held' \subseteq SUBSET CHUNKS
        BY <3>1, <3>2 DEF Give
      <3>4. free_mem' \subseteq CHUNKS
        BY <3>1, <3>2
      <3> QED
        BY <2>1, <3>3, <3>4 DEF TypeOK
    <2> QED
      BY <2>1, <2>2, <2>3
  <1>22. CASE Unlock(t)
    BY <1>22 DEF Unlock, Return, Give
  <1>23. CASE Grow(t)
    BY <1>23 DEF Grow
  <1>24. CASE SetTop(t)
    BY <1>24 DEF SetTop
  <1>25. CASE Merge(t)
    <2>1. /\ mutex' = mutex /\ have_fastchunks' = have_fastchunks /\ held' = held
          /\ top_size' = top_size /\ system_mem' = system_mem
      BY <1>25 DEF Merge
    <2>2. free_mem' = free_mem \cup {rest[t][1], rest[t][2]}
      BY <1>25 DEF Merge
    <2>3. Len(rest[t]) = 2 /\ rest[t] \in Seq(CHUNKS)
      BY <1>25 DEF Merge
    <2>4. rest[t][1] \in CHUNKS /\ rest[t][2] \in CHUNKS
      <3>1. \A i \in 1 .. Len(rest[t]) : rest[t][i] \in CHUNKS
        BY <2>3, ElementOfSeq
      <3>2. 1 \in 1 .. Len(rest[t]) /\ 2 \in 1 .. Len(rest[t])
        BY <2>3
      <3> QED
        BY <3>1, <3>2
    <2> QED
      BY <2>1, <2>2, <2>4
  <1>26. CASE Trim(t)
    BY <1>26 DEF Trim
  <1>27. CASE ClearFlag(t)
    BY <1>27 DEF ClearFlag
  <1>28. CASE TakeList(t)
    BY <1>28 DEF TakeList, take_list
  <1>29. CASE Walk(t)
    <2>1. /\ mutex' = mutex /\ have_fastchunks' = have_fastchunks /\ held' = held
          /\ top_size' = top_size /\ system_mem' = system_mem
      BY <1>29 DEF Walk
    <2>2. free_mem' = free_mem \/ (list[t] # NULL /\ free_mem' = free_mem \cup {list[t]})
      BY <1>29 DEF Walk
    <2>3. list[t] # NULL => list[t] \in CHUNKS
      OBVIOUS
    <2> QED
      BY <2>1, <2>2, <2>3
  <1> QED
    BY <1>1, <1>2, <1>3, <1>4, <1>5, <1>6, <1>7, <1>8, <1>9, <1>10, <1>11, <1>12,
       <1>13, <1>14, <1>15, <1>16, <1>17, <1>18, <1>19, <1>20, <1>21, <1>22, <1>23,
       <1>24, <1>25, <1>26, <1>27, <1>28, <1>29 DEF Calls, Step

\* The types of the fastbin.
LEMMA TypeStep2 ==
  ASSUME NEW t \in THREADS, TypeOK, PlaceOK(t), HandOK(t), ReadOK(t), Calls(t) \/ Step(t)
  PROVE  (fb \in CHUNKS \cup {NULL} /\ fd \in [CHUNKS -> CHUNKS \cup {NULL}])'
  <1> USE NullIsNoChunk, FastFreeAssumption DEF TypeOK, PlaceOK, HandOK, HasChunk, HasPair,
         ReadOK, Freeing, Locked, Places, Tasks, TasksAt, At, Goto, Set, caches, locals,
         fastbin, sizes
  <1>1. CASE Malloc(t)
    BY <1>1 DEF Malloc, Call
  <1>2. CASE MallocLarge(t)
    BY <1>2 DEF MallocLarge, Call
  <1>3. CASE MallocOther(t)
    BY <1>3 DEF MallocOther, Call
  <1>4. CASE Free(t)
    BY <1>4 DEF Free, Call
  <1>5. CASE FreeLarge(t)
    BY <1>5 DEF FreeLarge, Call
  <1>6. CASE Exit(t)
    BY <1>6 DEF Exit, Call, mark_shutdown
  <1>7. CASE Drain(t)
    BY <1>7 DEF Drain
  <1>8. CASE MaybeInit(t)
    BY <1>8 DEF MaybeInit, after_init
  <1>9. CASE FromCache(t)
    BY <1>9 DEF FromCache, Return, Give
  <1>10. CASE ToCache(t)
    BY <1>10 DEF ToCache, Return, has_room
  <1>11. CASE ReadNext(t)
    BY <1>11 DEF ReadNext
  <1>12. CASE CompareNext(t)
    BY <1>12 DEF CompareNext, compare_again
  <1>13. CASE SetFlag(t)
    BY <1>13 DEF SetFlag
  <1>14. CASE ReadHead(t)
    BY <1>14 DEF ReadHead
  <1>15. CASE Link(t)
    <2>1. fb' = fb /\ (fd' = fd \/ fd' = [fd EXCEPT ![p[t]] = old[t]])
      BY <1>15 DEF Link
    <2>2. old[t] \in CHUNKS \cup {NULL} /\ p[t] \in CHUNKS
      BY <1>15 DEF Link
    <2>3. fd \in [CHUNKS -> CHUNKS \cup {NULL}] /\ fb' \in CHUNKS \cup {NULL}
      BY <2>1
    <2> HIDE DEF TypeOK, PlaceOK, HandOK, ReadOK, HasChunk, HasPair, TasksAt, Places, Tasks,
           Locked, Freeing
    <2>4. fd' \in [CHUNKS -> CHUNKS \cup {NULL}]
      BY <2>1, <2>2, <2>3, Updated
    <2> QED
      BY <2>3, <2>4
  <1>16. CASE Push(t)
    BY <1>16 DEF Push, Return, reread_head
  <1>17. CASE Lock(t)
    BY <1>17 DEF Lock
  <1>18. CASE ReadFirst(t)
    BY <1>18 DEF ReadFirst, has_room
  <1>19. CASE ReadSecond(t)
    BY <1>19 DEF ReadSecond
  <1>20. CASE Pop(t)
    <2>1. \/ fb' = fb /\ fd' = fd
          \/ fb' = list[t] /\ fd' = [fd EXCEPT ![old[t]] = NULL]
      BY <1>20 DEF Pop
    <2>2. fd \in [CHUNKS -> CHUNKS \cup {NULL}] /\ fb' \in CHUNKS \cup {NULL}
      BY <2>1
    <2> HIDE DEF TypeOK, PlaceOK, HandOK, ReadOK, HasChunk, HasPair, TasksAt, Places, Tasks,
           Locked, Freeing
    <2>3. fd' \in [CHUNKS -> CHUNKS \cup {NULL}]
      BY <2>1, <2>2, Updated
    <2> QED
      BY <2>2, <2>3
  <1>21. CASE FromBins(t)
    BY <1>21 DEF FromBins, Give
  <1>22. CASE Unlock(t)
    BY <1>22 DEF Unlock, Return, Give
  <1>23. CASE Grow(t)
    BY <1>23 DEF Grow
  <1>24. CASE SetTop(t)
    BY <1>24 DEF SetTop
  <1>25. CASE Merge(t)
    BY <1>25 DEF Merge
  <1>26. CASE Trim(t)
    BY <1>26 DEF Trim
  <1>27. CASE ClearFlag(t)
    BY <1>27 DEF ClearFlag
  <1>28. CASE TakeList(t)
    BY <1>28 DEF TakeList, take_list
  <1>29. CASE Walk(t)
    <2>1. fb' = fb /\ (fd' = fd \/ fd' = [fd EXCEPT ![list[t]] = NULL])
      BY <1>29 DEF Walk
    <2>2. fd \in [CHUNKS -> CHUNKS \cup {NULL}] /\ fb' \in CHUNKS \cup {NULL}
      BY <2>1
    <2> HIDE DEF TypeOK, PlaceOK, HandOK, ReadOK, HasChunk, HasPair, TasksAt, Places, Tasks,
           Locked, Freeing
    <2>3. fd' \in [CHUNKS -> CHUNKS \cup {NULL}]
      BY <2>1, <2>2, Updated
    <2> QED
      BY <2>2, <2>3
  <1> QED
    BY <1>1, <1>2, <1>3, <1>4, <1>5, <1>6, <1>7, <1>8, <1>9, <1>10, <1>11, <1>12,
       <1>13, <1>14, <1>15, <1>16, <1>17, <1>18, <1>19, <1>20, <1>21, <1>22, <1>23,
       <1>24, <1>25, <1>26, <1>27, <1>28, <1>29 DEF Calls, Step

\* The types of caches and of what is still to free.
LEMMA TypeStep3 ==
  ASSUME NEW t \in THREADS, TypeOK, PlaceOK(t), HandOK(t), ReadOK(t), Calls(t) \/ Step(t)
  PROVE  (tcache \in [THREADS -> Seq(CHUNKS)] /\ rest \in [THREADS -> Seq(CHUNKS)])'
  <1> USE NullIsNoChunk, FastFreeAssumption DEF TypeOK, PlaceOK, HandOK, HasChunk, HasPair,
         ReadOK, Freeing, Locked, Places, Tasks, TasksAt, At, Goto, Set, caches, locals,
         fastbin, sizes
  <1>1. CASE Malloc(t)
    BY <1>1 DEF Malloc, Call
  <1>2. CASE MallocLarge(t)
    BY <1>2 DEF MallocLarge, Call
  <1>3. CASE MallocOther(t)
    BY <1>3 DEF MallocOther, Call
  <1>4. CASE Free(t)
    BY <1>4 DEF Free, Call
  <1>5. CASE FreeLarge(t)
    <2>1. tcache' = tcache
      BY <1>5 DEF FreeLarge
    <2>2. PICK a \in Pairs : rest' = [rest EXCEPT ![t] = <<CHOOSE c \in a : c + 1 \in a, CHOOSE c \in a : c - 1 \in a>>]
      BY <1>5 DEF FreeLarge
    <2>3. /\ (CHOOSE c \in a : c + 1 \in a) \in CHUNKS
          /\ (CHOOSE c \in a : c - 1 \in a) \in CHUNKS
      BY PairHalves
    <2>4. <<CHOOSE c \in a : c + 1 \in a, CHOOSE c \in a : c - 1 \in a>> \in Seq(CHUNKS)
      BY <2>3
    <2> QED
      BY <2>1, <2>2, <2>4
  <1>6. CASE Exit(t)
    <2>1. CASE tcache_on[t]
      <3>1. rest' = [rest EXCEPT ![t] = tcache[t]] /\ tcache' = [tcache EXCEPT ![t] = <<>>]
        BY <1>6, <2>1 DEF Exit, Call, mark_shutdown
      <3> QED
        BY <3>1, EmptySeq
    <2>2. CASE ~(tcache_on[t])
      <3>1. rest' = rest /\ tcache' = tcache
        BY <1>6, <2>2 DEF Exit, Call, mark_shutdown
      <3> QED
        BY <3>1
    <2> QED
      BY <2>1, <2>2
  <1>7. CASE Drain(t)
    <2>1. tcache' = tcache /\ (rest' = rest \/ (rest[t] # <<>> /\ rest' = [rest EXCEPT ![t] = Tail(rest[t])]))
      BY <1>7 DEF Drain
    <2>2. rest[t] # <<>> => Tail(rest[t]) \in Seq(CHUNKS)
      BY HeadTailProperties
    <2>3. rest' = rest \/ \E s \in Seq(CHUNKS) : rest' = [rest EXCEPT ![t] = s]
      BY <2>1, <2>2
    <2>5. rest \in [THREADS -> Seq(CHUNKS)] /\ tcache' \in [THREADS -> Seq(CHUNKS)]
      BY <2>1
    <2> HIDE DEF TypeOK, PlaceOK, HandOK, ReadOK, HasChunk, HasPair, TasksAt, Places, Tasks,
           Locked, Freeing
    <2>6. rest' \in [THREADS -> Seq(CHUNKS)]
      BY <2>3, <2>5, Updated
    <2> QED
      BY <2>5, <2>6
  <1>8. CASE MaybeInit(t)
    BY <1>8 DEF MaybeInit, after_init
  <1>9. CASE FromCache(t)
    <2>1. rest' = rest /\ (tcache' = tcache \/ (tcache[t] # <<>> /\ tcache' = [tcache EXCEPT ![t] = Tail(tcache[t])]))
      BY <1>9 DEF FromCache
    <2>2. tcache[t] # <<>> => Tail(tcache[t]) \in Seq(CHUNKS)
      BY HeadTailProperties
    <2>3. tcache' = tcache \/ \E s \in Seq(CHUNKS) : tcache' = [tcache EXCEPT ![t] = s]
      BY <2>1, <2>2
    <2>5. tcache \in [THREADS -> Seq(CHUNKS)] /\ rest' \in [THREADS -> Seq(CHUNKS)]
      BY <2>1
    <2> HIDE DEF TypeOK, PlaceOK, HandOK, ReadOK, HasChunk, HasPair, TasksAt, Places, Tasks,
           Locked, Freeing
    <2>6. tcache' \in [THREADS -> Seq(CHUNKS)]
      BY <2>3, <2>5, Updated
    <2> QED
      BY <2>5, <2>6
  <1>10. CASE ToCache(t)
    <2>1. rest' = rest /\ (tcache' = tcache \/ tcache' = [tcache EXCEPT ![t] = <<p[t]>> \o tcache[t]])
      BY <1>10 DEF ToCache
    <2>2. p[t] \in CHUNKS
      BY <1>10 DEF ToCache
    <2>3. <<p[t]>> \o tcache[t] \in Seq(CHUNKS)
      BY <2>2, ConcatProperties
    <2>4. tcache' = tcache \/ \E s \in Seq(CHUNKS) : tcache' = [tcache EXCEPT ![t] = s]
      BY <2>1, <2>3
    <2>5. tcache \in [THREADS -> Seq(CHUNKS)] /\ rest' \in [THREADS -> Seq(CHUNKS)]
      BY <2>1
    <2> HIDE DEF TypeOK, PlaceOK, HandOK, ReadOK, HasChunk, HasPair, TasksAt, Places, Tasks,
           Locked, Freeing
    <2>6. tcache' \in [THREADS -> Seq(CHUNKS)]
      BY <2>4, <2>5, Updated
    <2> QED
      BY <2>5, <2>6
  <1>11. CASE ReadNext(t)
    BY <1>11 DEF ReadNext
  <1>12. CASE CompareNext(t)
    BY <1>12 DEF CompareNext, compare_again
  <1>13. CASE SetFlag(t)
    BY <1>13 DEF SetFlag
  <1>14. CASE ReadHead(t)
    BY <1>14 DEF ReadHead
  <1>15. CASE Link(t)
    BY <1>15 DEF Link
  <1>16. CASE Push(t)
    BY <1>16 DEF Push, Return, reread_head
  <1>17. CASE Lock(t)
    BY <1>17 DEF Lock
  <1>18. CASE ReadFirst(t)
    BY <1>18 DEF ReadFirst, has_room
  <1>19. CASE ReadSecond(t)
    BY <1>19 DEF ReadSecond
  <1>20. CASE Pop(t)
    <2>1. rest' = rest /\ (tcache' = tcache \/ tcache' = [tcache EXCEPT ![t] = <<old[t]>> \o tcache[t]])
      BY <1>20 DEF Pop
    <2>2. old[t] \in CHUNKS
      BY <1>20 DEF Pop
    <2>3. <<old[t]>> \o tcache[t] \in Seq(CHUNKS)
      BY <2>2, ConcatProperties
    <2>4. tcache' = tcache \/ \E s \in Seq(CHUNKS) : tcache' = [tcache EXCEPT ![t] = s]
      BY <2>1, <2>3
    <2>5. tcache \in [THREADS -> Seq(CHUNKS)] /\ rest' \in [THREADS -> Seq(CHUNKS)]
      BY <2>1
    <2> HIDE DEF TypeOK, PlaceOK, HandOK, ReadOK, HasChunk, HasPair, TasksAt, Places, Tasks,
           Locked, Freeing
    <2>6. tcache' \in [THREADS -> Seq(CHUNKS)]
      BY <2>4, <2>5, Updated
    <2> QED
      BY <2>5, <2>6
  <1>21. CASE FromBins(t)
    BY <1>21 DEF FromBins, Give
  <1>22. CASE Unlock(t)
    BY <1>22 DEF Unlock, Return, Give
  <1>23. CASE Grow(t)
    BY <1>23 DEF Grow
  <1>24. CASE SetTop(t)
    BY <1>24 DEF SetTop
  <1>25. CASE Merge(t)
    BY <1>25 DEF Merge
  <1>26. CASE Trim(t)
    BY <1>26 DEF Trim
  <1>27. CASE ClearFlag(t)
    BY <1>27 DEF ClearFlag
  <1>28. CASE TakeList(t)
    BY <1>28 DEF TakeList, take_list
  <1>29. CASE Walk(t)
    BY <1>29 DEF Walk
  <1> QED
    BY <1>1, <1>2, <1>3, <1>4, <1>5, <1>6, <1>7, <1>8, <1>9, <1>10, <1>11, <1>12,
       <1>13, <1>14, <1>15, <1>16, <1>17, <1>18, <1>19, <1>20, <1>21, <1>22, <1>23,
       <1>24, <1>25, <1>26, <1>27, <1>28, <1>29 DEF Calls, Step

\* The types of what is known of a cache.
LEMMA TypeStep4 ==
  ASSUME NEW t \in THREADS, TypeOK, PlaceOK(t), HandOK(t), ReadOK(t), Calls(t) \/ Step(t)
  PROVE  (tcache_on \in [THREADS -> BOOLEAN] /\ shutting_down \in [THREADS -> BOOLEAN]
         /\ structs \in [THREADS -> Int] /\ gone \in [THREADS -> { "no", "unused", "ended" }])'
  <1> USE NullIsNoChunk, FastFreeAssumption DEF TypeOK, PlaceOK, HandOK, HasChunk, HasPair,
         ReadOK, Freeing, Locked, Places, Tasks, TasksAt, At, Goto, Set, caches, locals,
         fastbin, sizes
  <1>1. CASE Malloc(t)
    BY <1>1 DEF Malloc, Call
  <1>2. CASE MallocLarge(t)
    BY <1>2 DEF MallocLarge, Call
  <1>3. CASE MallocOther(t)
    BY <1>3 DEF MallocOther, Call
  <1>4. CASE Free(t)
    BY <1>4 DEF Free, Call
  <1>5. CASE FreeLarge(t)
    BY <1>5 DEF FreeLarge, Call
  <1>6. CASE Exit(t)
    <2>1. structs' = structs /\ (tcache_on' = tcache_on \/ tcache_on' = [tcache_on EXCEPT ![t] = FALSE])
      BY <1>6 DEF Exit, Call
    <2>2. shutting_down' = shutting_down \/ shutting_down' = [shutting_down EXCEPT ![t] = TRUE]
      BY <1>6 DEF Exit, mark_shutdown
    <2>3. gone' \in [THREADS -> { "no", "unused", "ended" }]
      <3>1. \E x \in { "unused", "ended" } : gone' = [gone EXCEPT ![t] = x]
        BY <1>6 DEF Exit
      <3> QED
        BY <3>1
    <2>4. /\ tcache_on \in [THREADS -> BOOLEAN] /\ shutting_down \in [THREADS -> BOOLEAN]
          /\ structs' \in [THREADS -> Int]
      BY <2>1
    <2> HIDE DEF TypeOK, PlaceOK, HandOK, ReadOK, HasChunk, HasPair, TasksAt, Places, Tasks,
           Locked, Freeing
    <2>5. tcache_on' \in [THREADS -> BOOLEAN]
      BY <2>1, <2>4, Updated
    <2>6. shutting_down' \in [THREADS -> BOOLEAN]
      BY <2>2, <2>4, Updated
    <2> QED
      BY <2>3, <2>4, <2>5, <2>6
  <1>7. CASE Drain(t)
    BY <1>7 DEF Drain
  <1>8. CASE MaybeInit(t)
    <2>1. shutting_down' = shutting_down /\ gone' = gone
      BY <1>8 DEF MaybeInit
    <2>2. tcache_on' = tcache_on \/ tcache_on' = [tcache_on EXCEPT ![t] = TRUE]
      BY <1>8 DEF MaybeInit
    <2>3. structs' = structs \/ structs' = [structs EXCEPT ![t] = structs[t] + 1]
      BY <1>8 DEF MaybeInit
    <2>4. /\ tcache_on \in [THREADS -> BOOLEAN] /\ structs \in [THREADS -> Int] /\ structs[t] + 1 \in Int
          /\ shutting_down' \in [THREADS -> BOOLEAN] /\ gone' \in [THREADS -> { "no", "unused", "ended" }]
      BY <2>1
    <2> HIDE DEF TypeOK, PlaceOK, HandOK, ReadOK, HasChunk, HasPair, TasksAt, Places, Tasks,
           Locked, Freeing
    <2>5. tcache_on' \in [THREADS -> BOOLEAN]
      BY <2>2, <2>4, Updated
    <2>6. structs' \in [THREADS -> Int]
      BY <2>3, <2>4, Updated
    <2> QED
      BY <2>4, <2>5, <2>6
  <1>9. CASE FromCache(t)
    BY <1>9 DEF FromCache, Return, Give
  <1>10. CASE ToCache(t)
    BY <1>10 DEF ToCache, Return, has_room
  <1>11. CASE ReadNext(t)
    BY <1>11 DEF ReadNext
  <1>12. CASE CompareNext(t)
    BY <1>12 DEF CompareNext, compare_again
  <1>13. CASE SetFlag(t)
    BY <1>13 DEF SetFlag
  <1>14. CASE ReadHead(t)
    BY <1>14 DEF ReadHead
  <1>15. CASE Link(t)
    BY <1>15 DEF Link
  <1>16. CASE Push(t)
    BY <1>16 DEF Push, Return, reread_head
  <1>17. CASE Lock(t)
    BY <1>17 DEF Lock
  <1>18. CASE ReadFirst(t)
    BY <1>18 DEF ReadFirst, has_room
  <1>19. CASE ReadSecond(t)
    BY <1>19 DEF ReadSecond
  <1>20. CASE Pop(t)
    BY <1>20 DEF Pop, still_first
  <1>21. CASE FromBins(t)
    BY <1>21 DEF FromBins, Give
  <1>22. CASE Unlock(t)
    BY <1>22 DEF Unlock, Return, Give
  <1>23. CASE Grow(t)
    BY <1>23 DEF Grow
  <1>24. CASE SetTop(t)
    BY <1>24 DEF SetTop
  <1>25. CASE Merge(t)
    BY <1>25 DEF Merge
  <1>26. CASE Trim(t)
    BY <1>26 DEF Trim
  <1>27. CASE ClearFlag(t)
    BY <1>27 DEF ClearFlag
  <1>28. CASE TakeList(t)
    BY <1>28 DEF TakeList, take_list
  <1>29. CASE Walk(t)
    BY <1>29 DEF Walk
  <1> QED
    BY <1>1, <1>2, <1>3, <1>4, <1>5, <1>6, <1>7, <1>8, <1>9, <1>10, <1>11, <1>12,
       <1>13, <1>14, <1>15, <1>16, <1>17, <1>18, <1>19, <1>20, <1>21, <1>22, <1>23,
       <1>24, <1>25, <1>26, <1>27, <1>28, <1>29 DEF Calls, Step

\* The types of locals.
LEMMA TypeStep5 ==
  ASSUME NEW t \in THREADS, TypeOK, PlaceOK(t), HandOK(t), ReadOK(t), Calls(t) \/ Step(t)
  PROVE  (p \in [THREADS -> CHUNKS \cup {NULL}] /\ list \in [THREADS -> CHUNKS \cup {NULL}]
         /\ old \in [THREADS -> Int \cup {NULL}])'
  <1> USE NullIsNoChunk, FastFreeAssumption DEF TypeOK, PlaceOK, HandOK, HasChunk, HasPair,
         ReadOK, Freeing, Locked, Places, Tasks, TasksAt, At, Goto, Set, caches, locals,
         fastbin, sizes
  <1>1. CASE Malloc(t)
    BY <1>1 DEF Malloc, Call
  <1>2. CASE MallocLarge(t)
    BY <1>2 DEF MallocLarge, Call
  <1>3. CASE MallocOther(t)
    BY <1>3 DEF MallocOther, Call
  <1>4. CASE Free(t)
    BY <1>4 DEF Free, Call
  <1>5. CASE FreeLarge(t)
    BY <1>5 DEF FreeLarge, Call
  <1>6. CASE Exit(t)
    BY <1>6 DEF Exit, Call, mark_shutdown
  <1>7. CASE Drain(t)
    <2>1. list' = list /\ old' = old /\ (p' = p \/ (rest[t] # <<>> /\ p' = [p EXCEPT ![t] = Head(rest[t])]))
      BY <1>7 DEF Drain
    <2>2. rest[t] # <<>> => Head(rest[t]) \in CHUNKS
      BY HeadTailProperties
    <2>3. p' = p \/ \E c \in CHUNKS \cup {NULL} : p' = [p EXCEPT ![t] = c]
      BY <2>1, <2>2
    <2>4. /\ p \in [THREADS -> CHUNKS \cup {NULL}]
          /\ list' \in [THREADS -> CHUNKS \cup {NULL}]
          /\ old' \in [THREADS -> Int \cup {NULL}]
      BY <2>1
    <2> HIDE DEF TypeOK, PlaceOK, HandOK, ReadOK, HasChunk, HasPair, TasksAt, Places, Tasks,
           Locked, Freeing
    <2>5. p' \in [THREADS -> CHUNKS \cup {NULL}]
      BY <2>3, <2>4, Updated
    <2> QED
      BY <2>4, <2>5
  <1>8. CASE MaybeInit(t)
    BY <1>8 DEF MaybeInit, after_init
  <1>9. CASE FromCache(t)
    BY <1>9 DEF FromCache, Return, Give
  <1>10. CASE ToCache(t)
    <2>1. list' = list /\ old' = old /\ (p' = p \/ p' = [p EXCEPT ![t] = NULL])
      BY <1>10 DEF ToCache
    <2>2. /\ p \in [THREADS -> CHUNKS \cup {NULL}] /\ list' \in [THREADS -> CHUNKS \cup {NULL}]
          /\ old' \in [THREADS -> Int \cup {NULL}]
      BY <2>1
    <2> HIDE DEF TypeOK, PlaceOK, HandOK, ReadOK, HasChunk, HasPair, TasksAt, Places, Tasks,
           Locked, Freeing
    <2>3. p' \in [THREADS -> CHUNKS \cup {NULL}]
      BY <2>1, <2>2, Updated
    <2> QED
      BY <2>2, <2>3
  <1>11. CASE ReadNext(t)
    <2>1. /\ p' = p /\ list' = list /\ old' = [old EXCEPT ![t] = nextsize(p[t])]
          /\ p[t] \in CHUNKS
      BY <1>11 DEF ReadNext
    <2>2. p[t] \in Nat /\ LAST \in Nat /\ top_size \in Nat
      BY <2>1, NullIsNoChunk
    <2>3. nextsize(p[t]) \in Int
      BY <2>2 DEF nextsize
    <2> QED
      BY <2>1, <2>3
  <1>12. CASE CompareNext(t)
    BY <1>12 DEF CompareNext, compare_again
  <1>13. CASE SetFlag(t)
    BY <1>13 DEF SetFlag
  <1>14. CASE ReadHead(t)
    BY <1>14 DEF ReadHead
  <1>15. CASE Link(t)
    BY <1>15 DEF Link
  <1>16. CASE Push(t)
    <2>1. list' = list /\ (p' = p \/ p' = [p EXCEPT ![t] = NULL])
      BY <1>16 DEF Push
    <2>2. old' = [old EXCEPT ![t] = NULL] \/ old' = [old EXCEPT ![t] = fb]
      BY <1>16 DEF Push, reread_head
    <2>3. fb \in Int \cup {NULL}
      BY NullIsNoChunk
    <2>4. \E x \in Int \cup {NULL} : old' = [old EXCEPT ![t] = x]
      BY <2>2, <2>3
    <2>5. /\ p \in [THREADS -> CHUNKS \cup {NULL}]
          /\ list' \in [THREADS -> CHUNKS \cup {NULL}]
          /\ old \in [THREADS -> Int \cup {NULL}]
      BY <2>1
    <2> HIDE DEF TypeOK, PlaceOK, HandOK, ReadOK, HasChunk, HasPair, TasksAt, Places, Tasks,
           Locked, Freeing
    <2>7. p' \in [THREADS -> CHUNKS \cup {NULL}]
      BY <2>1, <2>5, Updated
    <2>6. old' \in [THREADS -> Int \cup {NULL}]
      BY <2>4, <2>5, Updated
    <2> QED
      BY <2>5, <2>6, <2>7
  <1>17. CASE Lock(t)
    BY <1>17 DEF Lock
  <1>18. CASE ReadFirst(t)
    BY <1>18 DEF ReadFirst, has_room
  <1>19. CASE ReadSecond(t)
    BY <1>19 DEF ReadSecond
  <1>20. CASE Pop(t)
    <2>1. /\ list' = [list EXCEPT ![t] = NULL] /\ old' = [old EXCEPT ![t] = NULL]
          /\ p' = p \/ p' = [p EXCEPT ![t] = old[t]]
      BY <1>20 DEF Pop
    <2>2. old[t] \in CHUNKS
      BY <1>20 DEF Pop
    <2>3. /\ p \in [THREADS -> CHUNKS \cup {NULL}] /\ list \in [THREADS -> CHUNKS \cup {NULL}]
          /\ old \in [THREADS -> Int \cup {NULL}]
      OBVIOUS
    <2> HIDE DEF TypeOK, PlaceOK, HandOK, ReadOK, HasChunk, HasPair, TasksAt, Places, Tasks,
           Locked, Freeing
    <2>4. p' \in [THREADS -> CHUNKS \cup {NULL}]
      BY <2>1, <2>2, <2>3, Updated
    <2>5. list' \in [THREADS -> CHUNKS \cup {NULL}]
      BY <2>1, <2>3, Updated
    <2>6. old' \in [THREADS -> Int \cup {NULL}]
      BY <2>1, <2>3, Updated
    <2> QED
      BY <2>4, <2>5, <2>6
  <1>21. CASE FromBins(t)
    BY <1>21 DEF FromBins, Give
  <1>22. CASE Unlock(t)
    BY <1>22 DEF Unlock, Return, Give
  <1>23. CASE Grow(t)
    BY <1>23 DEF Grow
  <1>24. CASE SetTop(t)
    BY <1>24 DEF SetTop
  <1>25. CASE Merge(t)
    BY <1>25 DEF Merge
  <1>26. CASE Trim(t)
    BY <1>26 DEF Trim
  <1>27. CASE ClearFlag(t)
    BY <1>27 DEF ClearFlag
  <1>28. CASE TakeList(t)
    BY <1>28 DEF TakeList, take_list
  <1>29. CASE Walk(t)
    <2>1. p' = p /\ old' = old /\ (list' = list \/ (list[t] # NULL /\ list' = [list EXCEPT ![t] = fd[list[t]]]))
      BY <1>29 DEF Walk
    <2>2. list[t] # NULL => fd[list[t]] \in CHUNKS \cup {NULL}
      OBVIOUS
    <2>3. /\ list \in [THREADS -> CHUNKS \cup {NULL}] /\ p' \in [THREADS -> CHUNKS \cup {NULL}]
          /\ old' \in [THREADS -> Int \cup {NULL}]
      BY <2>1
    <2> HIDE DEF TypeOK, PlaceOK, HandOK, ReadOK, HasChunk, HasPair, TasksAt, Places, Tasks,
           Locked, Freeing
    <2>4. list' \in [THREADS -> CHUNKS \cup {NULL}]
      BY <2>1, <2>2, <2>3, Updated
    <2> QED
      BY <2>3, <2>4
  <1> QED
    BY <1>1, <1>2, <1>3, <1>4, <1>5, <1>6, <1>7, <1>8, <1>9, <1>10, <1>11, <1>12,
       <1>13, <1>14, <1>15, <1>16, <1>17, <1>18, <1>19, <1>20, <1>21, <1>22, <1>23,
       <1>24, <1>25, <1>26, <1>27, <1>28, <1>29 DEF Calls, Step

\* The types of places and tasks.
LEMMA TypeStep6 ==
  ASSUME NEW t \in THREADS, TypeOK, PlaceOK(t), HandOK(t), ReadOK(t), Calls(t) \/ Step(t)
  PROVE  (pc \in [THREADS -> Places] /\ task \in [THREADS -> Tasks])'
  <1> USE NullIsNoChunk, FastFreeAssumption DEF TypeOK, PlaceOK, HandOK, HasChunk, HasPair,
         ReadOK, Freeing, Locked, Places, Tasks, TasksAt, At, Goto, Set, caches, locals,
         fastbin, sizes
  <1>1. CASE Malloc(t)
    BY <1>1 DEF Malloc, Call
  <1>2. CASE MallocLarge(t)
    BY <1>2 DEF MallocLarge, Call
  <1>3. CASE MallocOther(t)
    BY <1>3 DEF MallocOther, Call
  <1>4. CASE Free(t)
    BY <1>4 DEF Free, Call
  <1>5. CASE FreeLarge(t)
    BY <1>5 DEF FreeLarge, Call
  <1>6. CASE Exit(t)
    <2>1. CASE tcache_on[t]
      <3>1. pc' = [pc EXCEPT ![t] = "drain"] /\ task' = [task EXCEPT ![t] = "exit"]
        BY <1>6, <2>1 DEF Exit, Call, mark_shutdown
      <3> QED
        BY <3>1
    <2>2. CASE ~(tcache_on[t])
      <3>1. pc' = [pc EXCEPT ![t] = "idle"] /\ task' = [task EXCEPT ![t] = "none"]
        BY <1>6, <2>2 DEF Exit, Call, mark_shutdown
      <3> QED
        BY <3>1
    <2> QED
      BY <2>1, <2>2
  <1>7. CASE Drain(t)
    <2>1. CASE rest[t] # <<>>
      <3>1. pc' = [pc EXCEPT ![t] = "init"] /\ task' = task
        BY <1>7, <2>1 DEF Drain
      <3> QED
        BY <3>1
    <2>2. CASE ~(rest[t] # <<>>)
      <3>1. pc' = [pc EXCEPT ![t] = "idle"] /\ task' = [task EXCEPT ![t] = "none"]
        BY <1>7, <2>2 DEF Drain
      <3> QED
        BY <3>1
    <2> QED
      BY <2>1, <2>2
  <1>8. CASE MaybeInit(t)
    BY <1>8 DEF MaybeInit, after_init
  <1>9. CASE FromCache(t)
    <2>1. CASE tcache_on[t] /\ tcache[t] # <<>>
      <3>1. Return(t)
        BY <1>9, <2>1 DEF FromCache
      <3> QED
        BY <3>1, ReturnedTypes
    <2>2. CASE ~(tcache_on[t] /\ tcache[t] # <<>>)
      <3>1. task' = task /\ \E x \in { "lock", "next", "link" } : pc' = [pc EXCEPT ![t] = x]
        BY <1>9, <2>2 DEF FromCache
      <3> QED
        BY <3>1
    <2> QED
      BY <2>1, <2>2
  <1>10. CASE ToCache(t)
    <2>1. CASE has_room(t)
      <3>1. Return(t)
        BY <1>10, <2>1 DEF ToCache
      <3> QED
        BY <3>1, ReturnedTypes
    <2>2. CASE ~(has_room(t))
      <3>1. task' = task /\ \E x \in { "lock", "next", "link" } : pc' = [pc EXCEPT ![t] = x]
        BY <1>10, <2>2 DEF ToCache
      <3> QED
        BY <3>1
    <2> QED
      BY <2>1, <2>2
  <1>11. CASE ReadNext(t)
    BY <1>11 DEF ReadNext
  <1>12. CASE CompareNext(t)
    <2>1. task' = task /\ (pc' = pc \/ pc' = [pc EXCEPT ![t] = "flag"])
      BY <1>12 DEF CompareNext, compare_again
    <2>2. pc \in [THREADS -> Places] /\ task' \in [THREADS -> Tasks] /\ "flag" \in Places
      BY <2>1
    <2> HIDE DEF TypeOK, PlaceOK, HandOK, ReadOK, HasChunk, HasPair, TasksAt, Places, Tasks,
           Locked, Freeing
    <2>3. pc' \in [THREADS -> Places]
      BY <2>1, <2>2, Updated
    <2> QED
      BY <2>2, <2>3
  <1>13. CASE SetFlag(t)
    BY <1>13 DEF SetFlag
  <1>14. CASE ReadHead(t)
    BY <1>14 DEF ReadHead
  <1>15. CASE Link(t)
    <2>1. task' = task /\ (pc' = pc \/ pc' = [pc EXCEPT ![t] = "push"])
      BY <1>15 DEF Link
    <2>2. pc \in [THREADS -> Places] /\ task' \in [THREADS -> Tasks] /\ "push" \in Places
      BY <2>1
    <2> HIDE DEF TypeOK, PlaceOK, HandOK, ReadOK, HasChunk, HasPair, TasksAt, Places, Tasks,
           Locked, Freeing
    <2>3. pc' \in [THREADS -> Places]
      BY <2>1, <2>2, Updated
    <2> QED
      BY <2>2, <2>3
  <1>16. CASE Push(t)
    <2>1. CASE fb = old[t]
      <3>1. Return(t)
        BY <1>16, <2>1 DEF Push
      <3> QED
        BY <3>1, ReturnedTypes
    <2>2. CASE ~(fb = old[t])
      <3>1. task' = task /\ \E x \in { "lock", "next", "link" } : pc' = [pc EXCEPT ![t] = x]
        BY <1>16, <2>2 DEF Push
      <3> QED
        BY <3>1
    <2> QED
      BY <2>1, <2>2
  <1>17. CASE Lock(t)
    BY <1>17 DEF Lock
  <1>18. CASE ReadFirst(t)
    BY <1>18 DEF ReadFirst, has_room
  <1>19. CASE ReadSecond(t)
    BY <1>19 DEF ReadSecond
  <1>20. CASE Pop(t)
    BY <1>20 DEF Pop, still_first
  <1>21. CASE FromBins(t)
    <2>1. task' = task /\ \E x \in { "unlock", "clear", "null" } : pc' = [pc EXCEPT ![t] = x]
      BY <1>21 DEF FromBins, Give
    <2> QED
      BY <2>1
  <1>22. CASE Unlock(t)
    <2>1. Return(t)
      BY <1>22 DEF Unlock
    <2> QED
      BY <2>1, ReturnedTypes
  <1>23. CASE Grow(t)
    BY <1>23 DEF Grow
  <1>24. CASE SetTop(t)
    BY <1>24 DEF SetTop
  <1>25. CASE Merge(t)
    BY <1>25 DEF Merge
  <1>26. CASE Trim(t)
    <2>1. CASE top_size = TRIMMED
      <3>1. pc' = [pc EXCEPT ![t] = "unlock"] /\ task' = task
        BY <1>26, <2>1 DEF Trim
      <3> QED
        BY <3>1
    <2>2. CASE ~(top_size = TRIMMED)
      <3>1. pc' = [pc EXCEPT ![t] = "trimmed"] /\ task' = task
        BY <1>26, <2>2 DEF Trim
      <3> QED
        BY <3>1
    <2> QED
      BY <2>1, <2>2
  <1>27. CASE ClearFlag(t)
    BY <1>27 DEF ClearFlag
  <1>28. CASE TakeList(t)
    BY <1>28 DEF TakeList, take_list
  <1>29. CASE Walk(t)
    <2>1. CASE list[t] # NULL
      <3>1. pc' = pc /\ task' = task
        BY <1>29, <2>1 DEF Walk
      <3> QED
        BY <3>1
    <2>2. CASE ~(list[t] # NULL)
      <3>1. task' = task /\ \E x \in { "trim", "bins" } : pc' = [pc EXCEPT ![t] = x]
        BY <1>29, <2>2 DEF Walk
      <3> QED
        BY <3>1
    <2> QED
      BY <2>1, <2>2
  <1> QED
    BY <1>1, <1>2, <1>3, <1>4, <1>5, <1>6, <1>7, <1>8, <1>9, <1>10, <1>11, <1>12,
       <1>13, <1>14, <1>15, <1>16, <1>17, <1>18, <1>19, <1>20, <1>21, <1>22, <1>23,
       <1>24, <1>25, <1>26, <1>27, <1>28, <1>29 DEF Calls, Step

-----------------------------------------------------------------------------
(* Chunks that move.                                                       *)

\* A step leaves chunk d where it is.
Stays(d, fast, walked, fast2, walked2) ==
  /\ d \in free_mem' <=> d \in free_mem
  /\ \A a : d \in a => (a \in held' <=> a \in held)
  /\ d \in Range(fast2) <=> d \in Range(fast)
  /\ d \in Range(walked2) <=> d \in Range(walked)
  /\ \A t \in THREADS : /\ d \in Range(tcache'[t]) <=> d \in Range(tcache[t])
                        /\ d \in Range(rest'[t]) <=> d \in Range(rest[t])
                        /\ p'[t] = d <=> p[t] = d

\* Some chunks move to one kind of place, and all others stay.
LEMMA Moved ==
  ASSUME NEW kind, NEW own, NEW fast, NEW walked, Whereabouts(kind, own, fast, walked),
         NEW fast2 \in Seq(CHUNKS), IsInjective(fast2),
         NEW walked2 \in Seq(CHUNKS), IsInjective(walked2),
         \A t \in THREADS : IsInjective(tcache'[t]) /\ IsInjective(rest'[t]),
         NEW M, NEW k \in PlaceKinds, NEW o,
         \A d \in CHUNKS : d \notin M => Stays(d, fast, walked, fast2, walked2),
         \A c \in CHUNKS : c \in M => InPlace(c, k, o, fast2, walked2)'
  PROVE  \E kind2, own2 : Whereabouts(kind2, own2, fast2, walked2)'
  <1> DEFINE kind2 == [c \in CHUNKS |-> IF c \in M THEN k ELSE kind[c]]
             own2 == [c \in CHUNKS |-> IF c \in M THEN o ELSE own[c]]
  <1>1. kind2 \in [CHUNKS -> PlaceKinds]
    BY DEF Whereabouts
  <1>2. ASSUME NEW c \in CHUNKS PROVE InPlace(c, kind2[c], own2[c], fast2, walked2)'
    <2>1. CASE c \in M
      <3>1. kind2[c] = k /\ own2[c] = o
        BY <2>1
      <3> HIDE DEF kind2, own2
      <3> QED
        BY <2>1, <3>1
    <2>2. CASE c \notin M
      <3>1. kind2[c] = kind[c] /\ own2[c] = own[c]
        BY <2>2
      <3>2. /\ InPlace(c, kind[c], own[c], fast, walked)
            /\ Stays(c, fast, walked, fast2, walked2)
        BY <2>2 DEF Whereabouts
      <3> HIDE DEF kind2, own2
      <3>3. InPlace(c, kind[c], own[c], fast2, walked2)'
        <4> DEFINE k0 == kind[c]
                   o0 == own[c]
        <4> HIDE DEF k0, o0
        <4>1. InPlace(c, k0, o0, fast, walked)
          BY <3>2 DEF k0, o0
        <4>2. /\ k0 = "mem" <=> c \in free_mem'
              /\ k0 = "held" <=> \E a \in held' : c \in a
              /\ \A a, b \in held' : c \in a /\ c \in b => a = b
              /\ k0 = "fast" <=> c \in Range(fast2)
              /\ k0 = "walked" <=> c \in Range(walked2)
              /\ k0 \in OwnedKinds => o0 \in THREADS
          BY <3>2, <4>1 DEF Stays, InPlace
        <4>3. \A t \in THREADS : /\ k0 = "cache" /\ o0 = t <=> c \in Range(tcache'[t])
                                 /\ k0 = "rest" /\ o0 = t <=> c \in Range(rest'[t])
                                 /\ k0 = "call" /\ o0 = t <=> p'[t] = c
          BY <3>2, <4>1 DEF Stays, InPlace
        <4>4. InPlace(c, k0, o0, fast2, walked2)'
          BY <4>2, <4>3 DEF InPlace
        <4> QED
          BY <4>4 DEF k0, o0
      <3> QED
        BY <3>1, <3>3
    <2> QED
      BY <2>1, <2>2
  <1> HIDE DEF kind2, own2
  <1>3. Whereabouts(kind2, own2, fast2, walked2)'
    BY <1>1, <1>2 DEF Whereabouts
  <1> QED
    BY <1>3

\* A step of those that move no chunk.
LEMMA NoneMoved ==
  ASSUME NEW kind, NEW own, NEW fast, NEW walked, Whereabouts(kind, own, fast, walked),
         free_mem' = free_mem, held' = held, tcache' = tcache, rest' = rest, p' = p
  PROVE  \E kind2, own2 : Whereabouts(kind2, own2, fast, walked)'
  <1>1. Whereabouts(kind, own, fast, walked)'
    BY DEF Whereabouts, InPlace
  <1> QED
    BY <1>1

\* The steps that move chunks.
LEMMA QuietSteps ==
  ASSUME NEW t \in THREADS, TypeOK, Calls(t) \/ Step(t)
  PROVE  \/ /\ free_mem' = free_mem /\ held' = held
            /\ tcache' = tcache /\ rest' = rest /\ p' = p
         \/ Free(t) \/ FreeLarge(t) \/ Exit(t) \/ Drain(t) \/ FromCache(t) \/ ToCache(t) \/ Push(t)
         \/ Pop(t) \/ FromBins(t) \/ Unlock(t) \/ TakeList(t) \/ Walk(t) \/ Merge(t)
  <1> USE DEF At, Goto, Set, caches, locals, fastbin, sizes
  <1>1. CASE Malloc(t)
    BY <1>1 DEF Malloc, Call
  <1>2. CASE MallocLarge(t)
    BY <1>2 DEF MallocLarge, Call
  <1>3. CASE MallocOther(t)
    BY <1>3 DEF MallocOther, Call
  <1>4. CASE Free(t)
    BY <1>4
  <1>5. CASE FreeLarge(t)
    BY <1>5
  <1>6. CASE Exit(t)
    BY <1>6
  <1>7. CASE Drain(t)
    BY <1>7
  <1>8. CASE MaybeInit(t)
    BY <1>8 DEF MaybeInit, after_init
  <1>9. CASE FromCache(t)
    BY <1>9
  <1>10. CASE ToCache(t)
    BY <1>10
  <1>11. CASE ReadNext(t)
    BY <1>11 DEF ReadNext
  <1>12. CASE CompareNext(t)
    BY <1>12 DEF CompareNext, compare_again
  <1>13. CASE SetFlag(t)
    BY <1>13 DEF SetFlag
  <1>14. CASE ReadHead(t)
    BY <1>14 DEF ReadHead
  <1>15. CASE Link(t)
    BY <1>15 DEF Link
  <1>16. CASE Push(t)
    BY <1>16
  <1>17. CASE Lock(t)
    BY <1>17 DEF Lock
  <1>18. CASE ReadFirst(t)
    BY <1>18 DEF ReadFirst, has_room
  <1>19. CASE ReadSecond(t)
    BY <1>19 DEF ReadSecond
  <1>20. CASE Pop(t)
    BY <1>20
  <1>21. CASE FromBins(t)
    BY <1>21
  <1>22. CASE Unlock(t)
    BY <1>22
  <1>23. CASE Grow(t)
    BY <1>23 DEF Grow
  <1>24. CASE SetTop(t)
    BY <1>24 DEF SetTop
  <1>25. CASE Merge(t)
    BY <1>25
  <1>26. CASE Trim(t)
    BY <1>26 DEF Trim
  <1>27. CASE ClearFlag(t)
    BY <1>27 DEF ClearFlag
  <1>28. CASE TakeList(t)
    BY <1>28
  <1>29. CASE Walk(t)
    BY <1>29
  <1> QED
    BY <1>1, <1>2, <1>3, <1>4, <1>5, <1>6, <1>7, <1>8, <1>9, <1>10, <1>11, <1>12,
       <1>13, <1>14, <1>15, <1>16, <1>17, <1>18, <1>19, <1>20, <1>21, <1>22, <1>23,
       <1>24, <1>25, <1>26, <1>27, <1>28, <1>29 DEF Calls, Step

\* The steps that change the lists, or hold on to a part of one.
LEMMA ListSteps ==
  ASSUME NEW t \in THREADS, TypeOK, Calls(t) \/ Step(t)
  PROVE  \/ /\ fb' = fb
            /\ fd' = fd \/ (pc[t] = "link" /\ fd' = [fd EXCEPT ![p[t]] = old[t]])
            /\ pc[t] # "walk" /\ pc'[t] # "walk"
            /\ \/ pc'[t] \notin { "second", "pop" }
               \/ fb # NULL /\ old'[t] = fb
               \/ pc[t] = "second" /\ pc'[t] = "pop" /\ old'[t] = old[t]
         \/ Push(t) \/ Pop(t) \/ TakeList(t) \/ Walk(t)
  <1> USE DEF TypeOK, At, Goto, Set, caches, locals, fastbin, sizes
  <1>1. CASE Malloc(t)
    BY <1>1 DEF Malloc, Call
  <1>2. CASE MallocLarge(t)
    BY <1>2 DEF MallocLarge, Call
  <1>3. CASE MallocOther(t)
    BY <1>3 DEF MallocOther, Call
  <1>4. CASE Free(t)
    BY <1>4 DEF Free, Call
  <1>5. CASE FreeLarge(t)
    BY <1>5 DEF FreeLarge, Call
  <1>6. CASE Exit(t)
    BY <1>6 DEF Exit, Call, mark_shutdown
  <1>7. CASE Drain(t)
    BY <1>7 DEF Drain
  <1>8. CASE MaybeInit(t)
    BY <1>8 DEF MaybeInit, after_init
  <1>9. CASE FromCache(t)
    <2>1. fb' = fb /\ fd' = fd /\ pc[t] \in { "cache", "put", "unlock", "null" }
      BY <1>9 DEF FromCache, Return, Give
    <2>2. pc'[t] \in { "idle", "drain", "lock", "next" }
      <3>1. Return(t) \/ Goto(t, "lock") \/ Goto(t, "next")
        BY <1>9 DEF FromCache
      <3> QED
        BY <3>1, Returned DEF TypeOK, Goto
    <2> QED
      BY <2>1, <2>2
  <1>10. CASE ToCache(t)
    <2>1. fb' = fb /\ fd' = fd /\ pc[t] \in { "cache", "put", "unlock", "null" }
      BY <1>10 DEF ToCache, Return, has_room
    <2>2. pc'[t] \in { "idle", "drain", "lock", "next" }
      <3>1. Return(t) \/ Goto(t, "lock") \/ Goto(t, "next")
        BY <1>10 DEF ToCache
      <3> QED
        BY <3>1, Returned DEF TypeOK, Goto
    <2> QED
      BY <2>1, <2>2
  <1>11. CASE ReadNext(t)
    BY <1>11 DEF ReadNext
  <1>12. CASE CompareNext(t)
    BY <1>12 DEF CompareNext, compare_again
  <1>13. CASE SetFlag(t)
    BY <1>13 DEF SetFlag
  <1>14. CASE ReadHead(t)
    BY <1>14 DEF ReadHead
  <1>15. CASE Link(t)
    <2>1. pc[t] = "link" /\ fb' = fb /\ (fd' = fd \/ fd' = [fd EXCEPT ![p[t]] = old[t]])
      BY <1>15 DEF Link
    <2>2. pc'[t] \in { "link", "push" }
      BY <1>15 DEF Link, TypeOK
    <2> QED
      BY <2>1, <2>2
  <1>16. CASE Push(t)
    BY <1>16
  <1>17. CASE Lock(t)
    BY <1>17 DEF Lock
  <1>18. CASE ReadFirst(t)
    <2>1. pc[t] = "first" /\ fb' = fb /\ fd' = fd /\ old' = [old EXCEPT ![t] = fb]
      BY <1>18 DEF ReadFirst
    <2>2. fb # NULL \/ pc'[t] \in { "bins", "unlock" }
      BY <1>18 DEF ReadFirst, TypeOK
    <2>3. pc'[t] \in { "second", "bins", "unlock" }
      BY <1>18 DEF ReadFirst, TypeOK
    <2> QED
      BY <2>1, <2>2, <2>3 DEF TypeOK
  <1>19. CASE ReadSecond(t)
    BY <1>19 DEF ReadSecond
  <1>20. CASE Pop(t)
    BY <1>20
  <1>21. CASE FromBins(t)
    BY <1>21 DEF FromBins, Give
  <1>22. CASE Unlock(t)
    <2>1. fb' = fb /\ fd' = fd /\ pc[t] \in { "cache", "put", "unlock", "null" }
      BY <1>22 DEF Unlock, Return, Give
    <2>2. pc'[t] \in { "idle", "drain", "lock", "next" }
      <3>1. Return(t) \/ Goto(t, "lock") \/ Goto(t, "next")
        BY <1>22 DEF Unlock
      <3> QED
        BY <3>1, Returned DEF TypeOK, Goto
    <2> QED
      BY <2>1, <2>2
  <1>23. CASE Grow(t)
    BY <1>23 DEF Grow
  <1>24. CASE SetTop(t)
    BY <1>24 DEF SetTop
  <1>25. CASE Merge(t)
    BY <1>25 DEF Merge
  <1>26. CASE Trim(t)
    BY <1>26 DEF Trim
  <1>27. CASE ClearFlag(t)
    BY <1>27 DEF ClearFlag
  <1>28. CASE TakeList(t)
    BY <1>28
  <1>29. CASE Walk(t)
    BY <1>29
  <1> QED
    BY <1>1, <1>2, <1>3, <1>4, <1>5, <1>6, <1>7, <1>8, <1>9, <1>10, <1>11, <1>12,
       <1>13, <1>14, <1>15, <1>16, <1>17, <1>18, <1>19, <1>20, <1>21, <1>22, <1>23,
       <1>24, <1>25, <1>26, <1>27, <1>28, <1>29 DEF Calls, Step

-----------------------------------------------------------------------------
(* Where the chunks go, step by step.                                      *)

\* free: from the program into the call.
LEMMA FreeMoves ==
  ASSUME TypeOK, NEW t \in THREADS, PlaceOK(t), HandOK(t), Free(t),
         NEW kind, NEW own, NEW fast, NEW walked, Whereabouts(kind, own, fast, walked)
  PROVE  \E kind2, own2 : Whereabouts(kind2, own2, fast, walked)'
  <1>1. PICK c \in CHUNKS :
          /\ {c} \in held /\ held' = held \ {{c}} /\ free_mem' = free_mem
          /\ tcache' = tcache /\ rest' = rest /\ pc[t] = "idle"
          /\ \A u \in THREADS : p'[u] = IF u = t THEN c ELSE p[u]
    BY DEF Free, Call, TypeOK, At, Goto, Set, caches, locals, fastbin, sizes
  <1>2. /\ fast \in Seq(CHUNKS) /\ IsInjective(fast) /\ walked \in Seq(CHUNKS) /\ IsInjective(walked)
        /\ \A u \in THREADS : IsInjective(tcache[u]) /\ IsInjective(rest[u])
        /\ \A d \in CHUNKS : InPlace(d, kind[d], own[d], fast, walked)
    BY DEF Whereabouts
  <1>3. p[t] = NULL /\ NULL \notin CHUNKS
    BY <1>1, NullIsNoChunk DEF HandOK, HasChunk, Freeing
  <1>4. ASSUME NEW d \in CHUNKS, d \notin {c} PROVE Stays(d, fast, walked, fast, walked)
    BY <1>1, <1>3, <1>4 DEF Stays
  <1>5. ASSUME NEW d \in CHUNKS, d \in {c} PROVE InPlace(d, "call", t, fast, walked)'
    <2>1. InPlace(c, kind[c], own[c], fast, walked) /\ kind[c] = "held" /\ d = c
      BY <1>1, <1>2, <1>5 DEF InPlace
    <2>2. \A a \in held' : c \notin a
      BY <1>1, <2>1 DEF InPlace
    <2> QED
      BY <1>1, <2>1, <2>2 DEF InPlace, OwnedKinds
  <1>6. "call" \in PlaceKinds
    BY DEF PlaceKinds, OwnedKinds
  <1>7. \A u \in THREADS : IsInjective(tcache'[u]) /\ IsInjective(rest'[u])
    BY <1>1, <1>2
  <1> QED
    BY <1>2, <1>4, <1>5, <1>6, <1>7, Moved

\* free of a large chunk: from the program into the call.
LEMMA FreeLargeMoves ==
  ASSUME TypeOK, NEW t \in THREADS, PlaceOK(t), HandOK(t), FreeLarge(t),
         NEW kind, NEW own, NEW fast, NEW walked, Whereabouts(kind, own, fast, walked)
  PROVE  \E kind2, own2 : Whereabouts(kind2, own2, fast, walked)'
  <1>1. PICK a \in held \cap Pairs :
          /\ held' = held \ {a} /\ free_mem' = free_mem /\ pc[t] = "idle"
          /\ tcache' = tcache /\ p' = p
          /\ rest' = [rest EXCEPT ![t] = <<CHOOSE c \in a : c + 1 \in a, CHOOSE c \in a : c - 1 \in a>>]
    BY DEF FreeLarge, Call, At, Goto, Set, caches, locals, fastbin, sizes
  <1>2. /\ fast \in Seq(CHUNKS) /\ IsInjective(fast) /\ walked \in Seq(CHUNKS) /\ IsInjective(walked)
        /\ \A u \in THREADS : IsInjective(tcache[u]) /\ IsInjective(rest[u])
        /\ \A d \in CHUNKS : InPlace(d, kind[d], own[d], fast, walked)
    BY DEF Whereabouts
  <1>3. PICK x \in CHUNKS, y \in CHUNKS : x # y /\ a = {x, y} /\ rest' = [rest EXCEPT ![t] = <<x, y>>]
    BY <1>1, PairHalves
  <1>4. rest[t] = <<>>
    BY <1>1 DEF HandOK, HasPair, PlaceOK, TasksAt, Freeing
  <1>5. IsInjective(<<x, y>>) /\ Range(<<x, y>>) = a
    BY <1>3 DEF IsInjective, Range
  <1>6. \A u \in THREADS : rest'[u] = IF u = t THEN <<x, y>> ELSE rest[u]
    BY <1>3 DEF TypeOK
  <1>7. Range(rest[t]) = {}
    BY <1>4 DEF Range
  <1>8. ASSUME NEW d \in CHUNKS, d \notin a PROVE Stays(d, fast, walked, fast, walked)
    BY <1>1, <1>5, <1>6, <1>7, <1>8 DEF Stays
  <1>9. ASSUME NEW d \in CHUNKS, d \in a PROVE InPlace(d, "rest", t, fast, walked)'
    <2>1. InPlace(d, kind[d], own[d], fast, walked) /\ kind[d] = "held"
      BY <1>1, <1>2, <1>9 DEF InPlace
    <2>2. \A b \in held' : d \notin b
      BY <1>1, <1>9, <2>1 DEF InPlace
    <2>3. \A u \in THREADS : d \in Range(rest'[u]) <=> u = t
      BY <1>5, <1>6, <1>9, <2>1 DEF InPlace
    <2> QED
      BY <1>1, <2>1, <2>2, <2>3 DEF InPlace, OwnedKinds
  <1>10. "rest" \in PlaceKinds
    BY DEF PlaceKinds, OwnedKinds
  <1>11. \A u \in THREADS : IsInjective(tcache'[u]) /\ IsInjective(rest'[u])
    BY <1>1, <1>2, <1>5, <1>6
  <1> QED
    BY <1>2, <1>8, <1>9, <1>10, <1>11, Moved

\* The end of a thread: from its cache to what it has to free.
LEMMA ExitMoves ==
  ASSUME TypeOK, NEW t \in THREADS, PlaceOK(t), HandOK(t), Exit(t),
         NEW kind, NEW own, NEW fast, NEW walked, Whereabouts(kind, own, fast, walked)
  PROVE  \E kind2, own2 : Whereabouts(kind2, own2, fast, walked)'
  <1>1. CASE ~tcache_on[t]
    <2>1. free_mem' = free_mem /\ held' = held /\ tcache' = tcache /\ rest' = rest /\ p' = p
      BY <1>1 DEF Exit, Call, At, Goto, Set, caches, locals, fastbin, sizes
    <2> QED
      BY <2>1, NoneMoved
  <1>2. CASE tcache_on[t]
    <2>1. /\ free_mem' = free_mem /\ held' = held /\ p' = p /\ pc[t] = "idle"
          /\ \A u \in THREADS : tcache'[u] = IF u = t THEN <<>> ELSE tcache[u]
          /\ \A u \in THREADS : rest'[u] = IF u = t THEN tcache[t] ELSE rest[u]
      BY <1>2 DEF Exit, Call, TypeOK, At, Goto, Set, caches, locals, fastbin, sizes
    <2>2. /\ fast \in Seq(CHUNKS) /\ IsInjective(fast) /\ walked \in Seq(CHUNKS) /\ IsInjective(walked)
          /\ \A u \in THREADS : IsInjective(tcache[u]) /\ IsInjective(rest[u])
          /\ \A d \in CHUNKS : InPlace(d, kind[d], own[d], fast, walked)
      BY DEF Whereabouts
    <2>3. rest[t] = <<>>
      BY <2>1 DEF HandOK, HasPair, PlaceOK, TasksAt, Freeing
    <2>4. Range(<<>>) = {} /\ IsInjective(<<>>)
      BY DEF Range, IsInjective
    <2> DEFINE M == Range(tcache[t])
    <2>5. ASSUME NEW d \in CHUNKS, d \notin M PROVE Stays(d, fast, walked, fast, walked)
      BY <2>1, <2>3, <2>4, <2>5 DEF Stays
    <2>6. ASSUME NEW d \in CHUNKS, d \in M PROVE InPlace(d, "rest", t, fast, walked)'
      <3>1. InPlace(d, kind[d], own[d], fast, walked) /\ kind[d] = "cache" /\ own[d] = t
        BY <2>2, <2>6 DEF InPlace
      <3>2. \A u \in THREADS : d \in Range(rest'[u]) <=> u = t
        BY <2>1, <2>6, <3>1 DEF InPlace
      <3>3. \A u \in THREADS : d \notin Range(tcache'[u])
        BY <2>1, <2>4, <3>1 DEF InPlace
      <3> QED
        BY <2>1, <3>1, <3>2, <3>3 DEF InPlace, OwnedKinds
    <2>7. "rest" \in PlaceKinds
      BY DEF PlaceKinds, OwnedKinds
    <2>8. \A u \in THREADS : IsInjective(tcache'[u]) /\ IsInjective(rest'[u])
      BY <2>1, <2>2, <2>4
    <2> HIDE DEF M
    <2> QED
      BY <2>2, <2>5, <2>6, <2>7, <2>8, Moved
  <1> QED
    BY <1>1, <1>2

\* The next chunk of a thread that ends.
LEMMA DrainMoves ==
  ASSUME TypeOK, NEW t \in THREADS, PlaceOK(t), HandOK(t), Drain(t),
         NEW kind, NEW own, NEW fast, NEW walked, Whereabouts(kind, own, fast, walked)
  PROVE  \E kind2, own2 : Whereabouts(kind2, own2, fast, walked)'
  <1>1. CASE rest[t] = <<>>
    <2>1. free_mem' = free_mem /\ held' = held /\ tcache' = tcache /\ rest' = rest /\ p' = p
      BY <1>1 DEF Drain, At, Goto, Set, caches, locals, fastbin, sizes
    <2> QED
      BY <2>1, NoneMoved
  <1>2. CASE rest[t] # <<>>
    <2> DEFINE c == Head(rest[t])
               s == Tail(rest[t])
    <2>1. /\ free_mem' = free_mem /\ held' = held /\ tcache' = tcache /\ pc[t] = "drain"
          /\ \A u \in THREADS : p'[u] = IF u = t THEN c ELSE p[u]
          /\ \A u \in THREADS : rest'[u] = IF u = t THEN s ELSE rest[u]
      BY <1>2 DEF Drain, TypeOK, At, Goto, Set, caches, locals, fastbin, sizes
    <2>2. /\ fast \in Seq(CHUNKS) /\ IsInjective(fast) /\ walked \in Seq(CHUNKS) /\ IsInjective(walked)
          /\ \A u \in THREADS : IsInjective(tcache[u]) /\ IsInjective(rest[u])
          /\ \A d \in CHUNKS : InPlace(d, kind[d], own[d], fast, walked)
      BY DEF Whereabouts
    <2>3. p[t] = NULL /\ NULL \notin CHUNKS
      BY <2>1, NullIsNoChunk DEF HandOK, HasChunk, Freeing
    <2>4. /\ c \in CHUNKS /\ c \in Range(rest[t]) /\ IsInjective(s)
          /\ Range(s) = Range(rest[t]) \ {c}
      BY <1>2, <2>2, WithoutFirst DEF TypeOK
    <2> HIDE DEF c, s
    <2>5. ASSUME NEW d \in CHUNKS, d \notin {c} PROVE Stays(d, fast, walked, fast, walked)
      BY <2>1, <2>3, <2>4, <2>5 DEF Stays
    <2>6. ASSUME NEW d \in CHUNKS, d \in {c} PROVE InPlace(d, "call", t, fast, walked)'
      <3>1. InPlace(d, kind[d], own[d], fast, walked) /\ kind[d] = "rest" /\ own[d] = t
        BY <2>2, <2>4, <2>6 DEF InPlace
      <3>2. \A u \in THREADS : d \notin Range(rest'[u])
        BY <2>1, <2>4, <2>6, <3>1 DEF InPlace
      <3>3. \A u \in THREADS : p'[u] = d <=> u = t
        BY <2>1, <2>6, <3>1 DEF InPlace
      <3> QED
        BY <2>1, <3>1, <3>2, <3>3 DEF InPlace, OwnedKinds
    <2>7. "call" \in PlaceKinds
      BY DEF PlaceKinds, OwnedKinds
    <2>8. \A u \in THREADS : IsInjective(tcache'[u]) /\ IsInjective(rest'[u])
      BY <2>1, <2>2, <2>4
    <2> QED
      BY <2>2, <2>5, <2>6, <2>7, <2>8, Moved
  <1> QED
    BY <1>1, <1>2

\* malloc: from the cache to the program.
LEMMA FromCacheMoves ==
  ASSUME TypeOK, NEW t \in THREADS, PlaceOK(t), HandOK(t), FromCache(t),
         NEW kind, NEW own, NEW fast, NEW walked, Whereabouts(kind, own, fast, walked)
  PROVE  \E kind2, own2 : Whereabouts(kind2, own2, fast, walked)'
  <1>1. CASE ~(tcache_on[t] /\ tcache[t] # <<>>)
    <2>1. free_mem' = free_mem /\ held' = held /\ tcache' = tcache /\ rest' = rest /\ p' = p
      BY <1>1 DEF FromCache, At, Goto, Set, caches, locals, fastbin, sizes
    <2> QED
      BY <2>1, NoneMoved
  <1>2. CASE tcache_on[t] /\ tcache[t] # <<>>
    <2> DEFINE c == Head(tcache[t])
               s == Tail(tcache[t])
    <2>1. /\ free_mem' = free_mem /\ held' = held \cup {{c}} /\ rest' = rest /\ p' = p
          /\ \A u \in THREADS : tcache'[u] = IF u = t THEN s ELSE tcache[u]
      BY <1>2 DEF FromCache, Give, TypeOK, At, Goto, Set, caches, locals, fastbin, sizes
    <2>2. /\ fast \in Seq(CHUNKS) /\ IsInjective(fast) /\ walked \in Seq(CHUNKS) /\ IsInjective(walked)
          /\ \A u \in THREADS : IsInjective(tcache[u]) /\ IsInjective(rest[u])
          /\ \A d \in CHUNKS : InPlace(d, kind[d], own[d], fast, walked)
      BY DEF Whereabouts
    <2>3. /\ c \in CHUNKS /\ c \in Range(tcache[t]) /\ IsInjective(s)
          /\ Range(s) = Range(tcache[t]) \ {c}
      BY <1>2, <2>2, WithoutFirst DEF TypeOK
    <2> HIDE DEF c, s
    <2>4. ASSUME NEW d \in CHUNKS, d \notin {c} PROVE Stays(d, fast, walked, fast, walked)
      BY <2>1, <2>3, <2>4 DEF Stays
    <2>5. ASSUME NEW d \in CHUNKS, d \in {c} PROVE InPlace(d, "held", t, fast, walked)'
      <3>1. InPlace(d, kind[d], own[d], fast, walked) /\ kind[d] = "cache" /\ own[d] = t
        BY <2>2, <2>3, <2>5 DEF InPlace
      <3>2. \A u \in THREADS : d \notin Range(tcache'[u])
        BY <2>1, <2>3, <2>5, <3>1 DEF InPlace
      <3>3. \A a \in held' : d \in a <=> a = {d}
        BY <2>1, <2>5, <3>1 DEF InPlace
      <3>4. {d} \in held'
        BY <2>1, <2>5
      <3> QED
        BY <2>1, <3>1, <3>2, <3>3, <3>4 DEF InPlace, OwnedKinds
    <2>6. "held" \in PlaceKinds
      BY DEF PlaceKinds, OwnedKinds
    <2>7. \A u \in THREADS : IsInjective(tcache'[u]) /\ IsInjective(rest'[u])
      BY <2>1, <2>2, <2>3
    <2> QED
      BY <2>2, <2>4, <2>5, <2>6, <2>7, Moved
  <1> QED
    BY <1>1, <1>2

\* free: from the call to the cache.
LEMMA ToCacheMoves ==
  ASSUME TypeOK, NEW t \in THREADS, PlaceOK(t), HandOK(t), ToCache(t),
         NEW kind, NEW own, NEW fast, NEW walked, Whereabouts(kind, own, fast, walked)
  PROVE  \E kind2, own2 : Whereabouts(kind2, own2, fast, walked)'
  <1>1. CASE ~has_room(t)
    <2>1. free_mem' = free_mem /\ held' = held /\ tcache' = tcache /\ rest' = rest /\ p' = p
      BY <1>1 DEF ToCache, At, Goto, Set, caches, locals, fastbin, sizes
    <2> QED
      BY <2>1, NoneMoved
  <1>2. CASE has_room(t)
    <2> DEFINE c == p[t]
               s == <<c>> \o tcache[t]
    <2>1. /\ free_mem' = free_mem /\ held' = held /\ rest' = rest /\ pc[t] = "put"
          /\ \A u \in THREADS : p'[u] = IF u = t THEN NULL ELSE p[u]
          /\ \A u \in THREADS : tcache'[u] = IF u = t THEN s ELSE tcache[u]
      BY <1>2 DEF ToCache, TypeOK, At, Goto, Set, caches, locals, fastbin, sizes
    <2>2. /\ fast \in Seq(CHUNKS) /\ IsInjective(fast) /\ walked \in Seq(CHUNKS) /\ IsInjective(walked)
          /\ \A u \in THREADS : IsInjective(tcache[u]) /\ IsInjective(rest[u])
          /\ \A d \in CHUNKS : InPlace(d, kind[d], own[d], fast, walked)
      BY DEF Whereabouts
    <2>3. c \in CHUNKS /\ NULL \notin CHUNKS
      BY <2>1, NullIsNoChunk DEF HandOK, HasChunk, Freeing, TypeOK
    <2>4. InPlace(c, kind[c], own[c], fast, walked) /\ kind[c] = "call" /\ own[c] = t
      BY <2>2, <2>3 DEF InPlace
    <2>5. IsInjective(s) /\ Range(s) = Range(tcache[t]) \cup {c}
      <3>1. c \notin Range(tcache[t])
        BY <2>4 DEF InPlace
      <3>2. tcache[t] \in Seq(CHUNKS) /\ IsInjective(tcache[t])
        BY <2>2 DEF TypeOK
      <3> HIDE DEF c
      <3> QED
        BY <2>3, <3>1, <3>2, InFront
    <2>6. \A u \in THREADS : p[u] = c <=> u = t
      BY <2>4 DEF InPlace
    <2> HIDE DEF c, s
    <2>7. p[t] = c
      BY <2>6
    <2>8. ASSUME NEW d \in CHUNKS, d \notin {c} PROVE Stays(d, fast, walked, fast, walked)
      BY <2>1, <2>3, <2>5, <2>7, <2>8 DEF Stays
    <2>9. ASSUME NEW d \in CHUNKS, d \in {c} PROVE InPlace(d, "cache", t, fast, walked)'
      <3>1. d = c
        BY <2>9
      <3>2. \A u \in THREADS : c \in Range(tcache'[u]) <=> u = t
        BY <2>1, <2>4, <2>5 DEF InPlace
      <3>3. \A u \in THREADS : p'[u] # c
        BY <2>1, <2>3, <2>6
      <3> QED
        BY <2>1, <2>4, <3>1, <3>2, <3>3 DEF InPlace, OwnedKinds
    <2>10. "cache" \in PlaceKinds
      BY DEF PlaceKinds, OwnedKinds
    <2>11. \A u \in THREADS : IsInjective(tcache'[u]) /\ IsInjective(rest'[u])
      BY <2>1, <2>2, <2>5
    <2> QED
      BY <2>2, <2>8, <2>9, <2>10, <2>11, Moved
  <1> QED
    BY <1>1, <1>2

\* malloc: from the bins or top to the program.
LEMMA FromBinsMoves ==
  ASSUME TypeOK, NEW t \in THREADS, PlaceOK(t), HandOK(t), FromBins(t),
         NEW kind, NEW own, NEW fast, NEW walked, Whereabouts(kind, own, fast, walked)
  PROVE  \E kind2, own2 : Whereabouts(kind2, own2, fast, walked)'
  <1>1. \/ free_mem' = free_mem /\ held' = held
        \/ \E a \in SUBSET free_mem : a # {} /\ free_mem' = free_mem \ a /\ held' = held \cup {a}
    <2>1. \/ free_mem' = free_mem /\ held' = held
          \/ \E a \in SUBSET free_mem : free_mem' = free_mem \ a /\ Give(t, a)
      BY DEF FromBins
    <2> QED
      BY <2>1 DEF Give
  <1>2. tcache' = tcache /\ rest' = rest /\ p' = p
    BY DEF FromBins, At, Goto, Set, caches, locals, fastbin, sizes
  <1>3. CASE free_mem' = free_mem /\ held' = held
    BY <1>2, <1>3, NoneMoved
  <1>4. CASE \E a \in SUBSET free_mem : a # {} /\ free_mem' = free_mem \ a /\ held' = held \cup {a}
    <2>1. PICK a \in SUBSET free_mem : a # {} /\ free_mem' = free_mem \ a /\ held' = held \cup {a}
      BY <1>4
    <2>2. /\ fast \in Seq(CHUNKS) /\ IsInjective(fast) /\ walked \in Seq(CHUNKS) /\ IsInjective(walked)
          /\ \A u \in THREADS : IsInjective(tcache[u]) /\ IsInjective(rest[u])
          /\ \A d \in CHUNKS : InPlace(d, kind[d], own[d], fast, walked)
      BY DEF Whereabouts
    <2>3. ASSUME NEW d \in CHUNKS, d \notin a PROVE Stays(d, fast, walked, fast, walked)
      BY <1>2, <2>1, <2>3 DEF Stays
    <2>4. ASSUME NEW d \in CHUNKS, d \in a PROVE InPlace(d, "held", t, fast, walked)'
      <3>1. InPlace(d, kind[d], own[d], fast, walked) /\ kind[d] = "mem"
        BY <2>1, <2>2, <2>4 DEF InPlace
      <3>2. \A b \in held' : d \in b <=> b = a
        BY <2>1, <2>4, <3>1 DEF InPlace
      <3>3. a \in held' /\ d \notin free_mem'
        BY <2>1, <2>4
      <3> QED
        BY <1>2, <2>4, <3>1, <3>2, <3>3 DEF InPlace, OwnedKinds
    <2>5. "held" \in PlaceKinds
      BY DEF PlaceKinds, OwnedKinds
    <2>6. \A u \in THREADS : IsInjective(tcache'[u]) /\ IsInjective(rest'[u])
      BY <1>2, <2>2
    <2> QED
      BY <2>2, <2>3, <2>4, <2>5, <2>6, Moved
  <1> QED
    BY <1>1, <1>3, <1>4

\* The end of a call: what a malloc took, to the program.
LEMMA UnlockMoves ==
  ASSUME TypeOK, NEW t \in THREADS, PlaceOK(t), HandOK(t), Unlock(t),
         NEW kind, NEW own, NEW fast, NEW walked, Whereabouts(kind, own, fast, walked)
  PROVE  \E kind2, own2 : Whereabouts(kind2, own2, fast, walked)'
  <1>1. /\ free_mem' = free_mem /\ tcache' = tcache /\ rest' = rest
        /\ p' = [p EXCEPT ![t] = NULL]
        /\ held' = IF p[t] = NULL THEN held ELSE held \cup {{p[t]}}
    BY DEF Unlock, Give, At, Goto, Set, caches, locals, fastbin, sizes
  <1>2. CASE p[t] = NULL
    <2>1. p' = p /\ held' = held
      BY <1>1, <1>2 DEF TypeOK
    <2> QED
      BY <1>1, <2>1, NoneMoved
  <1>3. CASE p[t] # NULL
    <2> DEFINE c == p[t]
    <2>1. held' = held \cup {{c}} /\ c \in CHUNKS /\ NULL \notin CHUNKS
      BY <1>1, <1>3, NullIsNoChunk DEF TypeOK
    <2>2. \A u \in THREADS : p'[u] = IF u = t THEN NULL ELSE p[u]
      BY <1>1 DEF TypeOK
    <2>3. /\ fast \in Seq(CHUNKS) /\ IsInjective(fast) /\ walked \in Seq(CHUNKS) /\ IsInjective(walked)
          /\ \A u \in THREADS : IsInjective(tcache[u]) /\ IsInjective(rest[u])
          /\ \A d \in CHUNKS : InPlace(d, kind[d], own[d], fast, walked)
      BY DEF Whereabouts
    <2>4. InPlace(c, kind[c], own[c], fast, walked) /\ kind[c] = "call" /\ own[c] = t
      BY <2>1, <2>3 DEF InPlace
    <2>5. \A u \in THREADS : p[u] = c <=> u = t
      BY <2>4 DEF InPlace
    <2> HIDE DEF c
    <2>6. p[t] = c
      BY <2>5
    <2>7. ASSUME NEW d \in CHUNKS, d \notin {c} PROVE Stays(d, fast, walked, fast, walked)
      BY <1>1, <2>1, <2>2, <2>6, <2>7 DEF Stays
    <2>8. ASSUME NEW d \in CHUNKS, d \in {c} PROVE InPlace(d, "held", t, fast, walked)'
      <3>1. d = c
        BY <2>8
      <3>2. \A u \in THREADS : p'[u] # c
        BY <2>1, <2>2, <2>5
      <3>3. \A a \in held' : c \in a <=> a = {c}
        BY <2>1, <2>4 DEF InPlace
      <3>4. {c} \in held'
        BY <2>1
      <3> QED
        BY <1>1, <2>4, <3>1, <3>2, <3>3, <3>4 DEF InPlace, OwnedKinds
    <2>9. "held" \in PlaceKinds
      BY DEF PlaceKinds, OwnedKinds
    <2>10. \A u \in THREADS : IsInjective(tcache'[u]) /\ IsInjective(rest'[u])
      BY <1>1, <2>3
    <2> QED
      BY <2>3, <2>7, <2>8, <2>9, <2>10, Moved
  <1> QED
    BY <1>2, <1>3

\* free of a large chunk: from the call to the bins or top.
LEMMA MergeMoves ==
  ASSUME TypeOK, NEW t \in THREADS, PlaceOK(t), HandOK(t), Merge(t),
         NEW kind, NEW own, NEW fast, NEW walked, Whereabouts(kind, own, fast, walked)
  PROVE  \E kind2, own2 : Whereabouts(kind2, own2, fast, walked)'
  <1>1. /\ tcache' = tcache /\ p' = p /\ held' = held /\ pc[t] = "merge"
        /\ free_mem' = free_mem \cup {rest[t][1], rest[t][2]}
        /\ \A u \in THREADS : rest'[u] = IF u = t THEN <<>> ELSE rest[u]
    BY DEF Merge, TypeOK, At, Goto, Set, caches, locals, fastbin, sizes
  <1>2. /\ fast \in Seq(CHUNKS) /\ IsInjective(fast) /\ walked \in Seq(CHUNKS) /\ IsInjective(walked)
        /\ \A u \in THREADS : IsInjective(tcache[u]) /\ IsInjective(rest[u])
        /\ \A d \in CHUNKS : InPlace(d, kind[d], own[d], fast, walked)
    BY DEF Whereabouts
  <1>3. Len(rest[t]) = 2 /\ rest[t] \in Seq(CHUNKS)
    BY <1>1 DEF HandOK, HasPair, PlaceOK, TasksAt, Freeing, TypeOK
  <1> DEFINE M == Range(rest[t])
  <1>4. M = {rest[t][1], rest[t][2]}
    <2>1. DOMAIN rest[t] = 1 .. 2
      BY <1>3, LenProperties
    <2>2. \A i : i \in 1 .. 2 <=> i = 1 \/ i = 2
      OBVIOUS
    <2> QED
      BY <2>1, <2>2 DEF Range
  <1>5. free_mem' = free_mem \cup M
    BY <1>1, <1>4
  <1>6. Range(<<>>) = {} /\ IsInjective(<<>>)
    BY DEF Range, IsInjective
  <1>7. ASSUME NEW d \in CHUNKS, d \notin M PROVE Stays(d, fast, walked, fast, walked)
    BY <1>1, <1>5, <1>6, <1>7 DEF Stays
  <1>8. ASSUME NEW d \in CHUNKS, d \in M PROVE InPlace(d, "mem", t, fast, walked)'
    <2>1. InPlace(d, kind[d], own[d], fast, walked) /\ kind[d] = "rest" /\ own[d] = t
      BY <1>2, <1>8 DEF InPlace
    <2>2. \A u \in THREADS : d \notin Range(rest'[u])
      BY <1>1, <1>6, <2>1 DEF InPlace
    <2> QED
      BY <1>1, <1>5, <1>8, <2>1, <2>2 DEF InPlace, OwnedKinds
  <1>9. "mem" \in PlaceKinds
    BY DEF PlaceKinds, OwnedKinds
  <1>10. \A u \in THREADS : IsInjective(tcache'[u]) /\ IsInjective(rest'[u])
    BY <1>1, <1>2, <1>6
  <1> HIDE DEF M
  <1> QED
    BY <1>2, <1>7, <1>8, <1>9, <1>10, Moved

\* free: from the call to the fastbin.
LEMMA PushMoves ==
  ASSUME TypeOK, NEW t \in THREADS, PlaceOK(t), HandOK(t), Push(t),
         NEW kind, NEW own, NEW fast, NEW walked, Whereabouts(kind, own, fast, walked),
         fb = old[t], NEW f, f = Append(fast, p[t])
  PROVE  \E kind2, own2 : Whereabouts(kind2, own2, f, walked)'
  <1>1. /\ free_mem' = free_mem /\ held' = held /\ rest' = rest /\ tcache' = tcache /\ pc[t] = "push"
        /\ p' = [p EXCEPT ![t] = NULL]
    BY DEF Push, At, Goto, Set, caches, locals, fastbin, sizes
  <1> DEFINE c == p[t]
  <1>2. \A u \in THREADS : p'[u] = IF u = t THEN NULL ELSE p[u]
    BY <1>1 DEF TypeOK
  <1>3. /\ fast \in Seq(CHUNKS) /\ IsInjective(fast) /\ walked \in Seq(CHUNKS) /\ IsInjective(walked)
        /\ \A u \in THREADS : IsInjective(tcache[u]) /\ IsInjective(rest[u])
        /\ \A d \in CHUNKS : InPlace(d, kind[d], own[d], fast, walked)
    BY DEF Whereabouts
  <1>4. c \in CHUNKS /\ NULL \notin CHUNKS
    BY <1>1, NullIsNoChunk DEF HandOK, HasChunk, Freeing, TypeOK
  <1>5. InPlace(c, kind[c], own[c], fast, walked) /\ kind[c] = "call" /\ own[c] = t
    BY <1>3, <1>4 DEF InPlace
  <1>6. \A u \in THREADS : p[u] = c <=> u = t
    BY <1>5 DEF InPlace
  <1>7. f \in Seq(CHUNKS) /\ IsInjective(f) /\ Range(f) = Range(fast) \cup {c}
    <2>1. c \notin Range(fast)
      BY <1>5 DEF InPlace
    <2>2. f = Append(fast, c)
      OBVIOUS
    <2> HIDE DEF c
    <2> QED
      BY <1>3, <1>4, <2>1, <2>2, AtEnd
  <1> HIDE DEF c
  <1>8. p[t] = c
    BY <1>6
  <1>9. ASSUME NEW d \in CHUNKS, d \notin {c} PROVE Stays(d, fast, walked, f, walked)
    BY <1>1, <1>2, <1>4, <1>7, <1>8, <1>9 DEF Stays
  <1>10. ASSUME NEW d \in CHUNKS, d \in {c} PROVE InPlace(d, "fast", t, f, walked)'
    <2>1. d = c
      BY <1>10
    <2>2. \A u \in THREADS : p'[u] # c
      BY <1>2, <1>4, <1>6
    <2>3. c \in Range(f)
      BY <1>7
    <2> QED
      BY <1>1, <1>5, <2>1, <2>2, <2>3 DEF InPlace, OwnedKinds
  <1>11. "fast" \in PlaceKinds
    BY DEF PlaceKinds, OwnedKinds
  <1>12. \A u \in THREADS : IsInjective(tcache'[u]) /\ IsInjective(rest'[u])
    BY <1>1, <1>3
  <1> QED
    BY <1>3, <1>7, <1>9, <1>10, <1>11, <1>12, Moved

\* malloc: from the fastbin into the call or to the cache.
LEMMA PopMoves ==
  ASSUME TypeOK, NEW t \in THREADS, PlaceOK(t), HandOK(t), Pop(t),
         NEW kind, NEW own, NEW fast, NEW walked, Whereabouts(kind, own, fast, walked),
         fb = old[t], fast # <<>>, NEW c \in CHUNKS, c = old[t], c = fast[Len(fast)], NEW f, f = Front(fast)
  PROVE  \E kind2, own2 : Whereabouts(kind2, own2, f, walked)'
  <1>1. /\ free_mem' = free_mem /\ held' = held /\ rest' = rest
        /\ \/ p[t] = NULL /\ p' = [p EXCEPT ![t] = old[t]] /\ tcache' = tcache
           \/ p[t] # NULL /\ p' = p /\ tcache' = [tcache EXCEPT ![t] = <<old[t]>> \o tcache[t]]
    BY DEF Pop, still_first, At, Goto, Set, caches, locals, fastbin, sizes
  <1>2. /\ fast \in Seq(CHUNKS) /\ IsInjective(fast) /\ walked \in Seq(CHUNKS) /\ IsInjective(walked)
        /\ \A u \in THREADS : IsInjective(tcache[u]) /\ IsInjective(rest[u])
        /\ \A d \in CHUNKS : InPlace(d, kind[d], own[d], fast, walked)
    BY DEF Whereabouts
  <1>3. /\ IsInjective(f) /\ f \in Seq(CHUNKS) /\ Range(f) = Range(fast) \ {c}
        /\ c \in Range(fast)
    BY <1>2, WithoutLast
  <1>4. InPlace(c, kind[c], own[c], fast, walked) /\ kind[c] = "fast"
    BY <1>2, <1>3 DEF InPlace
  <1>5. NULL \notin CHUNKS
    BY NullIsNoChunk
  <1>6. CASE p[t] = NULL
    <2>1. tcache' = tcache /\ \A u \in THREADS : p'[u] = IF u = t THEN c ELSE p[u]
      BY <1>1, <1>6 DEF TypeOK
    <2>2. ASSUME NEW d \in CHUNKS, d \notin {c} PROVE Stays(d, fast, walked, f, walked)
      BY <1>1, <1>3, <1>5, <1>6, <2>1, <2>2 DEF Stays
    <2>3. ASSUME NEW d \in CHUNKS, d \in {c} PROVE InPlace(d, "call", t, f, walked)'
      <3>1. d = c /\ c \notin Range(f)
        BY <1>3, <2>3
      <3>2. \A u \in THREADS : p'[u] = c <=> u = t
        BY <1>4, <2>1 DEF InPlace
      <3> QED
        BY <1>1, <1>4, <2>1, <3>1, <3>2 DEF InPlace, OwnedKinds
    <2>4. "call" \in PlaceKinds
      BY DEF PlaceKinds, OwnedKinds
    <2>5. \A u \in THREADS : IsInjective(tcache'[u]) /\ IsInjective(rest'[u])
      BY <1>1, <1>2, <2>1
    <2> QED
      BY <1>2, <1>3, <2>2, <2>3, <2>4, <2>5, Moved
  <1>7. CASE p[t] # NULL
    <2> DEFINE s == <<c>> \o tcache[t]
    <2>1. p' = p /\ \A u \in THREADS : tcache'[u] = IF u = t THEN s ELSE tcache[u]
      BY <1>1, <1>7 DEF TypeOK
    <2>2. IsInjective(s) /\ Range(s) = Range(tcache[t]) \cup {c}
      <3>1. c \notin Range(tcache[t])
        BY <1>4 DEF InPlace
      <3>2. tcache[t] \in Seq(CHUNKS) /\ IsInjective(tcache[t])
        BY <1>2 DEF TypeOK
      <3> QED
        BY <3>1, <3>2, InFront
    <2> HIDE DEF s
    <2>3. ASSUME NEW d \in CHUNKS, d \notin {c} PROVE Stays(d, fast, walked, f, walked)
      BY <1>1, <1>3, <2>1, <2>2, <2>3 DEF Stays
    <2>4. ASSUME NEW d \in CHUNKS, d \in {c} PROVE InPlace(d, "cache", t, f, walked)'
      <3>1. d = c /\ c \notin Range(f)
        BY <1>3, <2>4
      <3>2. \A u \in THREADS : c \in Range(tcache'[u]) <=> u = t
        BY <1>4, <2>1, <2>2 DEF InPlace
      <3> QED
        BY <1>1, <1>4, <2>1, <3>1, <3>2 DEF InPlace, OwnedKinds
    <2>5. "cache" \in PlaceKinds
      BY DEF PlaceKinds, OwnedKinds
    <2>6. \A u \in THREADS : IsInjective(tcache'[u]) /\ IsInjective(rest'[u])
      BY <1>1, <1>2, <2>1, <2>2
    <2> QED
      BY <1>2, <1>3, <2>3, <2>4, <2>5, <2>6, Moved
  <1> QED
    BY <1>6, <1>7

\* Consolidation takes the whole fastbin.
LEMMA TakeListMoves ==
  ASSUME TypeOK, NEW t \in THREADS, PlaceOK(t), HandOK(t), TakeList(t),
         NEW kind, NEW own, NEW fast, NEW walked, Whereabouts(kind, own, fast, walked), walked = <<>>
  PROVE  \E kind2, own2 : Whereabouts(kind2, own2, <<>>, fast)'
  <1>1. /\ free_mem' = free_mem /\ held' = held /\ rest' = rest /\ tcache' = tcache /\ p' = p
    BY DEF TakeList, take_list, At, Goto, Set, caches, locals, fastbin, sizes
  <1>2. /\ fast \in Seq(CHUNKS) /\ IsInjective(fast)
        /\ \A u \in THREADS : IsInjective(tcache[u]) /\ IsInjective(rest[u])
        /\ \A d \in CHUNKS : InPlace(d, kind[d], own[d], fast, walked)
    BY DEF Whereabouts
  <1>3. Range(<<>>) = {} /\ IsInjective(<<>>) /\ <<>> \in Seq(CHUNKS)
    BY EmptySeq DEF Range, IsInjective
  <1>4. ASSUME NEW d \in CHUNKS, d \notin Range(fast) PROVE Stays(d, fast, walked, <<>>, fast)
    BY <1>1, <1>3, <1>4 DEF Stays
  <1>5. ASSUME NEW d \in CHUNKS, d \in Range(fast) PROVE InPlace(d, "walked", t, <<>>, fast)'
    <2>1. InPlace(d, kind[d], own[d], fast, walked) /\ kind[d] = "fast"
      BY <1>2, <1>5 DEF InPlace
    <2> QED
      BY <1>1, <1>3, <1>5, <2>1 DEF InPlace, OwnedKinds
  <1>6. "walked" \in PlaceKinds
    BY DEF PlaceKinds, OwnedKinds
  <1>7. \A u \in THREADS : IsInjective(tcache'[u]) /\ IsInjective(rest'[u])
    BY <1>1, <1>2
  <1> QED
    BY <1>2, <1>3, <1>4, <1>5, <1>6, <1>7, Moved

\* Consolidation: from the list to the bins or top.
LEMMA WalkMoves ==
  ASSUME TypeOK, NEW t \in THREADS, PlaceOK(t), HandOK(t), Walk(t),
         NEW kind, NEW own, NEW fast, NEW walked, Whereabouts(kind, own, fast, walked),
         NEW c \in CHUNKS, c = list[t], walked # <<>>, c = walked[Len(walked)], NEW w, w = Front(walked)
  PROVE  \E kind2, own2 : Whereabouts(kind2, own2, fast, w)'
  <1>1. /\ free_mem' = free_mem \cup {c} /\ held' = held /\ rest' = rest /\ tcache' = tcache /\ p' = p
    BY NullIsNoChunk DEF Walk, At, Goto, Set, caches, locals, fastbin, sizes
  <1>2. /\ fast \in Seq(CHUNKS) /\ IsInjective(fast) /\ walked \in Seq(CHUNKS) /\ IsInjective(walked)
        /\ \A u \in THREADS : IsInjective(tcache[u]) /\ IsInjective(rest[u])
        /\ \A d \in CHUNKS : InPlace(d, kind[d], own[d], fast, walked)
    BY DEF Whereabouts
  <1>3. /\ IsInjective(w) /\ w \in Seq(CHUNKS) /\ Range(w) = Range(walked) \ {c}
        /\ c \in Range(walked)
    BY <1>2, WithoutLast
  <1>4. ASSUME NEW d \in CHUNKS, d \notin {c} PROVE Stays(d, fast, walked, fast, w)
    BY <1>1, <1>3, <1>4 DEF Stays
  <1>5. ASSUME NEW d \in CHUNKS, d \in {c} PROVE InPlace(d, "mem", t, fast, w)'
    <2>1. /\ InPlace(c, kind[c], own[c], fast, walked) /\ kind[c] = "walked" /\ d = c
          /\ c \notin Range(w)
      BY <1>2, <1>3, <1>5 DEF InPlace
    <2> QED
      BY <1>1, <2>1 DEF InPlace, OwnedKinds
  <1>6. "mem" \in PlaceKinds
    BY DEF PlaceKinds, OwnedKinds
  <1>7. \A u \in THREADS : IsInjective(tcache'[u]) /\ IsInjective(rest'[u])
    BY <1>1, <1>2
  <1> QED
    BY <1>2, <1>3, <1>4, <1>5, <1>6, <1>7, Moved

-----------------------------------------------------------------------------
(* The lists, step by step.                                                *)

\* Two threads are never both in places that need the lock.
LEMMA OneLockHolder ==
  ASSUME \A u \in THREADS : PlaceOK(u), NEW t \in THREADS, pc[t] \in Locked,
         NEW u \in THREADS, u # t
  PROVE  pc[u] \notin Locked
  BY DEF PlaceOK

\* A chunk in a call is in no list.
LEMMA InNoList ==
  ASSUME NEW kind, NEW own, NEW fast, NEW walked, Whereabouts(kind, own, fast, walked),
         NEW t \in THREADS, p[t] \in CHUNKS
  PROVE  p[t] \notin Range(fast) /\ p[t] \notin Range(walked)
  BY DEF Whereabouts, InPlace

\* The head of the list is in the list.
LEMMA HeadListed ==
  ASSUME TypeOK, NEW fast \in Seq(CHUNKS), IsInjective(fast), ListIn(fd, fb, fast)
  PROVE  fb # NULL => fb \in CHUNKS /\ fb \in Range(fast) /\ fast # <<>> /\ fb = fast[Len(fast)]
  BY ListPopped DEF TypeOK

\* Other threads are in the same place with the same locals.
Same(t) ==
  \A u \in THREADS : u # t =>
    pc'[u] = pc[u] /\ old'[u] = old[u] /\ list'[u] = list[u] /\ p'[u] = p[u]

\* Most steps leave the lists alone: a free only links its own chunk.
LEMMA ListsKept ==
  ASSUME TypeOK, NEW t \in THREADS, HandOK(t), Same(t),
         NEW kind, NEW own, NEW fast, NEW walked, Whereabouts(kind, own, fast, walked),
         ListsOK(fast, walked),
         /\ fb' = fb
         /\ fd' = fd \/ (pc[t] = "link" /\ fd' = [fd EXCEPT ![p[t]] = old[t]])
         /\ pc[t] # "walk" /\ pc'[t] # "walk"
         /\ \/ pc'[t] \notin { "second", "pop" }
            \/ fb # NULL /\ old'[t] = fb
            \/ pc[t] = "second" /\ pc'[t] = "pop" /\ old'[t] = old[t]
  PROVE  ListsOK(fast, walked)'
  <1>1. \A x \in Range(fast) \cup Range(walked) : fd'[x] = fd[x]
    <2>1. CASE fd' = fd
      BY <2>1
    <2>2. CASE pc[t] = "link" /\ fd' = [fd EXCEPT ![p[t]] = old[t]]
      <3>1. p[t] \in CHUNKS
        BY <2>2 DEF TypeOK, HandOK, HasChunk, Freeing
      <3>2. p[t] \notin Range(fast) /\ p[t] \notin Range(walked)
        BY <3>1, InNoList
      <3> QED
        BY <2>2, <3>2 DEF TypeOK
    <2> QED
      BY <2>1, <2>2
  <1>2. ListIn(fd', fb', fast)
    <2>1. ListIn(fd, fb, fast) /\ fb' = fb
      BY DEF ListsOK
    <2> QED
      BY <1>1, <2>1, ListStays
  <1>3. \A u \in THREADS : pc'[u] = "walk" => ListIn(fd', list'[u], walked)
    <2> SUFFICES ASSUME NEW u \in THREADS, pc'[u] = "walk" PROVE ListIn(fd', list'[u], walked)
      OBVIOUS
    <2>1. u # t /\ pc[u] = "walk" /\ list'[u] = list[u]
      BY DEF Same
    <2>2. ListIn(fd, list[u], walked)
      BY <2>1 DEF ListsOK
    <2> QED
      BY <1>1, <2>1, <2>2, ListStays
  <1>4. \A u \in THREADS : pc'[u] \in { "second", "pop" } => old'[u] \in Range(fast)
    <2> SUFFICES ASSUME NEW u \in THREADS, pc'[u] \in { "second", "pop" }
                 PROVE  old'[u] \in Range(fast)
      OBVIOUS
    <2>1. CASE u # t
      BY <2>1 DEF Same, ListsOK
    <2>2. CASE u = t
      <3>1. fb # NULL => fb \in Range(fast)
        BY HeadListed DEF Whereabouts, ListsOK
      <3>2. pc[t] = "second" => old[t] \in Range(fast)
        BY DEF ListsOK
      <3> QED
        BY <2>2, <3>1, <3>2
    <2> QED
      BY <2>1, <2>2
  <1>5. (\A u \in THREADS : pc'[u] # "walk") => walked = <<>>
    BY DEF Same, ListsOK
  <1> QED
    BY <1>2, <1>3, <1>4, <1>5 DEF ListsOK

\* A push makes the list one chunk longer.
LEMMA PushLists ==
  ASSUME TypeOK, NEW t \in THREADS, HandOK(t), ReadOK(t), Same(t), Push(t), fb = old[t],
         NEW kind, NEW own, NEW fast, NEW walked, Whereabouts(kind, own, fast, walked),
         ListsOK(fast, walked), NEW f, f = Append(fast, p[t])
  PROVE  ListsOK(f, walked)'
  <1>1. /\ pc[t] = "push" /\ fb' = p[t] /\ fd' = fd /\ Return(t)
    BY DEF Push, At
  <1>2. pc'[t] \notin { "walk", "second", "pop" }
    BY <1>1, Returned DEF TypeOK
  <1>3. p[t] \in CHUNKS /\ fd[p[t]] = fb
    BY <1>1 DEF HandOK, HasChunk, Freeing, ReadOK, TypeOK
  <1>4. fast \in Seq(CHUNKS) /\ IsInjective(fast) /\ ListIn(fd, fb, fast)
    BY DEF Whereabouts, ListsOK
  <1>5. ListIn(fd', fb', f)
    BY <1>1, <1>3, <1>4, ListPushed
  <1>6. Range(fast) \subseteq Range(f)
    <2>1. p[t] \notin Range(fast)
      BY <1>3, InNoList
    <2> QED
      BY <1>3, <1>4, <2>1, AtEnd
  <1>7. \A u \in THREADS : pc'[u] \in { "second", "pop" } => old'[u] \in Range(f)
    BY <1>2, <1>6 DEF Same, ListsOK
  <1>8. \A u \in THREADS : pc'[u] = "walk" => ListIn(fd', list'[u], walked)
    BY <1>1, <1>2 DEF Same, ListsOK
  <1>9. (\A u \in THREADS : pc'[u] # "walk") => walked = <<>>
    BY <1>1, <1>2 DEF Same, ListsOK
  <1> QED
    BY <1>5, <1>7, <1>8, <1>9 DEF ListsOK

\* A pop makes it one chunk shorter: who has the lock knows the second one.
LEMMA PopLists ==
  ASSUME TypeOK, NEW t \in THREADS, \A u \in THREADS : PlaceOK(u), ReadOK(t), Same(t),
         Pop(t), fb = old[t],
         NEW kind, NEW own, NEW fast, NEW walked, Whereabouts(kind, own, fast, walked),
         ListsOK(fast, walked), NEW f, f = Front(fast)
  PROVE  ListsOK(f, walked)'
  <1>1. /\ pc[t] = "pop" /\ fb' = list[t] /\ fd' = [fd EXCEPT ![old[t]] = NULL]
        /\ pc' = [pc EXCEPT ![t] = "first"]
    BY DEF Pop, At, Goto, still_first
  <1>2. old[t] \in CHUNKS /\ list[t] = fd[old[t]]
    BY <1>1 DEF ReadOK
  <1>3. \A u \in THREADS : pc'[u] \notin { "second", "pop", "walk" } /\ pc[u] # "walk"
    BY <1>1, OneLockHolder DEF Same, Locked, TypeOK
  <1>4. fast \in Seq(CHUNKS) /\ IsInjective(fast) /\ ListIn(fd, old[t], fast)
    BY DEF Whereabouts, ListsOK
  <1>5. ListIn(fd, fb', f) /\ fast # <<>> /\ old[t] = fast[Len(fast)]
    BY <1>1, <1>2, <1>4, ListPopped
  <1>6. old[t] \notin Range(f)
    BY <1>4, <1>5, WithoutLast
  <1>7. \A x \in Range(f) : fd'[x] = fd[x]
    BY <1>1, <1>6 DEF TypeOK
  <1>8. ListIn(fd', fb', f)
    BY <1>5, <1>7, ListStays
  <1>9. walked = <<>>
    BY <1>3 DEF ListsOK
  <1> QED
    BY <1>3, <1>8, <1>9 DEF ListsOK

\* Consolidation begins with the whole list.
LEMMA TakeLists ==
  ASSUME TypeOK, NEW t \in THREADS, \A u \in THREADS : PlaceOK(u), Same(t), TakeList(t),
         NEW fast, NEW walked, ListsOK(fast, walked)
  PROVE  walked = <<>> /\ ListsOK(<<>>, fast)'
  <1>1. /\ pc[t] = "take" /\ fb' = NULL /\ fd' = fd /\ list'[t] = fb /\ pc'[t] = "walk"
    BY DEF TakeList, take_list, At, Goto, Set, TypeOK
  <1>2. \A u \in THREADS : /\ pc[u] # "walk" /\ pc'[u] \notin { "second", "pop" }
                           /\ pc'[u] = "walk" => u = t
    BY <1>1, OneLockHolder DEF Same, Locked, TypeOK
  <1>3. ListIn(fd', fb', <<>>)
    BY <1>1 DEF ListIn
  <1>4. ListIn(fd', list'[t], fast)
    BY <1>1 DEF ListsOK
  <1> QED
    BY <1>1, <1>2, <1>3, <1>4 DEF ListsOK

\* Consolidation goes on: the list it walks gets shorter, the fastbin stays.
LEMMA WalkLists ==
  ASSUME TypeOK, NEW t \in THREADS, \A u \in THREADS : PlaceOK(u), Same(t), Walk(t),
         NEW c \in CHUNKS, c = list[t],
         NEW kind, NEW own, NEW fast, NEW walked, Whereabouts(kind, own, fast, walked),
         ListsOK(fast, walked), NEW w, w = Front(walked)
  PROVE  walked # <<>> /\ c = walked[Len(walked)] /\ ListsOK(fast, w)'
  <1>1. /\ pc[t] = "walk" /\ fb' = fb /\ fd' = [fd EXCEPT ![c] = NULL]
        /\ list'[t] = fd[c] /\ pc' = pc
    BY NullIsNoChunk DEF Walk, At, Set, TypeOK
  <1>2. \A u \in THREADS : /\ pc'[u] \notin { "second", "pop" }
                           /\ pc'[u] = "walk" => u = t
    BY <1>1, OneLockHolder DEF Locked
  <1>3. walked \in Seq(CHUNKS) /\ IsInjective(walked) /\ ListIn(fd, c, walked)
    BY <1>1 DEF Whereabouts, ListsOK
  <1>4. /\ ListIn(fd, fd[c], w) /\ walked # <<>> /\ c = walked[Len(walked)]
        /\ c \in Range(walked)
    BY <1>3, ListPopped
  <1>5. c \notin Range(w) /\ c \notin Range(fast)
    <2>1. c \notin Range(w)
      BY <1>3, <1>4, WithoutLast
    <2>2. c \notin Range(fast)
      BY <1>4 DEF Whereabouts, InPlace
    <2> QED
      BY <2>1, <2>2
  <1>6. ListIn(fd', list'[t], w)
    <2>1. \A x \in Range(w) : fd'[x] = fd[x]
      BY <1>1, <1>5 DEF TypeOK
    <2> QED
      BY <1>1, <1>4, <2>1, ListStays
  <1>7. ListIn(fd', fb', fast)
    <2>1. \A x \in Range(fast) : fd'[x] = fd[x]
      BY <1>1, <1>5 DEF TypeOK
    <2>2. ListIn(fd, fb, fast)
      BY DEF ListsOK
    <2> QED
      BY <1>1, <2>1, <2>2, ListStays
  <1> QED
    BY <1>1, <1>2, <1>4, <1>6, <1>7 DEF ListsOK

\* Consolidation ends when its list does.
LEMMA WalkEnds ==
  ASSUME TypeOK, NEW t \in THREADS, \A u \in THREADS : PlaceOK(u), Same(t), Walk(t),
         list[t] = NULL,
         NEW fast, NEW walked \in Seq(CHUNKS), ListsOK(fast, walked)
  PROVE  ListsOK(fast, walked)'
  <1>1. /\ pc[t] = "walk" /\ fb' = fb /\ fd' = fd /\ pc'[t] \in { "trim", "bins" }
    BY DEF Walk, At, Goto, Set, TypeOK
  <1>2. \A u \in THREADS : pc'[u] \notin { "second", "pop", "walk" }
    BY <1>1, OneLockHolder DEF Same, Locked
  <1>3. ListIn(fd, NULL, walked)
    BY <1>1 DEF ListsOK
  <1>4. walked = <<>>
    BY <1>3, ListEmpty
  <1> QED
    BY <1>1, <1>2, <1>4 DEF ListsOK

\* Every step leaves every chunk in one place.
LEMMA PlacedStep ==
  ASSUME TypeOK, NEW t \in THREADS, \A u \in THREADS : PlaceOK(u), HandOK(t), ReadOK(t),
         Placed, Calls(t) \/ Step(t)
  PROVE  Placed'
  <1>1. PICK kind, own, fast, walked :
          Whereabouts(kind, own, fast, walked) /\ ListsOK(fast, walked)
    BY DEF Placed
  <1>2. Same(t)
    BY OthersStay DEF Same
  <1>3. PlaceOK(t)
    OBVIOUS
  <1>4. fast \in Seq(CHUNKS) /\ IsInjective(fast) /\ walked \in Seq(CHUNKS)
    BY <1>1 DEF Whereabouts
  <1>5. SUFFICES \E fast2, walked2 :
                   /\ \E kind2, own2 : Whereabouts(kind2, own2, fast2, walked2)'
                   /\ ListsOK(fast2, walked2)'
    BY DEF Placed
  <1>6. CASE Push(t) /\ fb = old[t]
    <2>1. PICK f : f = Append(fast, p[t])
      OBVIOUS
    <2>2. \E kind2, own2 : Whereabouts(kind2, own2, f, walked)'
      BY <1>1, <1>3, <1>6, <2>1, PushMoves
    <2>3. ListsOK(f, walked)'
      BY <1>1, <1>2, <1>6, <2>1, PushLists
    <2> QED
      BY <2>2, <2>3
  <1>7. CASE Pop(t) /\ fb = old[t]
    <2>1. PICK f : f = Front(fast)
      OBVIOUS
    <2>2. old[t] \in CHUNKS /\ pc[t] = "pop"
      BY <1>7 DEF ReadOK, Pop, At
    <2>3. ListIn(fd, fb, fast)
      BY <1>1 DEF ListsOK
    <2>4. fast # <<>> /\ old[t] = fast[Len(fast)]
      BY <1>4, <1>7, <2>2, <2>3, HeadListed, NullIsNoChunk
    <2>5. PICK c \in CHUNKS : c = old[t]
      BY <2>2
    <2>6. \E kind2, own2 : Whereabouts(kind2, own2, f, walked)'
      BY <1>1, <1>3, <1>7, <2>1, <2>4, <2>5, PopMoves
    <2>7. ListsOK(f, walked)'
      BY <1>1, <1>2, <1>7, <2>1, PopLists
    <2> QED
      BY <2>6, <2>7
  <1>8. CASE TakeList(t)
    <2>1. walked = <<>> /\ ListsOK(<<>>, fast)'
      BY <1>1, <1>2, <1>8, TakeLists
    <2>2. \E kind2, own2 : Whereabouts(kind2, own2, <<>>, fast)'
      BY <1>1, <1>3, <1>8, <2>1, TakeListMoves
    <2> QED
      BY <2>1, <2>2
  <1>9. CASE Walk(t) /\ list[t] # NULL
    <2>1. PICK w : w = Front(walked)
      OBVIOUS
    <2>2. PICK c \in CHUNKS : c = list[t]
      BY <1>9 DEF TypeOK
    <2>3. walked # <<>> /\ c = walked[Len(walked)] /\ ListsOK(fast, w)'
      BY <1>1, <1>2, <1>9, <2>1, <2>2, WalkLists
    <2>4. \E kind2, own2 : Whereabouts(kind2, own2, fast, w)'
      BY <1>1, <1>3, <1>9, <2>1, <2>2, <2>3, WalkMoves
    <2> QED
      BY <2>3, <2>4
  <1>10. CASE Walk(t) /\ list[t] = NULL
    <2>1. ListsOK(fast, walked)'
      BY <1>1, <1>2, <1>4, <1>10, WalkEnds
    <2>2. free_mem' = free_mem /\ held' = held /\ tcache' = tcache /\ rest' = rest /\ p' = p
      BY <1>10 DEF Walk, caches
    <2>3. \E kind2, own2 : Whereabouts(kind2, own2, fast, walked)'
      BY <1>1, <2>2, NoneMoved
    <2> QED
      BY <2>1, <2>3
  <1>11. CASE ~(Push(t) /\ fb = old[t]) /\ ~(Pop(t) /\ fb = old[t]) /\ ~TakeList(t) /\ ~Walk(t)
    <2>1. /\ fb' = fb
          /\ fd' = fd \/ (pc[t] = "link" /\ fd' = [fd EXCEPT ![p[t]] = old[t]])
          /\ pc[t] # "walk" /\ pc'[t] # "walk"
          /\ \/ pc'[t] \notin { "second", "pop" }
             \/ fb # NULL /\ old'[t] = fb
             \/ pc[t] = "second" /\ pc'[t] = "pop" /\ old'[t] = old[t]
      <3>1. CASE Push(t) /\ fb # old[t]
        BY <3>1 DEF Push, At, Goto, TypeOK
      <3>2. CASE Pop(t) /\ fb # old[t]
        BY <3>2 DEF Pop, At, Goto, still_first, fastbin, TypeOK
      <3>3. CASE ~Push(t) /\ ~Pop(t)
        BY <1>11, <3>3, ListSteps
      <3> QED
        BY <1>11, <3>1, <3>2, <3>3
    <2>2. ListsOK(fast, walked)'
      BY <1>1, <1>2, <2>1, ListsKept
    <2>3. \E kind2, own2 : Whereabouts(kind2, own2, fast, walked)'
      <3>1. CASE Push(t) \/ Pop(t)
        <4>1. /\ free_mem' = free_mem /\ held' = held /\ tcache' = tcache /\ rest' = rest
              /\ p' = p
          BY <1>11, <3>1 DEF Push, Pop, still_first, caches
        <4> QED
          BY <1>1, <4>1, NoneMoved
      <3>2. CASE /\ free_mem' = free_mem /\ held' = held
                 /\ tcache' = tcache /\ rest' = rest /\ p' = p
        BY <1>1, <3>2, NoneMoved
      <3>3. CASE Free(t) \/ FreeLarge(t) \/ Exit(t) \/ Drain(t) \/ FromCache(t) \/ ToCache(t)
        BY <1>1, <1>3, <3>3, FreeMoves, FreeLargeMoves, ExitMoves, DrainMoves, FromCacheMoves,
           ToCacheMoves
      <3>4. CASE FromBins(t) \/ Unlock(t) \/ Merge(t)
        BY <1>1, <1>3, <3>4, FromBinsMoves, UnlockMoves, MergeMoves
      <3> QED
        BY <1>11, <3>1, <3>2, <3>3, <3>4, QuietSteps
    <2> QED
      BY <2>2, <2>3
  <1> QED
    BY <1>6, <1>7, <1>8, <1>9, <1>10, <1>11

-----------------------------------------------------------------------------
(* What threads have read, and the whole invariant.                        *)

\* The chunk a thread has in hand is not the head of the list.
LEMMA HeadElsewhere ==
  ASSUME TypeOK, NEW t \in THREADS, p[t] # NULL,
         NEW kind, NEW own, NEW fast, NEW walked, Whereabouts(kind, own, fast, walked),
         ListsOK(fast, walked)
  PROVE  fb # p[t]
  <1>1. p[t] \in CHUNKS
    BY DEF TypeOK
  <1>2. p[t] \notin Range(fast)
    BY <1>1, InNoList
  <1>3. fb # NULL => fb \in Range(fast)
    BY HeadListed DEF Whereabouts, ListsOK
  <1> QED
    BY <1>2, <1>3

\* What a step reads for later.
LEMMA ReadStep ==
  ASSUME NEW t \in THREADS, TypeOK, HandOK(t), ReadOK(t), NoFalseAlarm', p[t] # NULL => fb # p[t], Calls(t) \/ Step(t)
  PROVE  ReadOK(t)'
  <1> USE DEF ReadOK, Freeing, At, Goto, Set, caches, locals, fastbin, sizes
  <1>1. CASE Malloc(t)
    <2>1. pc'[t] \in { "init" }
      BY <1>1 DEF Malloc, Call, TypeOK
    <2> QED
      BY <2>1
  <1>2. CASE MallocLarge(t)
    <2>1. pc'[t] \in { "init" }
      BY <1>2 DEF MallocLarge, Call, TypeOK
    <2> QED
      BY <2>1
  <1>3. CASE MallocOther(t)
    <2>1. pc'[t] \in { "init" }
      BY <1>3 DEF MallocOther, Call, TypeOK
    <2> QED
      BY <2>1
  <1>4. CASE Free(t)
    <2>1. pc'[t] \in { "init" }
      BY <1>4 DEF Free, Call, TypeOK
    <2> QED
      BY <2>1
  <1>5. CASE FreeLarge(t)
    <2>1. pc'[t] \in { "init" }
      BY <1>5 DEF FreeLarge, Call, TypeOK
    <2> QED
      BY <2>1
  <1>6. CASE Exit(t)
    <2>1. pc'[t] \in { "drain", "idle" }
      BY <1>6 DEF Exit, Call, mark_shutdown, TypeOK
    <2> QED
      BY <2>1
  <1>7. CASE Drain(t)
    <2>1. pc'[t] \in { "init", "idle" }
      BY <1>7 DEF Drain, TypeOK
    <2> QED
      BY <2>1
  <1>8. CASE MaybeInit(t)
    <2>1. pc'[t] \in { "cache", "put", "lock" }
      BY <1>8 DEF MaybeInit, after_init, TypeOK
    <2> QED
      BY <2>1
  <1>9. CASE FromCache(t)
    <2>1. pc'[t] \in { "idle", "drain", "lock", "next" }
      <3>1. Return(t) \/ Goto(t, "lock") \/ Goto(t, "next")
        BY <1>9 DEF FromCache
      <3> QED
        BY <3>1, Returned DEF TypeOK, Goto
    <2> QED
      BY <2>1
  <1>10. CASE ToCache(t)
    <2>1. pc'[t] \in { "idle", "drain", "lock", "next" }
      <3>1. Return(t) \/ Goto(t, "lock") \/ Goto(t, "next")
        BY <1>10 DEF ToCache
      <3> QED
        BY <3>1, Returned DEF TypeOK, Goto
    <2> QED
      BY <2>1
  <1>11. CASE ReadNext(t)
    <2>1. pc'[t] = "compare" /\ p[t] \in CHUNKS /\ old'[t] = nextsize(p[t])
      BY <1>11 DEF ReadNext, TypeOK, HandOK, HasChunk
    <2>2. p[t] \in Nat /\ LAST \in Nat /\ top_size \in Nat
      BY <2>1, NullIsNoChunk, FastFreeAssumption DEF TypeOK
    <2>3. nextsize(p[t]) \in Int
      BY <2>2 DEF nextsize
    <2> QED
      BY <2>1, <2>3
  <1>12. CASE CompareNext(t)
    <2>1. pc'[t] \in { "compare", "flag" } /\ abort' = FALSE
      BY <1>12 DEF CompareNext, compare_again, NoFalseAlarm, TypeOK
    <2>2. pc'[t] = "flag"
      BY <1>12, <2>1 DEF CompareNext, compare_again, TypeOK
    <2> QED
      BY <2>2
  <1>13. CASE SetFlag(t)
    <2>1. pc'[t] \in { "head" }
      BY <1>13 DEF SetFlag, TypeOK
    <2> QED
      BY <2>1
  <1>14. CASE ReadHead(t)
    <2>1. p' = p /\ pc'[t] = "link" /\ old'[t] = fb
      BY <1>14 DEF ReadHead, TypeOK
    <2>2. p[t] # NULL /\ fb \in CHUNKS \cup {NULL}
      BY <1>14 DEF ReadHead, HandOK, HasChunk, TypeOK
    <2> QED
      BY <2>1, <2>2
  <1>15. CASE Link(t)
    <2>1. /\ pc[t] = "link" /\ p[t] \in CHUNKS /\ old[t] # p[t] /\ old[t] \in CHUNKS \cup {NULL}
      BY <1>15 DEF Link, TypeOK, HandOK, HasChunk
    <2>2. p' = p /\ old' = old /\ pc'[t] = "push" /\ fd'[p[t]] = old[t]
      BY <1>15, <2>1 DEF Link, TypeOK
    <2> QED
      BY <2>1, <2>2
  <1>16. CASE Push(t)
    <2>1. CASE fb = old[t]
      <3>1. pc'[t] \in { "idle", "drain" }
        <4>1. Return(t)
          BY <1>16, <2>1 DEF Push
        <4> QED
          BY <4>1, Returned DEF TypeOK
      <3> QED
        BY <3>1
    <2>2. CASE fb # old[t]
      <3>1. p' = p /\ pc'[t] = "link" /\ old'[t] = fb
        BY <1>16, <2>2 DEF Push, reread_head, TypeOK
      <3>2. p[t] # NULL /\ fb \in CHUNKS \cup {NULL}
        BY <1>16 DEF Push, HandOK, HasChunk, TypeOK
      <3> QED
        BY <3>1, <3>2
    <2> QED
      BY <2>1, <2>2
  <1>17. CASE Lock(t)
    <2>1. pc'[t] \in { "first", "clear", "bins", "grow", "merge" }
      BY <1>17 DEF Lock, TypeOK
    <2> QED
      BY <2>1
  <1>18. CASE ReadFirst(t)
    <2>1. /\ old'[t] = fb /\ fb \in CHUNKS \cup {NULL}
          /\ (fb # NULL /\ pc'[t] = "second") \/ pc'[t] \in { "bins", "unlock" }
      BY <1>18 DEF ReadFirst, TypeOK
    <2> QED
      BY <2>1
  <1>19. CASE ReadSecond(t)
    <2>1. /\ pc[t] = "second" /\ old' = old /\ fd' = fd /\ pc'[t] = "pop" /\ list'[t] = fd[old[t]]
      BY <1>19 DEF ReadSecond, TypeOK
    <2> QED
      BY <2>1
  <1>20. CASE Pop(t)
    <2>1. pc'[t] \in { "first" }
      BY <1>20 DEF Pop, still_first, TypeOK
    <2> QED
      BY <2>1
  <1>21. CASE FromBins(t)
    <2>1. pc'[t] \in { "unlock", "clear", "null" }
      BY <1>21 DEF FromBins, Give, TypeOK
    <2> QED
      BY <2>1
  <1>22. CASE Unlock(t)
    <2>1. pc'[t] \in { "idle", "drain", "lock", "next" }
      <3>1. Return(t) \/ Goto(t, "lock") \/ Goto(t, "next")
        BY <1>22 DEF Unlock
      <3> QED
        BY <3>1, Returned DEF TypeOK, Goto
    <2> QED
      BY <2>1
  <1>23. CASE Grow(t)
    <2>1. pc'[t] \in { "grown" }
      BY <1>23 DEF Grow, TypeOK
    <2> QED
      BY <2>1
  <1>24. CASE SetTop(t)
    <2>1. pc'[t] \in { "unlock" }
      BY <1>24 DEF SetTop, TypeOK
    <2> QED
      BY <2>1
  <1>25. CASE Merge(t)
    <2>1. pc'[t] \in { "clear", "trim" }
      BY <1>25 DEF Merge, TypeOK
    <2> QED
      BY <2>1
  <1>26. CASE Trim(t)
    <2>1. pc'[t] \in { "unlock", "trimmed" }
      BY <1>26 DEF Trim, TypeOK
    <2> QED
      BY <2>1
  <1>27. CASE ClearFlag(t)
    <2>1. pc'[t] \in { "take" }
      BY <1>27 DEF ClearFlag, TypeOK
    <2> QED
      BY <2>1
  <1>28. CASE TakeList(t)
    <2>1. pc'[t] \in { "walk" }
      BY <1>28 DEF TakeList, take_list, TypeOK
    <2> QED
      BY <2>1
  <1>29. CASE Walk(t)
    <2>1. pc'[t] \in { "walk", "trim", "bins" }
      BY <1>29 DEF Walk, TypeOK
    <2> QED
      BY <2>1
  <1> QED
    BY <1>1, <1>2, <1>3, <1>4, <1>5, <1>6, <1>7, <1>8, <1>9, <1>10, <1>11, <1>12,
       <1>13, <1>14, <1>15, <1>16, <1>17, <1>18, <1>19, <1>20, <1>21, <1>22, <1>23,
       <1>24, <1>25, <1>26, <1>27, <1>28, <1>29 DEF Calls, Step

\* Who writes a link.
LEMMA LinkWriters ==
  ASSUME NEW t \in THREADS, TypeOK, Calls(t) \/ Step(t)
  PROVE  \/ fd' = fd
         \/ pc[t] = "link" /\ fd' = [fd EXCEPT ![p[t]] = old[t]]
         \/ pc[t] = "pop" /\ fb = old[t] /\ fd' = [fd EXCEPT ![old[t]] = NULL]
         \/ pc[t] = "walk" /\ list[t] # NULL /\ fd' = [fd EXCEPT ![list[t]] = NULL]
  <1> USE DEF At, Goto, Set, caches, locals, fastbin, sizes
  <1>1. CASE Malloc(t)
    BY <1>1 DEF Malloc, Call
  <1>2. CASE MallocLarge(t)
    BY <1>2 DEF MallocLarge, Call
  <1>3. CASE MallocOther(t)
    BY <1>3 DEF MallocOther, Call
  <1>4. CASE Free(t)
    BY <1>4 DEF Free, Call
  <1>5. CASE FreeLarge(t)
    BY <1>5 DEF FreeLarge, Call
  <1>6. CASE Exit(t)
    BY <1>6 DEF Exit, Call, mark_shutdown
  <1>7. CASE Drain(t)
    BY <1>7 DEF Drain
  <1>8. CASE MaybeInit(t)
    BY <1>8 DEF MaybeInit, after_init
  <1>9. CASE FromCache(t)
    BY <1>9 DEF FromCache, Return, Give
  <1>10. CASE ToCache(t)
    BY <1>10 DEF ToCache, Return, has_room
  <1>11. CASE ReadNext(t)
    BY <1>11 DEF ReadNext
  <1>12. CASE CompareNext(t)
    BY <1>12 DEF CompareNext, compare_again
  <1>13. CASE SetFlag(t)
    BY <1>13 DEF SetFlag
  <1>14. CASE ReadHead(t)
    BY <1>14 DEF ReadHead
  <1>15. CASE Link(t)
    BY <1>15 DEF Link
  <1>16. CASE Push(t)
    BY <1>16 DEF Push, Return, reread_head
  <1>17. CASE Lock(t)
    BY <1>17 DEF Lock
  <1>18. CASE ReadFirst(t)
    BY <1>18 DEF ReadFirst, has_room
  <1>19. CASE ReadSecond(t)
    BY <1>19 DEF ReadSecond
  <1>20. CASE Pop(t)
    BY <1>20 DEF Pop, still_first
  <1>21. CASE FromBins(t)
    BY <1>21 DEF FromBins, Give
  <1>22. CASE Unlock(t)
    BY <1>22 DEF Unlock, Return, Give
  <1>23. CASE Grow(t)
    BY <1>23 DEF Grow
  <1>24. CASE SetTop(t)
    BY <1>24 DEF SetTop
  <1>25. CASE Merge(t)
    BY <1>25 DEF Merge
  <1>26. CASE Trim(t)
    BY <1>26 DEF Trim
  <1>27. CASE ClearFlag(t)
    BY <1>27 DEF ClearFlag
  <1>28. CASE TakeList(t)
    BY <1>28 DEF TakeList, take_list
  <1>29. CASE Walk(t)
    BY <1>29 DEF Walk
  <1> QED
    BY <1>1, <1>2, <1>3, <1>4, <1>5, <1>6, <1>7, <1>8, <1>9, <1>10, <1>11, <1>12,
       <1>13, <1>14, <1>15, <1>16, <1>17, <1>18, <1>19, <1>20, <1>21, <1>22, <1>23,
       <1>24, <1>25, <1>26, <1>27, <1>28, <1>29 DEF Calls, Step


\* What other threads have read stays true: nobody writes the link of a chunk
\* that another one is about to push or to pop.
LEMMA OthersRead ==
  ASSUME TypeOK, NEW t \in THREADS, \A u \in THREADS : PlaceOK(u), HandOK(t), Same(t),
         Placed, Calls(t) \/ Step(t), NEW u \in THREADS, u # t, HandOK(u), ReadOK(u)
  PROVE  ReadOK(u)'
  <1>1. PICK kind, own, fast, walked :
          Whereabouts(kind, own, fast, walked) /\ ListsOK(fast, walked)
    BY DEF Placed
  <1>2. pc'[u] = pc[u] /\ old'[u] = old[u] /\ list'[u] = list[u] /\ p'[u] = p[u]
    BY DEF Same
  <1>3. \A c \in CHUNKS : InPlace(c, kind[c], own[c], fast, walked)
    BY <1>1 DEF Whereabouts
  <1>4. pc[u] = "push" => fd'[p[u]] = fd[p[u]]
    <2> SUFFICES ASSUME pc[u] = "push" PROVE fd'[p[u]] = fd[p[u]]
      OBVIOUS
    <2>1. p[u] \in CHUNKS
      BY DEF HandOK, HasChunk, Freeing, TypeOK
    <2>2. p[u] # p[t] /\ p[u] \notin Range(fast) /\ p[u] \notin Range(walked)
      BY <1>3, <2>1 DEF InPlace
    <2>3. pc[t] = "pop" => old[t] \in Range(fast)
      BY <1>1 DEF ListsOK
    <2>4. pc[t] = "walk" /\ list[t] # NULL => list[t] \in Range(walked)
      <3> SUFFICES ASSUME pc[t] = "walk", list[t] # NULL PROVE list[t] \in Range(walked)
        OBVIOUS
      <3>1. ListIn(fd, list[t], walked) /\ list[t] \in CHUNKS
        BY <1>1 DEF ListsOK, TypeOK
      <3>2. walked \in Seq(CHUNKS) /\ IsInjective(walked)
        BY <1>1 DEF Whereabouts
      <3> QED
        BY <3>1, <3>2, ListPopped
    <2>5. fd' = fd \/ \E x \in {p[t], old[t], list[t]} : x # p[u] /\ fd' = [fd EXCEPT ![x] = fd'[x]]
      <3>1. \/ fd' = fd
            \/ pc[t] = "link" /\ fd' = [fd EXCEPT ![p[t]] = old[t]]
            \/ pc[t] = "pop" /\ fb = old[t] /\ fd' = [fd EXCEPT ![old[t]] = NULL]
            \/ pc[t] = "walk" /\ list[t] # NULL /\ fd' = [fd EXCEPT ![list[t]] = NULL]
        BY LinkWriters
      <3>2. fd \in [CHUNKS -> CHUNKS \cup {NULL}]
        BY DEF TypeOK
      <3> QED
        BY <2>2, <2>3, <2>4, <3>1, <3>2
    <2> QED
      BY <2>1, <2>5 DEF TypeOK
  <1>5. pc[u] = "pop" => fd'[old[u]] = fd[old[u]]
    <2> SUFFICES ASSUME pc[u] = "pop" PROVE fd'[old[u]] = fd[old[u]]
      OBVIOUS
    <2>1. old[u] \in CHUNKS /\ old[u] \in Range(fast)
      BY <1>1 DEF ReadOK, ListsOK
    <2>2. pc[t] \notin { "pop", "walk" }
      BY OneLockHolder DEF Locked
    <2>3. pc[t] = "link" => p[t] \in CHUNKS
      BY DEF HandOK, HasChunk, Freeing, TypeOK
    <2>4. pc[t] = "link" => p[t] # old[u]
      BY <1>3, <2>1, <2>3 DEF InPlace
    <2>5. fd' = fd \/ (pc[t] = "link" /\ fd' = [fd EXCEPT ![p[t]] = old[t]])
      BY <2>2, LinkWriters
    <2> QED
      BY <2>1, <2>4, <2>5 DEF TypeOK
  <1> QED
    BY <1>2, <1>4, <1>5 DEF ReadOK

\* The types, together.
LEMMA TypeStep ==
  ASSUME TypeOK, NEW t \in THREADS, PlaceOK(t), HandOK(t), ReadOK(t), Calls(t) \/ Step(t)
  PROVE  TypeOK'
  BY TypeStep1, TypeStep2, TypeStep3, TypeStep4, TypeStep5, TypeStep6 DEF TypeOK

\* What is true of the other threads, which a step does not touch.
LEMMA OthersKept ==
  ASSUME TypeOK, NEW t \in THREADS, PlaceOK(t), Calls(t) \/ Step(t),
         NEW u \in THREADS, u # t, PlaceOK(u), HandOK(u), CacheOK(u)
  PROVE  PlaceOK(u)' /\ HandOK(u)' /\ CacheOK(u)'
  <1>1. /\ pc'[u] = pc[u] /\ task'[u] = task[u] /\ p'[u] = p[u] /\ rest'[u] = rest[u]
        /\ tcache'[u] = tcache[u] /\ tcache_on'[u] = tcache_on[u] /\ gone'[u] = gone[u]
        /\ shutting_down'[u] = shutting_down[u] /\ structs'[u] = structs[u]
    BY OthersStay
  <1>2. mutex' = u <=> mutex = u
    <2>1. mutex' = mutex \/ (mutex = NULL /\ mutex' = t) \/ (mutex = t /\ mutex' = NULL)
      BY MutexStep
    <2> QED
      BY <2>1, NullIsNoChunk
  <1>3. PlaceOK(u)'
    BY <1>1, <1>2 DEF PlaceOK, TasksAt
  <1>4. HandOK(u)'
    BY <1>1 DEF HandOK, HasChunk, HasPair
  <1>5. CacheOK(u)'
    BY <1>1 DEF CacheOK
  <1> QED
    BY <1>3, <1>4, <1>5

\* The inductive invariant holds at the start.
LEMMA InitIInv == Init => IInv
  <1> SUFFICES ASSUME Init PROVE IInv
    OBVIOUS
  <1>1. TypeOK
    <2>1. <<>> \in Seq(CHUNKS)
      BY EmptySeq
    <2>2. "idle" \in Places /\ "none" \in Tasks
      BY DEF Places, Tasks
    <2>3. top_size \in Nat /\ system_mem \in Int
      BY FastFreeAssumption DEF Init
    <2>4. /\ mutex \in THREADS \cup {NULL} /\ have_fastchunks \in BOOLEAN
          /\ fb \in CHUNKS \cup {NULL}
          /\ fd \in [CHUNKS -> CHUNKS \cup {NULL}] /\ free_mem \subseteq CHUNKS /\ held \subseteq SUBSET CHUNKS
      BY DEF Init
    <2>5. tcache \in [THREADS -> Seq(CHUNKS)] /\ rest \in [THREADS -> Seq(CHUNKS)]
      BY <2>1 DEF Init
    <2>6. /\ tcache_on \in [THREADS -> BOOLEAN] /\ shutting_down \in [THREADS -> BOOLEAN]
          /\ structs \in [THREADS -> Int] /\ gone \in [THREADS -> { "no", "unused", "ended" }]
      BY DEF Init
    <2>7. /\ p \in [THREADS -> CHUNKS \cup {NULL}] /\ list \in [THREADS -> CHUNKS \cup {NULL}]
          /\ old \in [THREADS -> Int \cup {NULL}]
      BY DEF Init
    <2>8. pc \in [THREADS -> Places] /\ task \in [THREADS -> Tasks]
      BY <2>2 DEF Init
    <2> QED
      BY <2>3, <2>4, <2>5, <2>6, <2>7, <2>8 DEF TypeOK
  <1>2. ThreadsOK
    BY FastFreeAssumption
    DEF Init, ThreadsOK, PlaceOK, TasksAt, HandOK, HasChunk, HasPair, ReadOK, CacheOK,
           Freeing, Locked
  <1>3. SizesOK
    BY DEF Init, SizesOK
  <1>4. NoFalseAlarm
    BY DEF Init, NoFalseAlarm
  <1>5. Placed
    <2> DEFINE kind == [c \in CHUNKS |-> "mem"]
    <2>1. Whereabouts(kind, kind, <<>>, <<>>)
      <3>1. kind \in [CHUNKS -> PlaceKinds]
        BY DEF PlaceKinds
      <3>2. <<>> \in Seq(CHUNKS) /\ IsInjective(<<>>) /\ Range(<<>>) = {}
        BY EmptySeq DEF Range, IsInjective
      <3>3. ASSUME NEW c \in CHUNKS PROVE InPlace(c, "mem", "mem", <<>>, <<>>)
        BY <3>2, NullIsNoChunk DEF Init, InPlace, OwnedKinds
      <3>4. \A c \in CHUNKS : kind[c] = "mem"
        OBVIOUS
      <3>5. \A t \in THREADS : IsInjective(tcache[t]) /\ IsInjective(rest[t])
        BY <3>2 DEF Init
      <3> HIDE DEF kind
      <3>6. \A c \in CHUNKS : InPlace(c, kind[c], kind[c], <<>>, <<>>)
        BY <3>3, <3>4
      <3> QED
        BY <3>1, <3>2, <3>5, <3>6 DEF Whereabouts
    <2>2. ListsOK(<<>>, <<>>)
      BY DEF Init, ListsOK, ListIn
    <2> QED
      BY <2>1, <2>2 DEF Placed
  <1>6. ChunksOK
    BY <1>1, <1>5, PlacedChunks
  <1> QED
    BY <1>1, <1>2, <1>3, <1>4, <1>6 DEF IInv

\* One place for each chunk, in both forms, now and after a step.
LEMMA OncePlaced == TypeOK /\ Placed => ChunksOK
  BY PlacedChunks

\* The same one step later.
LEMMA OncePlacedNext == TypeOK' /\ Placed' => ChunksOK'
  BY OncePlaced, PTL

\* Every step keeps it.
LEMMA NextIInv == IInv /\ [Next]_vars => IInv'
  <1> SUFFICES ASSUME IInv, [Next]_vars PROVE IInv'
    OBVIOUS
  <1>1. CASE UNCHANGED vars
    <2>1. /\ mutex' = mutex /\ fb' = fb /\ fd' = fd /\ have_fastchunks' = have_fastchunks
          /\ free_mem' = free_mem /\ top_size' = top_size /\ system_mem' = system_mem
          /\ tcache' = tcache /\ tcache_on' = tcache_on /\ shutting_down' = shutting_down
          /\ structs' = structs /\ gone' = gone /\ held' = held /\ abort' = abort
          /\ pc' = pc /\ task' = task /\ p' = p /\ old' = old /\ list' = list /\ rest' = rest
      BY <1>1 DEF vars, fastbin, sizes, caches, locals
    <2>2. TypeOK' /\ SizesOK' /\ NoFalseAlarm'
      BY <2>1 DEF IInv, TypeOK, SizesOK, NoFalseAlarm
    <2>3. ThreadsOK'
      BY <2>1 DEF IInv, ThreadsOK, PlaceOK, HandOK, HasChunk, HasPair, ReadOK, CacheOK
    <2>4. ChunksOK'
      <3>1. PICK kind, own, fast, walked :
              Whereabouts(kind, own, fast, walked) /\ ListsOK(fast, walked)
        BY ChunksPlaced DEF IInv, Placed
      <3>2. \E kind2, own2 : Whereabouts(kind2, own2, fast, walked)'
        BY <2>1, <3>1, NoneMoved
      <3>3. ListsOK(fast, walked)'
        BY <2>1, <3>1 DEF ListsOK, ListIn
      <3>4. Placed'
        BY <3>2, <3>3 DEF Placed
      <3> QED
        BY <2>2, <3>4, OncePlacedNext
    <2> QED
      BY <2>2, <2>3, <2>4 DEF IInv
  <1>2. CASE Next
    <2>1. PICK t \in THREADS : Calls(t) \/ Step(t)
      BY <1>2 DEF Next
    <2>2. /\ TypeOK /\ SizesOK /\ NoFalseAlarm
          /\ \A u \in THREADS : PlaceOK(u) /\ HandOK(u) /\ ReadOK(u) /\ CacheOK(u)
      BY DEF IInv, ThreadsOK
    <2>3. Placed
      BY ChunksPlaced DEF IInv
    <2>4. Same(t)
      BY <2>1, <2>2, OthersStay DEF Same
    <2>5. TypeOK'
      BY <2>1, <2>2, TypeStep
    <2>6. NoFalseAlarm'
      BY <2>1, <2>2, AlarmStep
    <2>7. SizesOK'
      BY <2>1, <2>2, <2>4, SizesStep DEF Same
    <2>8. Placed'
      BY <2>1, <2>2, <2>3, PlacedStep
    <2>9. ChunksOK'
      BY <2>5, <2>8, OncePlacedNext
    <2>10. ReadOK(t)'
      <3>1. p[t] # NULL => fb # p[t]
        BY <2>2, <2>3, HeadElsewhere DEF Placed
      <3> QED
        BY <2>1, <2>2, <2>6, <3>1, ReadStep
    <2>11. PlaceOK(t)' /\ HandOK(t)' /\ CacheOK(t)'
      BY <2>1, <2>2, PlaceStep, HandStep, CacheStep
    <2>12. ASSUME NEW u \in THREADS, u # t
           PROVE  PlaceOK(u)' /\ HandOK(u)' /\ ReadOK(u)' /\ CacheOK(u)'
      <3>1. ReadOK(u)'
        BY <2>1, <2>2, <2>3, <2>4, <2>12, OthersRead
      <3>2. PlaceOK(u)' /\ HandOK(u)' /\ CacheOK(u)'
        BY <2>1, <2>2, <2>12, OthersKept
      <3> QED
        BY <3>1, <3>2
    <2>13. ThreadsOK'
      BY <2>10, <2>11, <2>12 DEF ThreadsOK
    <2> QED
      BY <2>5, <2>6, <2>7, <2>9, <2>13 DEF IInv
  <1> QED
    BY <1>1, <1>2

\* The inductive invariant, for any number of threads and chunks, whatever the
\* capacity of the caches (malloc, free and tcache_thread_shutdown of
\* docs/malloc-impl.c).
THEOREM FastFreeInvariance == Spec => []IInv
  BY InitIInv, NextIInv, PTL DEF Spec

\* Lock-free pushes, pops and consolidation under the lock, and caches that come
\* and go, leave every chunk in exactly one place.
THEOREM ChunksStayOnce == Spec => []EachChunkOnce
  <1>1. IInv => EachChunkOnce
    BY DEF IInv, ChunksOK, EachChunkOnce
  <1> QED
    BY <1>1, FastFreeInvariance, PTL

\* The size comparisons of _int_free, also the one before the lock is taken, never
\* end in malloc_printerr when calls are correct.
THEOREM CorrectCallsNeverAbort == Spec => []NoFalseAlarm
  <1>1. IInv => NoFalseAlarm
    BY DEF IInv
  <1> QED
    BY <1>1, FastFreeInvariance, PTL

\* tcache_thread_shutdown leaves nothing behind, and nothing comes back.
THEOREM ShutdownIsFinal == Spec => []EndedThreadHasNothing
  <1>1. IInv => EndedThreadHasNothing
    <2> SUFFICES ASSUME IInv, NEW t \in THREADS, gone[t] = "ended", pc[t] = "idle"
                 PROVE  tcache[t] = <<>> /\ structs[t] = 0
      BY DEF EndedThreadHasNothing
    <2>1. PlaceOK(t) /\ CacheOK(t)
      BY DEF IInv, ThreadsOK
    <2>2. task[t] = "none"
      BY <2>1 DEF PlaceOK, TasksAt, Freeing
    <2> QED
      BY <2>1, <2>2 DEF CacheOK
  <1> QED
    BY <1>1, FastFreeInvariance, PTL

=============================================================================
