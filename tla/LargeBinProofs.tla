--------------------------- MODULE LargeBinProofs ---------------------------
(***************************************************************************)
(* The proofs about LargeBin, for any chunks and sizes.  The witnesses of  *)
(* the invariant are two sequences: s, the chunks of the bin, and z, the   *)
(* first of each size.  First what an insertion and a removal do to such   *)
(* sequences (Bin) and to the rings through them (Ring), then one lemma    *)
(* per insertion and removal of the code, the searches, and the theorems.  *)
(***************************************************************************)
EXTENDS LargeBin, Arithmetic, SequenceTheorems, TLAPS

\* What n steps along a link lead to, where the steps are known.
LEMMA FollowIs ==
  ASSUME NEW link, NEW v, NEW n \in Nat, NEW g,
         g[0] = v, \A i \in 1 .. n : g[i] = link[g[i - 1]]
  PROVE  Follow(link, v, n) = g[n]
<1> DEFINE Steps(at) == [i \in 0 .. n |-> IF i = 0 THEN v ELSE link[at[i - 1]]]
           path == [i \in 0 .. n |-> g[i]]
           at == CHOOSE at : at = Steps(at)
<1>1. Follow(link, v, n) = at[n]
  BY DEF Follow
<1>2. path = Steps(path)
  OBVIOUS
<1>3. at = Steps(at)
  <2> HIDE DEF Steps, path
  <2> QED
    BY <1>2
<1>4. at[0] = v /\ \A i \in 1 .. n : at[i] = link[at[i - 1]]
  <2> HIDE DEF at
  <2>1. \A i \in 0 .. n : Steps(at)[i] = IF i = 0 THEN v ELSE link[at[i - 1]]
    OBVIOUS
  <2> HIDE DEF Steps
  <2> QED
    BY <1>3, <2>1
<1> HIDE DEF at
<1> DEFINE T == { i \in 0 .. n : at[i] # g[i] }
<1>5. T = {}
  <2> SUFFICES ASSUME T # {} PROVE FALSE
    OBVIOUS
  <2>1. PICK i \in T : \A j \in T : i <= j
    <3>1. T \subseteq Nat
      OBVIOUS
    <3> HIDE DEF T
    <3> QED
      BY <3>1, LeastNumber
  <2>2. i \in 1 .. n /\ i - 1 \in 0 .. n /\ i - 1 \notin T
    BY <1>4, <2>1
  <2> QED
    BY <1>4, <2>2
<1> QED
  BY <1>1, <1>5

\* A least, and a greatest, element is the one Min, and Max, choose.
LEMMA MinIs ==
  ASSUME NEW S, S \subseteq Int, NEW m \in S, \A x \in S : m <= x
  PROVE  Min(S) = m
<1> DEFINE k == Min(S)
<1>1. k \in S /\ \A y \in S : k <= y
  BY DEF Min
<1> HIDE DEF k
<1>2. k = m
  BY <1>1
<1> QED
  BY <1>2 DEF k

LEMMA MaxIs ==
  ASSUME NEW S, S \subseteq Int, NEW m \in S, \A x \in S : m >= x
  PROVE  Max(S) = m
<1> DEFINE k == Max(S)
<1>1. k \in S /\ \A y \in S : k >= y
  BY DEF Max
<1> HIDE DEF k
<1>2. k = m
  BY <1>1
<1> QED
  BY <1>2 DEF k

-----------------------------------------------------------------------------
(* Sequences without a repetition, and rings through their members.        *)

Distinct(c) == \A i, j \in 1 .. Len(c) : c[i] = c[j] => i = j
Among(c, p) == \E i \in 1 .. Len(c) : c[i] = p

\* d is c with p at position j, and c without what is at position j.
IsInsert(c, d, j, p) ==
  /\ Len(d) = Len(c) + 1
  /\ \A i \in 1 .. Len(d) : d[i] = IF i < j THEN c[i] ELSE IF i = j THEN p ELSE c[i - 1]
IsRemove(c, d, j) ==
  /\ Len(d) = Len(c) - 1
  /\ \A i \in 1 .. Len(d) : d[i] = IF i < j THEN c[i] ELSE c[i + 1]
IsReplace(c, d, j, p) ==
  /\ Len(d) = Len(c)
  /\ \A i \in 1 .. Len(d) : d[i] = IF i = j THEN p ELSE c[i]

LEMMA InsertAtIs ==
  ASSUME NEW S, NEW c \in Seq(S), NEW p \in S, NEW j \in 1 .. Len(c) + 1
  PROVE  InsertAt(c, j, p) \in Seq(S) /\ IsInsert(c, InsertAt(c, j, p), j, p)
<1> DEFINE a == SubSeq(c, 1, j - 1)
           b == SubSeq(c, j, Len(c))
<1>1. /\ a \in Seq(S) /\ Len(a) = j - 1
      /\ \A i \in 1 .. j - 1 : a[i] = c[i]
  BY SubSeqProperties
<1>2. /\ b \in Seq(S) /\ Len(b) = Len(c) + 1 - j
      /\ \A i \in 1 .. Len(c) + 1 - j : b[i] = c[j + i - 1]
  OBVIOUS
<1> DEFINE m == a \o <<p>>
<1>3. InsertAt(c, j, p) = m \o b
  BY DEF InsertAt
<1> HIDE DEF a, b
<1>4. Len(c) \in Nat /\ j \in 1 .. Len(c) + 1
  OBVIOUS
<1>5. /\ m \in Seq(S) /\ Len(m) = j
      /\ \A i \in 1 .. j : m[i] = IF i < j THEN c[i] ELSE p
  BY <1>1, <1>4
<1> HIDE DEF m
<1>6. /\ m \o b \in Seq(S) /\ Len(m \o b) = Len(c) + 1
      /\ \A i \in 1 .. Len(c) + 1 : (m \o b)[i] = IF i <= j THEN m[i] ELSE b[i - j]
  BY <1>2, <1>4, <1>5
<1>7. ASSUME NEW i \in 1 .. Len(c) + 1
      PROVE  (m \o b)[i] = IF i < j THEN c[i] ELSE IF i = j THEN p ELSE c[i - 1]
  <2>1. CASE i <= j
    <3>1. (m \o b)[i] = m[i] /\ i \in 1 .. j
      BY <1>4, <1>6, <2>1
    <3> QED
      BY <1>4, <1>5, <2>1, <3>1
  <2>2. CASE i > j
    <3>1. i - j \in 1 .. Len(c) + 1 - j /\ j + (i - j) - 1 = i - 1
      BY <1>4, <2>2
    <3>2. b[i - j] = c[j + (i - j) - 1]
      BY <1>2, <3>1
    <3> QED
      BY <1>4, <1>6, <2>2, <3>1, <3>2
  <2>3. i <= j \/ i > j
    BY <1>4
  <2> QED
    BY <2>1, <2>2, <2>3
<1> QED
  BY <1>3, <1>6, <1>7 DEF IsInsert

LEMMA RemoveAtIs ==
  ASSUME NEW S, NEW c \in Seq(S), NEW j \in 1 .. Len(c)
  PROVE  RemoveAt(c, j) \in Seq(S) /\ IsRemove(c, RemoveAt(c, j), j)
<1> DEFINE a == SubSeq(c, 1, j - 1)
           b == SubSeq(c, j + 1, Len(c))
<1>1. /\ a \in Seq(S) /\ Len(a) = j - 1
      /\ \A i \in 1 .. j - 1 : a[i] = c[i]
  BY SubSeqProperties
<1>2. /\ b \in Seq(S) /\ Len(b) = Len(c) - j
      /\ \A i \in 1 .. Len(c) - j : b[i] = c[j + i]
  OBVIOUS
<1>3. RemoveAt(c, j) = a \o b
  BY DEF RemoveAt
<1> HIDE DEF a, b
<1>4. Len(c) \in Nat /\ j \in 1 .. Len(c)
  OBVIOUS
<1>5. /\ a \o b \in Seq(S) /\ Len(a \o b) = Len(c) - 1
      /\ \A i \in 1 .. Len(c) - 1 : (a \o b)[i] = IF i <= j - 1 THEN a[i] ELSE b[i - (j - 1)]
  <2>1. a \in Seq(S) /\ b \in Seq(S)
    BY <1>1, <1>2
  <2>2. /\ a \o b \in Seq(S) /\ Len(a \o b) = Len(a) + Len(b)
        /\ \A i \in 1 .. Len(a) + Len(b) :
             (a \o b)[i] = IF i <= Len(a) THEN a[i] ELSE b[i - Len(a)]
    BY <2>1, ConcatProperties
  <2>3. Len(a) = j - 1 /\ Len(a) + Len(b) = Len(c) - 1
    BY <1>1, <1>2, <1>4
  <2> QED
    BY <2>2, <2>3
<1>6. ASSUME NEW i \in 1 .. Len(c) - 1
      PROVE  (a \o b)[i] = IF i < j THEN c[i] ELSE c[i + 1]
  <2>1. CASE i < j
    <3>1. (a \o b)[i] = a[i] /\ i \in 1 .. j - 1
      BY <1>4, <1>5, <2>1
    <3> QED
      BY <1>1, <2>1, <3>1
  <2>2. CASE ~(i < j)
    <3>1. i - (j - 1) \in 1 .. Len(c) - j /\ j + (i - (j - 1)) = i + 1
      BY <1>4, <2>2
    <3>2. (a \o b)[i] = b[i - (j - 1)]
      BY <1>4, <1>5, <2>2
    <3>3. b[i - (j - 1)] = c[j + (i - (j - 1))]
      BY <1>2, <3>1
    <3> QED
      BY <2>2, <3>1, <3>2, <3>3
  <2> QED
    BY <2>1, <2>2
<1> QED
  BY <1>3, <1>5, <1>6 DEF IsRemove

\* Nothing but p is new, and what was not p stays distinct.
LEMMA InsertMembers ==
  ASSUME NEW S, NEW c \in Seq(S), NEW d \in Seq(S), NEW j \in 1 .. Len(c) + 1, NEW p,
         IsInsert(c, d, j, p)
  PROVE  /\ \A q : Among(d, q) <=> (q = p \/ Among(c, q))
         /\ Distinct(c) /\ ~Among(c, p) => Distinct(d)
<1>1. Len(c) \in Nat /\ Len(d) = Len(c) + 1
  BY DEF IsInsert
<1>2. \A i \in 1 .. Len(d) : /\ i < j => i \in 1 .. Len(c) /\ d[i] = c[i]
                             /\ i = j => d[i] = p
                             /\ i > j => i - 1 \in 1 .. Len(c) /\ d[i] = c[i - 1]
  BY <1>1 DEF IsInsert
<1>3. \A i \in 1 .. Len(c) : /\ i < j => i \in 1 .. Len(d) /\ d[i] = c[i]
                             /\ i >= j => i + 1 \in 1 .. Len(d) /\ d[i + 1] = c[i]
  <2> SUFFICES ASSUME NEW i \in 1 .. Len(c)
               PROVE  /\ i < j => i \in 1 .. Len(d) /\ d[i] = c[i]
                      /\ i >= j => i + 1 \in 1 .. Len(d) /\ d[i + 1] = c[i]
    OBVIOUS
  <2>1. i \in 1 .. Len(d) /\ i + 1 \in 1 .. Len(d) /\ (i + 1) - 1 = i
    BY <1>1
  <2> QED
    BY <1>2, <2>1
<1>4. j \in 1 .. Len(d)
  BY <1>1
<1>5. ASSUME NEW q PROVE Among(d, q) <=> (q = p \/ Among(c, q))
  <2>1. ASSUME NEW i \in 1 .. Len(d), d[i] = q PROVE q = p \/ Among(c, q)
    <3>1. i < j \/ i = j \/ i > j
      BY <1>1
    <3> QED
      BY <1>2, <2>1, <3>1 DEF Among
  <2>2. q = p => Among(d, q)
    BY <1>2, <1>4 DEF Among
  <2>3. Among(c, q) => Among(d, q)
    BY <1>3 DEF Among
  <2> QED
    BY <2>1, <2>2, <2>3 DEF Among
<1>6. ASSUME Distinct(c), ~Among(c, p) PROVE Distinct(d)
  <2> SUFFICES ASSUME NEW i \in 1 .. Len(d), NEW k \in 1 .. Len(d), d[i] = d[k], i < k
               PROVE  FALSE
    BY DEF Distinct
  <2>1. CASE i = j \/ k = j
    BY <1>2, <1>6, <2>1 DEF Among
  <2>2. CASE i # j /\ k # j
    BY <1>2, <1>6, <2>2 DEF Distinct
  <2> QED
    BY <2>1, <2>2
<1> QED
  BY <1>5, <1>6

LEMMA RemoveMembers ==
  ASSUME NEW S, NEW c \in Seq(S), NEW d \in Seq(S), NEW j \in 1 .. Len(c),
         IsRemove(c, d, j), Distinct(c)
  PROVE  /\ \A q : Among(d, q) <=> (q # c[j] /\ Among(c, q))
         /\ Distinct(d)
<1>1. Len(c) \in Nat /\ Len(d) = Len(c) - 1
  BY DEF IsRemove
<1>2. \A i \in 1 .. Len(d) : /\ i < j => i \in 1 .. Len(c) /\ d[i] = c[i]
                             /\ i >= j => i + 1 \in 1 .. Len(c) /\ d[i] = c[i + 1]
  BY <1>1 DEF IsRemove
<1>3. \A i \in 1 .. Len(c) : /\ i < j => i \in 1 .. Len(d) /\ d[i] = c[i]
                             /\ i > j => i - 1 \in 1 .. Len(d) /\ d[i - 1] = c[i]
  <2> SUFFICES ASSUME NEW i \in 1 .. Len(c)
               PROVE  /\ i < j => i \in 1 .. Len(d) /\ d[i] = c[i]
                      /\ i > j => i - 1 \in 1 .. Len(d) /\ d[i - 1] = c[i]
    OBVIOUS
  <2>1. i > j => i - 1 \in 1 .. Len(d) /\ i - 1 >= j /\ (i - 1) + 1 = i
    BY <1>1
  <2>2. i < j => i \in 1 .. Len(d)
    BY <1>1
  <2> QED
    BY <1>2, <2>1, <2>2
<1>5. ASSUME NEW q PROVE Among(d, q) <=> (q # c[j] /\ Among(c, q))
  <2>1. Among(d, q) => q # c[j] /\ Among(c, q)
    BY <1>2 DEF Among, Distinct
  <2>2. q # c[j] /\ Among(c, q) => Among(d, q)
    BY <1>3 DEF Among
  <2> QED
    BY <2>1, <2>2
<1>6. Distinct(d)
  <2> SUFFICES ASSUME NEW i \in 1 .. Len(d), NEW k \in 1 .. Len(d), d[i] = d[k], i < k
               PROVE  FALSE
    BY DEF Distinct
  <2> QED
    BY <1>2 DEF Distinct
<1> QED
  BY <1>5, <1>6

LEMMA ReplaceMembers ==
  ASSUME NEW S, NEW c \in Seq(S), NEW d \in Seq(S), NEW j \in 1 .. Len(c), NEW p,
         IsReplace(c, d, j, p), Distinct(c), ~Among(c, p)
  PROVE  /\ \A q : Among(d, q) <=> (q = p \/ (q # c[j] /\ Among(c, q)))
         /\ Distinct(d)
BY DEF IsReplace, Among, Distinct

-----------------------------------------------------------------------------
\* The neighbours of position i when the sequence is a ring.
After(c, i) == IF i = Len(c) THEN c[1] ELSE c[i + 1]
Before(c, i) == IF i = 1 THEN c[Len(c)] ELSE c[i - 1]

\* f leads around the members of c and b back.
Ring(f, b, c) == \A i \in 1 .. Len(c) : f[c[i]] = After(c, i) /\ b[c[i]] = Before(c, i)

\* Where a new member at position j comes between.
AtPosition(c, j) == IF j = Len(c) + 1 THEN c[1] ELSE c[j]
BeforePosition(c, j) == IF j = 1 THEN c[Len(c)] ELSE c[j - 1]

\* Link f with p between back and there, and without p.
LinkIn(f, p, there, back) == [f EXCEPT ![p] = there, ![back] = p]
LinkOut(f, p, there, back) == [f EXCEPT ![back] = there, ![p] = NULL]
LinkOver(f, p, q, there, back) == [f EXCEPT ![q] = there, ![back] = q, ![p] = NULL]

LEMMA RingInsert ==
  ASSUME NEW S, NEW c \in Seq(S), NEW d \in Seq(S), NEW j \in 1 .. Len(c) + 1, NEW p \in S,
         c # << >>, Distinct(c), ~Among(c, p), IsInsert(c, d, j, p),
         NEW f, NEW b, S \subseteq DOMAIN f, S \subseteq DOMAIN b, Ring(f, b, c),
         NEW next, next = AtPosition(c, j), NEW prev, prev = BeforePosition(c, j)
  PROVE  /\ prev = b[next] /\ next = f[prev]
         /\ Ring(LinkIn(f, p, next, prev), LinkIn(b, p, prev, next), d)
<1> USE DEF AtPosition, BeforePosition, LinkIn
<1> DEFINE g == LinkIn(f, p, next, prev)
           h == LinkIn(b, p, prev, next)
           n == Len(c)
<1>1. n \in Nat \ {0} /\ Len(d) = n + 1 /\ j \in 1 .. n + 1
  BY DEF IsInsert
<1>2. /\ \A i \in 1 .. n + 1 : /\ i < j => i \in 1 .. n /\ d[i] = c[i]
                               /\ i = j => d[i] = p
                               /\ i > j => i - 1 \in 1 .. n /\ d[i] = c[i - 1]
      /\ \A i \in 1 .. n : c[i] \in S /\ c[i] # p
      /\ \A i \in 1 .. n : f[c[i]] = (IF i = n THEN c[1] ELSE c[i + 1])
      /\ \A i \in 1 .. n : b[c[i]] = (IF i = 1 THEN c[n] ELSE c[i - 1])
      /\ \A i, k \in 1 .. n : c[i] = c[k] => i = k
  <2>1. \A i \in 1 .. n + 1 : /\ i < j => i \in 1 .. n /\ d[i] = c[i]
                              /\ i = j => d[i] = p
                              /\ i > j => i - 1 \in 1 .. n /\ d[i] = c[i - 1]
    BY <1>1 DEF IsInsert
  <2>2. \A i \in 1 .. n : c[i] \in S /\ c[i] # p
    BY DEF Among
  <2>3. /\ \A i \in 1 .. n : f[c[i]] = (IF i = n THEN c[1] ELSE c[i + 1])
        /\ \A i \in 1 .. n : b[c[i]] = (IF i = 1 THEN c[n] ELSE c[i - 1])
        /\ \A i, k \in 1 .. n : c[i] = c[k] => i = k
    BY DEF Ring, After, Before, Distinct
  <2> QED
    BY <2>1, <2>2, <2>3
<1>3. next \in S /\ prev \in S /\ next # p /\ prev # p
  BY <1>1, <1>2
<1>4. /\ g[p] = next /\ g[prev] = p /\ \A q \in S : q # p /\ q # prev => g[q] = f[q]
      /\ h[p] = prev /\ h[next] = p /\ \A q \in S : q # p /\ q # next => h[q] = b[q]
  BY <1>3
<1>5. prev = b[next] /\ next = f[prev]
  BY <1>1, <1>2
<1> HIDE DEF g, h, n
<1>6. ASSUME NEW i \in 1 .. n + 1
      PROVE  g[d[i]] = IF i = n + 1 THEN d[1] ELSE d[i + 1]
  <2>1. CASE i = j
    <3>1. CASE j = n + 1
      BY <1>1, <1>2, <1>4, <2>1, <3>1 DEF n
    <3>2. CASE j # n + 1
      <4>1. i + 1 \in 1 .. n + 1 /\ i + 1 > j /\ d[i + 1] = c[j]
        <5>1. i + 1 \in 1 .. n + 1 /\ i + 1 > j /\ (i + 1) - 1 = j
          BY <1>1, <2>1, <3>2
        <5> QED
          BY <1>2, <5>1
      <4> QED
        BY <1>1, <1>2, <1>4, <2>1, <3>2, <4>1 DEF n
    <3> QED
      BY <3>1, <3>2
  <2>2. CASE i # j /\ d[i] = prev
    <3>1. IF j = 1 THEN i = n + 1 ELSE i = j - 1
      <4> DEFINE k == IF j = 1 THEN n ELSE j - 1
      <4>1. k \in 1 .. n /\ prev = c[k]
        BY <1>1 DEF n
      <4>2. i < j => i = k
        BY <1>2, <2>2, <4>1
      <4>3. i > j => i - 1 = k
        BY <1>2, <2>2, <4>1
      <4> QED
        BY <1>1, <2>2, <4>2, <4>3
    <3> QED
      BY <1>1, <1>2, <1>4, <2>2, <3>1
  <2>3. CASE i # j /\ d[i] # prev
    <3>1. d[i] \in S /\ d[i] # p
      <4>1. i < j \/ i > j
        BY <1>1, <2>3
      <4> QED
        BY <1>2, <4>1
    <3>2. g[d[i]] = f[d[i]]
      BY <1>4, <2>3, <3>1
    <3>3. CASE i < j
      <4>1. i # j - 1
        BY <1>1, <1>2, <2>3, <3>3 DEF n
      <4>2. i + 1 < j /\ i + 1 \in 1 .. n + 1 /\ i \in 1 .. n /\ i # n + 1 /\ i # n
        BY <1>1, <3>3, <4>1 DEF n
      <4>3. d[i] = c[i] /\ d[i + 1] = c[i + 1] /\ f[c[i]] = c[i + 1]
        BY <1>2, <3>3, <4>2
      <4> QED
        BY <3>2, <4>2, <4>3
    <3>4. CASE i > j
      <4>1. i - 1 \in 1 .. n /\ d[i] = c[i - 1] /\ (i - 1) + 1 = i
        BY <1>1, <1>2, <3>4
      <4>2. CASE i = n + 1
        <5>1. 1 < j
          BY <1>1, <1>2, <2>3, <3>4, <4>1, <4>2 DEF n
        <5>2. d[1] = c[1] /\ f[c[i - 1]] = c[1]
          BY <1>1, <1>2, <4>1, <4>2, <5>1
        <5> QED
          BY <3>2, <4>1, <4>2, <5>2
      <4>3. CASE i # n + 1
        <5>1. i + 1 \in 1 .. n + 1 /\ i + 1 > j /\ (i + 1) - 1 = i /\ i - 1 # n
          BY <1>1, <3>4, <4>3
        <5>2. d[i + 1] = c[i] /\ f[c[i - 1]] = c[i]
          BY <1>1, <1>2, <4>1, <5>1
        <5> QED
          BY <3>2, <4>1, <4>3, <5>2
      <4> QED
        BY <4>2, <4>3
    <3> QED
      BY <1>1, <2>3, <3>3, <3>4
  <2> QED
    BY <2>1, <2>2, <2>3
<1>7. ASSUME NEW i \in 1 .. n + 1
      PROVE  h[d[i]] = IF i = 1 THEN d[n + 1] ELSE d[i - 1]
  <2>1. CASE i = j
    <3>1. CASE j = 1
      <4>1. n + 1 \in 1 .. n + 1 /\ n + 1 > j /\ d[n + 1] = c[n]
        BY <1>1, <1>2, <3>1
      <4> QED
        BY <1>1, <1>2, <1>4, <2>1, <3>1, <4>1 DEF n
    <3>2. CASE j # 1
      <4>1. i - 1 \in 1 .. n + 1 /\ i - 1 < j /\ d[i - 1] = c[j - 1]
        BY <1>1, <1>2, <2>1, <3>2
      <4> QED
        BY <1>1, <1>2, <1>4, <2>1, <3>2, <4>1 DEF n
    <3> QED
      BY <3>1, <3>2
  <2>2. CASE i # j /\ d[i] = next
    <3>1. IF j = n + 1 THEN i = 1 ELSE i = j + 1
      <4> DEFINE k == IF j = n + 1 THEN 1 ELSE j
      <4>1. k \in 1 .. n /\ next = c[k]
        BY <1>1 DEF n
      <4>2. i < j => i = k
        BY <1>2, <2>2, <4>1
      <4>3. i > j => i - 1 = k
        BY <1>2, <2>2, <4>1
      <4> QED
        BY <1>1, <2>2, <4>2, <4>3
    <3> QED
      BY <1>1, <1>2, <1>4, <2>2, <3>1
  <2>3. CASE i # j /\ d[i] # next
    <3>1. d[i] \in S /\ d[i] # p
      <4>1. i < j \/ i > j
        BY <1>1, <2>3
      <4> QED
        BY <1>2, <4>1
    <3>2. h[d[i]] = b[d[i]]
      BY <1>4, <2>3, <3>1
    <3>3. CASE i < j
      <4>1. i \in 1 .. n /\ d[i] = c[i]
        BY <1>1, <1>2, <3>3
      <4>2. CASE i = 1
        <5>1. j # n + 1
          BY <1>1, <1>2, <2>3, <4>1, <4>2 DEF n
        <5>2. n + 1 > j /\ n + 1 \in 1 .. n + 1 /\ d[n + 1] = c[n] /\ b[c[i]] = c[n]
          BY <1>1, <1>2, <4>1, <4>2, <5>1 DEF n
        <5> QED
          BY <3>2, <4>1, <4>2, <5>2
      <4>3. CASE i # 1
        <5>1. i - 1 \in 1 .. n + 1 /\ i - 1 < j
          BY <1>1, <3>3, <4>3
        <5>2. d[i - 1] = c[i - 1] /\ b[c[i]] = c[i - 1]
          BY <1>1, <1>2, <4>1, <4>3, <5>1
        <5> QED
          BY <3>2, <4>1, <4>3, <5>2
      <4> QED
        BY <4>2, <4>3
    <3>4. CASE i > j
      <4>1. i - 1 \in 1 .. n /\ d[i] = c[i - 1] /\ i # 1
        BY <1>1, <1>2, <3>4
      <4>2. i # j + 1
        BY <1>1, <1>2, <2>3, <4>1 DEF n
      <4>3. i - 1 > j /\ i - 1 \in 1 .. n + 1 /\ i - 1 # 1
        BY <1>1, <3>4, <4>1, <4>2
      <4>4. d[i - 1] = c[(i - 1) - 1] /\ b[c[i - 1]] = c[(i - 1) - 1]
        BY <1>2, <4>1, <4>3
      <4> QED
        BY <3>2, <4>1, <4>4
    <3> QED
      BY <1>1, <2>3, <3>3, <3>4
  <2> QED
    BY <2>1, <2>2, <2>3
<1>8. Ring(g, h, d)
  <2>1. Len(d) = n + 1
    BY <1>1
  <2> QED
    BY <1>6, <1>7, <2>1 DEF Ring, After, Before
<1> QED
  BY <1>5, <1>8 DEF g, h

LEMMA RingRemove ==
  ASSUME NEW S, NEW c \in Seq(S), NEW d \in Seq(S), NEW j \in 1 .. Len(c),
         Distinct(c), IsRemove(c, d, j),
         NEW f, NEW b, S \subseteq DOMAIN f, S \subseteq DOMAIN b, Ring(f, b, c),
         NEW next, next = f[c[j]], NEW prev, prev = b[c[j]]
  PROVE  /\ f[prev] = c[j] /\ b[next] = c[j] /\ Among(c, next) /\ Among(c, prev)
         /\ Ring(LinkOut(f, c[j], next, prev), LinkOut(b, c[j], prev, next), d)
<1> USE DEF LinkOut
<1> DEFINE p == c[j]
           g == LinkOut(f, p, next, prev)
           h == LinkOut(b, p, prev, next)
           n == Len(c)
<1>1. n \in Nat \ {0} /\ Len(d) = n - 1 /\ j \in 1 .. n
  BY DEF IsRemove
<1>2. /\ \A i \in 1 .. n - 1 : /\ i < j => i \in 1 .. n /\ d[i] = c[i]
                               /\ i >= j => i + 1 \in 1 .. n /\ d[i] = c[i + 1]
      /\ \A i \in 1 .. n : c[i] \in S
      /\ \A i \in 1 .. n : f[c[i]] = (IF i = n THEN c[1] ELSE c[i + 1])
      /\ \A i \in 1 .. n : b[c[i]] = (IF i = 1 THEN c[n] ELSE c[i - 1])
      /\ \A i, k \in 1 .. n : c[i] = c[k] => i = k
  <2>1. \A i \in 1 .. n - 1 : /\ i < j => i \in 1 .. n /\ d[i] = c[i]
                              /\ i >= j => i + 1 \in 1 .. n /\ d[i] = c[i + 1]
    BY <1>1 DEF IsRemove
  <2>2. /\ \A i \in 1 .. n : f[c[i]] = (IF i = n THEN c[1] ELSE c[i + 1])
        /\ \A i \in 1 .. n : b[c[i]] = (IF i = 1 THEN c[n] ELSE c[i - 1])
        /\ \A i, k \in 1 .. n : c[i] = c[k] => i = k
    BY DEF Ring, After, Before, Distinct
  <2>3. \A i \in 1 .. n : c[i] \in S
    OBVIOUS
  <2> HIDE DEF n
  <2> QED
    BY <2>1, <2>2, <2>3
<1> DEFINE nx == IF j = n THEN 1 ELSE j + 1
           pv == IF j = 1 THEN n ELSE j - 1
<1>3. /\ nx \in 1 .. n /\ next = c[nx] /\ pv \in 1 .. n /\ prev = c[pv]
      /\ p \in S /\ next \in S /\ prev \in S
  BY <1>1, <1>2
<1>4. /\ g[p] = NULL /\ (prev # p => g[prev] = next)
      /\ \A q \in S : q # p /\ q # prev => g[q] = f[q]
      /\ h[p] = NULL /\ (next # p => h[next] = prev)
      /\ \A q \in S : q # p /\ q # next => h[q] = b[q]
  BY <1>3
<1>5. f[prev] = p /\ b[next] = p
  <2> HIDE DEF n
  <2>1. (pv = n => j = 1) /\ (pv # n => pv + 1 = j) /\ (nx = 1 => j = n) /\ (nx # 1 => nx - 1 = j)
    BY <1>1
  <2>2. f[c[pv]] = c[j] /\ b[c[nx]] = c[j]
    <3> HIDE DEF pv, nx
    <3> QED
      BY <1>2, <1>3, <2>1
  <2> QED
    BY <1>3, <2>2
<1>6. Among(c, next) /\ Among(c, prev)
  BY <1>3 DEF Among
<1> HIDE DEF g, h, n, p
<1>7. ASSUME NEW i \in 1 .. n - 1
      PROVE  /\ d[i] \in S /\ d[i] # p
             /\ g[d[i]] = IF i = n - 1 THEN d[1] ELSE d[i + 1]
             /\ h[d[i]] = IF i = 1 THEN d[n - 1] ELSE d[i - 1]
  <2> DEFINE at == IF i < j THEN i ELSE i + 1
  <2>1. at \in 1 .. n /\ d[i] = c[at] /\ at # j
    BY <1>1, <1>2
  <2>2. d[i] \in S /\ d[i] # p /\ (d[i] = prev <=> at = pv) /\ (d[i] = next <=> at = nx)
    <3> HIDE DEF at, pv, nx
    <3> QED
      BY <1>1, <1>2, <1>3, <2>1 DEF p
  <2>3. g[d[i]] = IF at = pv THEN next ELSE f[c[at]]
    BY <1>4, <2>1, <2>2
  <2>4. h[d[i]] = IF at = nx THEN prev ELSE b[c[at]]
    BY <1>4, <2>1, <2>2
  <2> DEFINE up == IF i = n - 1 THEN 1 ELSE i + 1
             upat == IF up < j THEN up ELSE up + 1
             down == IF i = 1 THEN n - 1 ELSE i - 1
             downat == IF down < j THEN down ELSE down + 1
  <2>5. up \in 1 .. n - 1 /\ down \in 1 .. n - 1
    BY <1>1
  <2>6. d[up] = c[upat] /\ upat \in 1 .. n /\ d[down] = c[downat] /\ downat \in 1 .. n
    <3> HIDE DEF up, down
    <3> QED
      BY <1>1, <1>2, <2>5
  <2>7. upat = IF at = pv THEN nx ELSE IF at = n THEN 1 ELSE at + 1
    BY <1>1, <2>1
  <2>8. downat = IF at = nx THEN pv ELSE IF at = 1 THEN n ELSE at - 1
    BY <1>1, <2>1
  <2>9. c[upat] = IF at = pv THEN next ELSE f[c[at]]
    <3> HIDE DEF upat, at, nx, pv
    <3> QED
      BY <1>2, <1>3, <2>1, <2>7
  <2>10. c[downat] = IF at = nx THEN prev ELSE b[c[at]]
    <3> HIDE DEF downat, at, nx, pv
    <3> QED
      BY <1>2, <1>3, <2>1, <2>8
  <2>11. g[d[i]] = d[up] /\ h[d[i]] = d[down]
    BY <2>3, <2>4, <2>6, <2>9, <2>10
  <2> QED
    BY <2>2, <2>11
<1>8. Ring(g, h, d)
  <2>1. Len(d) = n - 1
    BY <1>1
  <2> QED
    BY <1>7, <2>1 DEF Ring, After, Before
<1> QED
  BY <1>5, <1>6, <1>8 DEF g, h, p

\* q takes the place of c[j].
LEMMA RingReplace ==
  ASSUME NEW S, NEW c \in Seq(S), NEW d \in Seq(S), NEW j \in 1 .. Len(c), NEW q \in S,
         Len(c) >= 2, Distinct(c), ~Among(c, q), IsReplace(c, d, j, q),
         NEW f, NEW b, S \subseteq DOMAIN f, S \subseteq DOMAIN b, Ring(f, b, c),
         NEW next, next = f[c[j]], NEW prev, prev = b[c[j]]
  PROVE  /\ next # c[j] /\ prev # c[j]
         /\ Ring(LinkOver(f, c[j], q, next, prev), LinkOver(b, c[j], q, prev, next), d)
<1> USE DEF LinkOver
<1> DEFINE p == c[j]
           g == LinkOver(f, p, q, next, prev)
           h == LinkOver(b, p, q, prev, next)
           n == Len(c)
<1>1. n \in Nat /\ n >= 2 /\ Len(d) = n /\ j \in 1 .. n
  BY DEF IsReplace
<1>2. /\ \A i \in 1 .. n : d[i] = IF i = j THEN q ELSE c[i]
      /\ \A i \in 1 .. n : c[i] \in S /\ c[i] # q
      /\ \A i \in 1 .. n : f[c[i]] = (IF i = n THEN c[1] ELSE c[i + 1])
      /\ \A i \in 1 .. n : b[c[i]] = (IF i = 1 THEN c[n] ELSE c[i - 1])
      /\ \A i, k \in 1 .. n : c[i] = c[k] => i = k
  <2>1. \A i \in 1 .. n : d[i] = IF i = j THEN q ELSE c[i]
    BY <1>1 DEF IsReplace
  <2>2. /\ \A i \in 1 .. n : f[c[i]] = (IF i = n THEN c[1] ELSE c[i + 1])
        /\ \A i \in 1 .. n : b[c[i]] = (IF i = 1 THEN c[n] ELSE c[i - 1])
        /\ \A i, k \in 1 .. n : c[i] = c[k] => i = k
    BY DEF Ring, After, Before, Distinct
  <2>3. \A i \in 1 .. n : c[i] \in S /\ c[i] # q
    BY DEF Among
  <2> HIDE DEF n
  <2> QED
    BY <2>1, <2>2, <2>3
<1> DEFINE nx == IF j = n THEN 1 ELSE j + 1
           pv == IF j = 1 THEN n ELSE j - 1
<1>3. /\ nx \in 1 .. n /\ next = c[nx] /\ pv \in 1 .. n /\ prev = c[pv] /\ nx # j /\ pv # j
      /\ p \in S /\ next \in S /\ prev \in S
  BY <1>1, <1>2
<1>4. next # p /\ prev # p /\ next # q /\ prev # q /\ p # q
  BY <1>1, <1>2, <1>3
<1>5. /\ g[p] = NULL /\ g[prev] = q /\ g[q] = next
      /\ \A r \in S : r # p /\ r # prev /\ r # q => g[r] = f[r]
      /\ h[p] = NULL /\ h[next] = q /\ h[q] = prev
      /\ \A r \in S : r # p /\ r # next /\ r # q => h[r] = b[r]
  BY <1>3, <1>4
<1> HIDE DEF g, h, n, p
<1>7. ASSUME NEW i \in 1 .. n
      PROVE  /\ g[d[i]] = IF i = n THEN d[1] ELSE d[i + 1]
             /\ h[d[i]] = IF i = 1 THEN d[n] ELSE d[i - 1]
  <2> DEFINE up == IF i = n THEN 1 ELSE i + 1
             down == IF i = 1 THEN n ELSE i - 1
  <2>1. up \in 1 .. n /\ down \in 1 .. n /\ (up = j <=> i = pv) /\ (down = j <=> i = nx)
        /\ (i = j => up = nx /\ down = pv)
    BY <1>1
  <2>2. i # j => f[c[i]] = c[up] /\ b[c[i]] = c[down] /\ d[i] = c[i] /\ d[i] # p /\ d[i] # q
    BY <1>1, <1>2 DEF p
  <2>3. i # j => (d[i] = prev <=> i = pv) /\ (d[i] = next <=> i = nx)
    BY <1>2, <1>3, <2>2
  <2> HIDE DEF up, down, nx, pv
  <2>4. d[up] = (IF up = j THEN q ELSE c[up]) /\ d[down] = (IF down = j THEN q ELSE c[down])
    BY <1>2, <2>1
  <2>5. g[d[i]] = d[up] /\ h[d[i]] = d[down]
    <3>1. CASE i = j
      <4>1. d[i] = q /\ up # j /\ down # j
        BY <1>2, <1>3, <2>1, <3>1
      <4> QED
        BY <1>3, <1>5, <2>1, <2>4, <3>1, <4>1
    <3>2. CASE i # j
      <4>1. c[i] \in S
        BY <1>2
      <4>2. g[d[i]] = IF i = pv THEN q ELSE c[up]
        BY <1>5, <2>2, <2>3, <3>2, <4>1
      <4>3. h[d[i]] = IF i = nx THEN q ELSE c[down]
        BY <1>5, <2>2, <2>3, <3>2, <4>1
      <4> QED
        BY <2>1, <2>4, <4>2, <4>3
    <3> QED
      BY <3>1, <3>2
  <2> QED
    BY <2>5 DEF up, down
<1>8. Ring(g, h, d)
  <2>1. Len(d) = n
    BY <1>1
  <2> QED
    BY <1>7, <2>1 DEF Ring, After, Before
<1> QED
  BY <1>4, <1>8 DEF g, h, p

\* Where position i is after an insertion at j.
Up(i, j) == IF i < j THEN i ELSE i + 1

\* p at position j of d, and the rest in its old order.
Inserted(c, d, j, p) ==
  /\ j \in 1 .. Len(d) /\ d[j] = p
  /\ \A i \in 1 .. Len(c) : Up(i, j) \in 1 .. Len(d) /\ d[Up(i, j)] = c[i] /\ Up(i, j) # j
  /\ \A x \in 1 .. Len(d) : x # j => \E i \in 1 .. Len(c) : x = Up(i, j)
  /\ \A i, k \in 1 .. Len(c) : Up(i, j) < Up(k, j) <=> i < k
  /\ \A i \in 1 .. Len(c) : /\ Up(i, j) < j <=> i < j
                            /\ j < Up(i, j) <=> j <= i

LEMMA InsertPositions ==
  ASSUME NEW S, NEW c \in Seq(S), NEW d \in Seq(S), NEW j \in 1 .. Len(c) + 1, NEW p,
         IsInsert(c, d, j, p)
  PROVE  Inserted(c, d, j, p)
<1> DEFINE n == Len(c)
<1>1. n \in Nat /\ Len(d) = n + 1 /\ j \in 1 .. n + 1
  BY DEF IsInsert
<1>2. \A i \in 1 .. n + 1 : d[i] = IF i < j THEN c[i] ELSE IF i = j THEN p ELSE c[i - 1]
  BY <1>1 DEF IsInsert
<1> HIDE DEF n
<1>3. ASSUME NEW i \in 1 .. n
      PROVE  /\ Up(i, j) \in 1 .. n + 1 /\ d[Up(i, j)] = c[i] /\ Up(i, j) # j
             /\ Up(i, j) < j <=> i < j
             /\ j < Up(i, j) <=> j <= i
  <2>1. CASE i < j
    BY <1>1, <1>2, <2>1 DEF Up
  <2>2. CASE i >= j
    <3>1. i + 1 \in 1 .. n + 1 /\ i + 1 > j /\ (i + 1) - 1 = i /\ Up(i, j) = i + 1
      BY <1>1, <2>2 DEF Up
    <3>2. d[i + 1] = c[i]
      BY <1>2, <3>1
    <3> QED
      BY <1>1, <2>2, <3>1, <3>2
  <2> QED
    BY <1>1, <2>1, <2>2
<1>4. ASSUME NEW x \in 1 .. n + 1, x # j
      PROVE  \E i \in 1 .. n : x = Up(i, j)
  <2>1. CASE x < j
    <3>1. x \in 1 .. n /\ x = Up(x, j)
      BY <1>1, <2>1 DEF Up
    <3> QED
      BY <3>1
  <2>2. CASE x > j
    <3>1. x - 1 \in 1 .. n /\ x = Up(x - 1, j)
      BY <1>1, <2>2 DEF Up
    <3> QED
      BY <3>1
  <2> QED
    BY <1>1, <1>4, <2>1, <2>2
<1>5. \A i, k \in 1 .. n : Up(i, j) < Up(k, j) <=> i < k
  BY <1>1 DEF Up
<1>6. j \in 1 .. n + 1 /\ d[j] = p
  BY <1>1, <1>2
<1> QED
  BY <1>1, <1>3, <1>4, <1>5, <1>6 DEF Inserted, n

\* What is removed could be put back.
LEMMA RemovePositions ==
  ASSUME NEW S, NEW c \in Seq(S), NEW d \in Seq(S), NEW j \in 1 .. Len(c), IsRemove(c, d, j)
  PROVE  Inserted(d, c, j, c[j])
<1> DEFINE n == Len(d)
<1>1. n \in Nat /\ Len(c) = n + 1 /\ j \in 1 .. n + 1
  BY DEF IsRemove
<1>2. \A i \in 1 .. n : d[i] = IF i < j THEN c[i] ELSE c[i + 1]
  BY DEF IsRemove
<1>3. ASSUME NEW i \in 1 .. n + 1
      PROVE  c[i] = IF i < j THEN d[i] ELSE IF i = j THEN c[j] ELSE d[i - 1]
  <2> HIDE DEF n
  <2>1. CASE i < j
    <3>1. i \in 1 .. n
      BY <1>1, <2>1
    <3> QED
      BY <1>2, <2>1, <3>1
  <2>2. CASE i > j
    <3>1. i - 1 \in 1 .. n /\ ~(i - 1 < j) /\ (i - 1) + 1 = i
      BY <1>1, <2>2
    <3>2. d[i - 1] = c[i]
      BY <1>2, <3>1
    <3> QED
      BY <1>1, <2>2, <3>2
  <2> QED
    BY <1>1, <2>1, <2>2
<1>4. IsInsert(d, c, j, c[j])
  BY <1>1, <1>3 DEF IsInsert
<1> QED
  BY <1>1, <1>4, InsertPositions

-----------------------------------------------------------------------------
(* What the two rings of a bin hold.                                       *)

LEMMA SizeNumbers == \A p \in CHUNKS : SIZES[p] \in Nat
BY LargeBinAssumption

\* The first of its size.
IsFirst(s, i) == \A j \in 1 .. Len(s) : j < i => SIZES[s[j]] > SIZES[s[i]]

\* s is sorted by falling size, and z has the first of each size.
Bin(s, z) ==
  /\ s \in Seq(CHUNKS) /\ z \in Seq(CHUNKS)
  /\ Distinct(s)
  /\ \A i, j \in 1 .. Len(s) : i < j => SIZES[s[i]] >= SIZES[s[j]]
  /\ \A i, j \in 1 .. Len(z) : i < j => SIZES[z[i]] > SIZES[z[j]]
  /\ \A k \in 1 .. Len(z) : \E i \in 1 .. Len(s) : s[i] = z[k] /\ IsFirst(s, i)
  /\ \A i \in 1 .. Len(s) : IsFirst(s, i) => Among(z, s[i])

LEMMA BinNumbers ==
  ASSUME NEW s, NEW z, Bin(s, z)
  PROVE  /\ Len(s) \in Nat /\ \A i \in 1 .. Len(s) : s[i] \in CHUNKS /\ SIZES[s[i]] \in Nat
         /\ Len(z) \in Nat /\ \A i \in 1 .. Len(z) : z[i] \in CHUNKS /\ SIZES[z[i]] \in Nat
         /\ Distinct(z)
<1>1. s \in Seq(CHUNKS) /\ z \in Seq(CHUNKS)
  BY DEF Bin
<1>2. /\ Len(s) \in Nat /\ \A i \in 1 .. Len(s) : s[i] \in CHUNKS
      /\ Len(z) \in Nat /\ \A i \in 1 .. Len(z) : z[i] \in CHUNKS
  BY <1>1
<1>3. /\ \A i \in 1 .. Len(s) : SIZES[s[i]] \in Nat
      /\ \A i \in 1 .. Len(z) : SIZES[z[i]] \in Nat
  BY <1>2, SizeNumbers
<1>4. ASSUME NEW i \in 1 .. Len(z), NEW j \in 1 .. Len(z), z[i] = z[j]
      PROVE  i = j
  <2>1. ~(i < j) /\ ~(j < i)
    BY <1>3, <1>4 DEF Bin
  <2> QED
    BY <2>1
<1> QED
  BY <1>2, <1>3, <1>4 DEF Distinct

\* p is the first of its size.
LEMMA BinInsertNew ==
  ASSUME NEW s, NEW z, Bin(s, z), NEW p \in CHUNKS, ~Among(s, p),
         NEW i \in 1 .. Len(s) + 1, NEW k \in 1 .. Len(z) + 1,
         NEW d \in Seq(CHUNKS), IsInsert(s, d, i, p),
         NEW y \in Seq(CHUNKS), IsInsert(z, y, k, p),
         \A j \in 1 .. Len(s) : /\ j < i => SIZES[s[j]] > SIZES[p]
                                /\ i <= j => SIZES[s[j]] < SIZES[p],
         \A j \in 1 .. Len(z) : /\ j < k => SIZES[z[j]] > SIZES[p]
                                /\ k <= j => SIZES[z[j]] < SIZES[p]
  PROVE  Bin(d, y)
<1>1. /\ Len(s) \in Nat /\ \A j \in 1 .. Len(s) : s[j] \in CHUNKS /\ SIZES[s[j]] \in Nat
      /\ Len(z) \in Nat /\ \A j \in 1 .. Len(z) : z[j] \in CHUNKS /\ SIZES[z[j]] \in Nat
      /\ s \in Seq(CHUNKS) /\ z \in Seq(CHUNKS) /\ Distinct(s) /\ SIZES[p] \in Nat
  BY BinNumbers, SizeNumbers DEF Bin
<1>2. Inserted(s, d, i, p) /\ Inserted(z, y, k, p)
  BY <1>1, InsertPositions
<1>3. Distinct(d)
  BY <1>1, InsertMembers
<1>4. ASSUME NEW a \in 1 .. Len(d), NEW b \in 1 .. Len(d), a < b
      PROVE  SIZES[d[a]] >= SIZES[d[b]]
  <2>1. CASE a # i /\ b # i
    <3>1. PICK a0 \in 1 .. Len(s), b0 \in 1 .. Len(s) : a = Up(a0, i) /\ b = Up(b0, i)
      BY <1>2, <2>1 DEF Inserted
    <3>2. a0 < b0 /\ d[a] = s[a0] /\ d[b] = s[b0]
      BY <1>2, <1>4, <3>1 DEF Inserted
    <3> QED
      BY <3>2 DEF Bin
  <2>2. CASE a = i
    <3>1. PICK b0 \in 1 .. Len(s) : b = Up(b0, i)
      BY <1>2, <1>4, <2>2 DEF Inserted
    <3>2. i <= b0 /\ d[a] = p /\ d[b] = s[b0]
      BY <1>2, <1>4, <2>2, <3>1 DEF Inserted
    <3> QED
      BY <1>1, <3>2
  <2>3. CASE b = i
    <3>1. PICK a0 \in 1 .. Len(s) : a = Up(a0, i)
      BY <1>2, <1>4, <2>3 DEF Inserted
    <3>2. a0 < i /\ d[b] = p /\ d[a] = s[a0]
      BY <1>2, <1>4, <2>3, <3>1 DEF Inserted
    <3> QED
      BY <1>1, <3>2
  <2> QED
    BY <2>1, <2>2, <2>3
<1>5. ASSUME NEW a \in 1 .. Len(y), NEW b \in 1 .. Len(y), a < b
      PROVE  SIZES[y[a]] > SIZES[y[b]]
  <2>1. CASE a # k /\ b # k
    <3>1. PICK a0 \in 1 .. Len(z), b0 \in 1 .. Len(z) : a = Up(a0, k) /\ b = Up(b0, k)
      BY <1>2, <2>1 DEF Inserted
    <3>2. a0 < b0 /\ y[a] = z[a0] /\ y[b] = z[b0]
      BY <1>2, <1>5, <3>1 DEF Inserted
    <3> QED
      BY <3>2 DEF Bin
  <2>2. CASE a = k
    <3>1. PICK b0 \in 1 .. Len(z) : b = Up(b0, k)
      BY <1>2, <1>5, <2>2 DEF Inserted
    <3>2. k <= b0 /\ y[a] = p /\ y[b] = z[b0]
      BY <1>2, <1>5, <2>2, <3>1 DEF Inserted
    <3> QED
      BY <1>1, <3>2
  <2>3. CASE b = k
    <3>1. PICK a0 \in 1 .. Len(z) : a = Up(a0, k)
      BY <1>2, <1>5, <2>3 DEF Inserted
    <3>2. a0 < k /\ y[b] = p /\ y[a] = z[a0]
      BY <1>2, <1>5, <2>3, <3>1 DEF Inserted
    <3> QED
      BY <1>1, <3>2
  <2> QED
    BY <2>1, <2>2, <2>3
<1>6. IsFirst(d, i) /\ d[i] = p /\ i \in 1 .. Len(d) /\ y[k] = p /\ k \in 1 .. Len(y)
  <2>1. d[i] = p /\ i \in 1 .. Len(d) /\ y[k] = p /\ k \in 1 .. Len(y)
    BY <1>2 DEF Inserted
  <2>2. ASSUME NEW j \in 1 .. Len(d), j < i PROVE SIZES[d[j]] > SIZES[d[i]]
    <3>1. PICK j0 \in 1 .. Len(s) : j = Up(j0, i)
      BY <1>2, <2>2 DEF Inserted
    <3>2. j0 < i /\ d[j] = s[j0]
      BY <1>2, <2>2, <3>1 DEF Inserted
    <3> QED
      BY <2>1, <3>2
  <2> QED
    BY <2>1, <2>2 DEF IsFirst
<1>7. ASSUME NEW a0 \in 1 .. Len(s)
      PROVE  IsFirst(d, Up(a0, i)) <=> IsFirst(s, a0)
  <2>1. Up(a0, i) \in 1 .. Len(d) /\ d[Up(a0, i)] = s[a0]
    BY <1>2 DEF Inserted
  <2>2. ASSUME IsFirst(s, a0), NEW j \in 1 .. Len(d), j < Up(a0, i)
        PROVE  SIZES[d[j]] > SIZES[s[a0]]
    <3>1. CASE j = i
      BY <1>2, <2>2, <3>1 DEF Inserted
    <3>2. CASE j # i
      <4>1. PICK j0 \in 1 .. Len(s) : j = Up(j0, i)
        BY <1>2, <3>2 DEF Inserted
      <4>2. j0 < a0 /\ d[j] = s[j0]
        BY <1>2, <2>2, <4>1 DEF Inserted
      <4> QED
        BY <2>2, <4>2 DEF IsFirst
    <3> QED
      BY <3>1, <3>2
  <2>3. ASSUME IsFirst(d, Up(a0, i)), NEW j \in 1 .. Len(s), j < a0
        PROVE  SIZES[s[j]] > SIZES[s[a0]]
    <3>1. Up(j, i) < Up(a0, i) /\ Up(j, i) \in 1 .. Len(d) /\ d[Up(j, i)] = s[j]
      BY <1>2, <2>3 DEF Inserted
    <3> QED
      BY <2>1, <2>3, <3>1 DEF IsFirst
  <2> QED
    BY <2>1, <2>2, <2>3 DEF IsFirst
<1>8. ASSUME NEW a \in 1 .. Len(y)
      PROVE  \E x \in 1 .. Len(d) : d[x] = y[a] /\ IsFirst(d, x)
  <2>1. CASE a = k
    BY <1>6, <2>1
  <2>2. CASE a # k
    <3>1. PICK a0 \in 1 .. Len(z) : a = Up(a0, k) /\ y[a] = z[a0]
      BY <1>2, <2>2 DEF Inserted
    <3>2. PICK x0 \in 1 .. Len(s) : s[x0] = z[a0] /\ IsFirst(s, x0)
      BY DEF Bin
    <3>3. Up(x0, i) \in 1 .. Len(d) /\ d[Up(x0, i)] = s[x0]
      BY <1>2 DEF Inserted
    <3> QED
      BY <1>7, <3>1, <3>2, <3>3
  <2> QED
    BY <2>1, <2>2
<1>9. ASSUME NEW x \in 1 .. Len(d), IsFirst(d, x)
      PROVE  Among(y, d[x])
  <2>1. CASE x = i
    BY <1>6, <2>1 DEF Among
  <2>2. CASE x # i
    <3>1. PICK x0 \in 1 .. Len(s) : x = Up(x0, i) /\ d[x] = s[x0]
      BY <1>2, <2>2 DEF Inserted
    <3>2. PICK a0 \in 1 .. Len(z) : z[a0] = s[x0]
      BY <1>7, <1>9, <3>1 DEF Bin, Among
    <3>3. Up(a0, k) \in 1 .. Len(y) /\ y[Up(a0, k)] = z[a0]
      BY <1>2 DEF Inserted
    <3> QED
      BY <3>1, <3>2, <3>3 DEF Among
  <2> QED
    BY <2>1, <2>2
<1> QED
  BY <1>3, <1>4, <1>5, <1>8, <1>9 DEF Bin

\* p comes second of its size.
LEMMA BinInsertSecond ==
  ASSUME NEW s, NEW z, Bin(s, z), NEW p \in CHUNKS, ~Among(s, p),
         NEW i \in 1 .. Len(s), IsFirst(s, i), SIZES[s[i]] = SIZES[p],
         NEW d \in Seq(CHUNKS), IsInsert(s, d, i + 1, p)
  PROVE  Bin(d, z)
<1> DEFINE n == i + 1
<1>1. /\ Len(s) \in Nat /\ \A j \in 1 .. Len(s) : s[j] \in CHUNKS /\ SIZES[s[j]] \in Nat
      /\ s \in Seq(CHUNKS) /\ z \in Seq(CHUNKS) /\ Distinct(s) /\ SIZES[p] \in Nat
      /\ n \in 1 .. Len(s) + 1
  BY BinNumbers, SizeNumbers DEF Bin
<1>2. Inserted(s, d, n, p) /\ Distinct(d)
  BY <1>1, InsertPositions, InsertMembers
<1>3. ASSUME NEW j \in 1 .. Len(s)
      PROVE  /\ j < n => SIZES[s[j]] >= SIZES[p]
             /\ n <= j => SIZES[p] >= SIZES[s[j]]
             /\ n <= j /\ IsFirst(s, j) => SIZES[p] > SIZES[s[j]]
  <2>1. j < n => j < i \/ j = i
    BY <1>1
  <2>2. n <= j => i < j
    BY <1>1
  <2> QED
    BY <1>1, <2>1, <2>2 DEF Bin, IsFirst
<1>4. n \in 1 .. Len(d) /\ Up(i, n) = i /\ i \in 1 .. Len(d) /\ d[i] = s[i] /\ d[n] = p /\ i < n
  <2>1. i < n
    OBVIOUS
  <2>2. Up(i, n) = i
    BY <2>1 DEF Up
  <2> QED
    BY <1>2, <2>1, <2>2 DEF Inserted
<1> HIDE DEF n
<1>5. ASSUME NEW a \in 1 .. Len(d), NEW b \in 1 .. Len(d), a < b
      PROVE  SIZES[d[a]] >= SIZES[d[b]]
  <2>1. CASE a # n /\ b # n
    <3>1. PICK a0 \in 1 .. Len(s), b0 \in 1 .. Len(s) : a = Up(a0, n) /\ b = Up(b0, n)
      BY <1>2, <2>1 DEF Inserted
    <3>2. a0 < b0 /\ d[a] = s[a0] /\ d[b] = s[b0]
      BY <1>2, <1>5, <3>1 DEF Inserted
    <3> QED
      BY <3>2 DEF Bin
  <2>2. CASE a = n
    <3>1. PICK b0 \in 1 .. Len(s) : b = Up(b0, n)
      BY <1>2, <1>5, <2>2 DEF Inserted
    <3>2. n <= b0 /\ d[a] = p /\ d[b] = s[b0]
      BY <1>2, <1>5, <2>2, <3>1 DEF Inserted
    <3> QED
      BY <1>3, <3>2
  <2>3. CASE b = n
    <3>1. PICK a0 \in 1 .. Len(s) : a = Up(a0, n)
      BY <1>2, <1>5, <2>3 DEF Inserted
    <3>2. a0 < n /\ d[b] = p /\ d[a] = s[a0]
      BY <1>2, <1>5, <2>3, <3>1 DEF Inserted
    <3> QED
      BY <1>3, <3>2
  <2> QED
    BY <2>1, <2>2, <2>3
<1>6. ASSUME NEW a0 \in 1 .. Len(s)
      PROVE  IsFirst(d, Up(a0, n)) <=> IsFirst(s, a0)
  <2>1. Up(a0, n) \in 1 .. Len(d) /\ d[Up(a0, n)] = s[a0]
    BY <1>2 DEF Inserted
  <2>2. ASSUME IsFirst(s, a0), NEW j \in 1 .. Len(d), j < Up(a0, n)
        PROVE  SIZES[d[j]] > SIZES[s[a0]]
    <3>1. CASE j = n
      <4>1. n <= a0
        BY <1>2, <2>2, <3>1 DEF Inserted
      <4> QED
        BY <1>3, <1>4, <2>2, <3>1, <4>1
    <3>2. CASE j # n
      <4>1. PICK j0 \in 1 .. Len(s) : j = Up(j0, n)
        BY <1>2, <3>2 DEF Inserted
      <4>2. j0 < a0 /\ d[j] = s[j0]
        BY <1>2, <2>2, <4>1 DEF Inserted
      <4> QED
        BY <2>2, <4>2 DEF IsFirst
    <3> QED
      BY <3>1, <3>2
  <2>3. ASSUME IsFirst(d, Up(a0, n)), NEW j \in 1 .. Len(s), j < a0
        PROVE  SIZES[s[j]] > SIZES[s[a0]]
    <3>1. Up(j, n) < Up(a0, n) /\ Up(j, n) \in 1 .. Len(d) /\ d[Up(j, n)] = s[j]
      BY <1>2, <2>3 DEF Inserted
    <3> QED
      BY <2>1, <2>3, <3>1 DEF IsFirst
  <2> QED
    BY <2>1, <2>2, <2>3 DEF IsFirst
<1>7. ASSUME NEW a \in 1 .. Len(z)
      PROVE  \E x \in 1 .. Len(d) : d[x] = z[a] /\ IsFirst(d, x)
  <2>1. PICK x0 \in 1 .. Len(s) : s[x0] = z[a] /\ IsFirst(s, x0)
    BY DEF Bin
  <2>2. Up(x0, n) \in 1 .. Len(d) /\ d[Up(x0, n)] = s[x0]
    BY <1>2 DEF Inserted
  <2> QED
    BY <1>6, <2>1, <2>2
<1>8. ASSUME NEW x \in 1 .. Len(d), IsFirst(d, x)
      PROVE  Among(z, d[x])
  <2>1. x # n
    <3>1. SIZES[d[i]] = SIZES[d[n]] /\ SIZES[d[i]] \in Nat
      BY <1>1, <1>4
    <3> QED
      BY <1>4, <1>8, <3>1 DEF IsFirst
  <2>2. PICK x0 \in 1 .. Len(s) : x = Up(x0, n) /\ d[x] = s[x0]
    BY <1>2, <2>1 DEF Inserted
  <2> QED
    BY <1>6, <1>8, <2>2 DEF Bin
<1> QED
  BY <1>1, <1>2, <1>5, <1>7, <1>8 DEF Bin

\* What a removal leaves is in the same order.
LEMMA StillFalls ==
  ASSUME NEW s, NEW z, Bin(s, z), NEW i \in 1 .. Len(s),
         NEW d \in Seq(CHUNKS), IsRemove(s, d, i)
  PROVE  /\ Inserted(d, s, i, s[i]) /\ Distinct(d)
         /\ \A a, b \in 1 .. Len(d) : a < b => SIZES[d[a]] >= SIZES[d[b]]
         /\ \A a0 \in 1 .. Len(d) : IsFirst(s, Up(a0, i)) => IsFirst(d, a0)
<1>1. s \in Seq(CHUNKS) /\ Distinct(s)
  BY DEF Bin
<1>2. Inserted(d, s, i, s[i]) /\ Distinct(d)
  BY <1>1, RemovePositions, RemoveMembers
<1>3. ASSUME NEW a \in 1 .. Len(d), NEW b \in 1 .. Len(d), a < b
      PROVE  SIZES[d[a]] >= SIZES[d[b]]
  <2>1. /\ Up(a, i) \in 1 .. Len(s) /\ s[Up(a, i)] = d[a]
        /\ Up(b, i) \in 1 .. Len(s) /\ s[Up(b, i)] = d[b]
        /\ Up(a, i) < Up(b, i)
    BY <1>2, <1>3 DEF Inserted
  <2> QED
    BY <2>1 DEF Bin
<1>4. ASSUME NEW a0 \in 1 .. Len(d), IsFirst(s, Up(a0, i)), NEW j \in 1 .. Len(d), j < a0
      PROVE  SIZES[d[j]] > SIZES[d[a0]]
  <2>1. /\ Up(a0, i) \in 1 .. Len(s) /\ s[Up(a0, i)] = d[a0]
        /\ Up(j, i) \in 1 .. Len(s) /\ s[Up(j, i)] = d[j]
        /\ Up(j, i) < Up(a0, i)
    BY <1>2, <1>4 DEF Inserted
  <2> QED
    BY <1>4, <2>1 DEF IsFirst
<1> QED
  BY <1>2, <1>3, <1>4 DEF IsFirst

\* What is first without s[i] is first with it, unless s[i] is of its size
\* and before it.
LEMMA StillFirst ==
  ASSUME NEW s, NEW z, Bin(s, z), NEW i \in 1 .. Len(s),
         NEW d \in Seq(CHUNKS), IsRemove(s, d, i),
         NEW a0 \in 1 .. Len(d), IsFirst(d, a0),
         i < Up(a0, i) => SIZES[s[i]] > SIZES[d[a0]]
  PROVE  IsFirst(s, Up(a0, i))
<1>1. Inserted(d, s, i, s[i])
  BY StillFalls
<1>2. Up(a0, i) \in 1 .. Len(s) /\ s[Up(a0, i)] = d[a0]
  BY <1>1 DEF Inserted
<1>3. ASSUME NEW j \in 1 .. Len(s), j < Up(a0, i)
      PROVE  SIZES[s[j]] > SIZES[d[a0]]
  <2>1. CASE j # i
    <3>1. PICK j0 \in 1 .. Len(d) : j = Up(j0, i) /\ s[j] = d[j0]
      BY <1>1, <2>1 DEF Inserted
    <3>2. j0 < a0
      BY <1>1, <1>3, <3>1 DEF Inserted
    <3> QED
      BY <3>1, <3>2 DEF IsFirst
  <2>2. CASE j = i
    BY <1>3, <2>2
  <2> QED
    BY <2>1, <2>2
<1> QED
  BY <1>2, <1>3 DEF IsFirst

LEMMA BinRemoveLater ==
  ASSUME NEW s, NEW z, Bin(s, z), NEW i \in 1 .. Len(s), ~IsFirst(s, i),
         NEW d \in Seq(CHUNKS), IsRemove(s, d, i)
  PROVE  Bin(d, z)
<1>1. /\ Len(s) \in Nat /\ \A j \in 1 .. Len(s) : s[j] \in CHUNKS /\ SIZES[s[j]] \in Nat
      /\ z \in Seq(CHUNKS) /\ Distinct(s)
  BY BinNumbers DEF Bin
<1>2. /\ Inserted(d, s, i, s[i]) /\ Distinct(d)
      /\ \A a, b \in 1 .. Len(d) : a < b => SIZES[d[a]] >= SIZES[d[b]]
      /\ \A a0 \in 1 .. Len(d) : IsFirst(s, Up(a0, i)) => IsFirst(d, a0)
  BY StillFalls
<1>3. PICK h \in 1 .. Len(s) : h < i /\ SIZES[s[h]] = SIZES[s[i]]
  <2>1. PICK h \in 1 .. Len(s) : h < i /\ ~(SIZES[s[h]] > SIZES[s[i]])
    BY DEF IsFirst
  <2>2. SIZES[s[h]] >= SIZES[s[i]]
    BY <2>1 DEF Bin
  <2> QED
    BY <1>1, <2>1, <2>2
<1>4. ASSUME NEW a0 \in 1 .. Len(d), IsFirst(d, a0)
      PROVE  IsFirst(s, Up(a0, i))
  <2>1. PICK h0 \in 1 .. Len(d) : h = Up(h0, i) /\ s[h] = d[h0]
    BY <1>1, <1>2, <1>3 DEF Inserted
  <2>2. i < Up(a0, i) => h0 < a0
    <3>1. Up(a0, i) \in 1 .. Len(s)
      BY <1>2 DEF Inserted
    <3>2. i < Up(a0, i) => h < Up(a0, i)
      BY <1>1, <1>3, <3>1
    <3> QED
      BY <1>2, <2>1, <3>2 DEF Inserted
  <2>3. i < Up(a0, i) => SIZES[s[i]] > SIZES[d[a0]]
    BY <1>3, <1>4, <2>1, <2>2 DEF IsFirst
  <2> QED
    BY <1>4, <2>3, StillFirst
<1>5. ASSUME NEW a \in 1 .. Len(z)
      PROVE  \E x \in 1 .. Len(d) : d[x] = z[a] /\ IsFirst(d, x)
  <2>1. PICK x0 \in 1 .. Len(s) : s[x0] = z[a] /\ IsFirst(s, x0)
    BY DEF Bin
  <2>2. PICK x \in 1 .. Len(d) : x0 = Up(x, i) /\ s[x0] = d[x]
    BY <1>2, <2>1 DEF Inserted
  <2> QED
    BY <1>2, <2>1, <2>2
<1>6. ASSUME NEW x \in 1 .. Len(d), IsFirst(d, x)
      PROVE  Among(z, d[x])
  <2>1. Up(x, i) \in 1 .. Len(s) /\ s[Up(x, i)] = d[x]
    BY <1>2 DEF Inserted
  <2> QED
    BY <1>4, <1>6, <2>1 DEF Bin
<1> QED
  BY <1>1, <1>2, <1>5, <1>6 DEF Bin

\* A first that is the only one of its size.
LEMMA BinRemoveOnly ==
  ASSUME NEW s, NEW z, Bin(s, z), NEW i \in 1 .. Len(s), IsFirst(s, i),
         i < Len(s) => SIZES[s[i + 1]] # SIZES[s[i]],
         NEW k \in 1 .. Len(z), z[k] = s[i],
         NEW d \in Seq(CHUNKS), IsRemove(s, d, i),
         NEW y \in Seq(CHUNKS), IsRemove(z, y, k)
  PROVE  Bin(d, y)
<1>1. /\ Len(s) \in Nat /\ \A j \in 1 .. Len(s) : s[j] \in CHUNKS /\ SIZES[s[j]] \in Nat
      /\ Len(z) \in Nat /\ \A j \in 1 .. Len(z) : z[j] \in CHUNKS /\ SIZES[z[j]] \in Nat
      /\ z \in Seq(CHUNKS) /\ Distinct(s) /\ Distinct(z)
  BY BinNumbers DEF Bin
<1>2. /\ Inserted(d, s, i, s[i]) /\ Distinct(d)
      /\ \A a, b \in 1 .. Len(d) : a < b => SIZES[d[a]] >= SIZES[d[b]]
      /\ \A a0 \in 1 .. Len(d) : IsFirst(s, Up(a0, i)) => IsFirst(d, a0)
  BY StillFalls
<1>3. Inserted(y, z, k, z[k])
  BY <1>1, RemovePositions
<1>4. ASSUME NEW a \in 1 .. Len(y), NEW b \in 1 .. Len(y), a < b
      PROVE  SIZES[y[a]] > SIZES[y[b]]
  <2>1. /\ Up(a, k) \in 1 .. Len(z) /\ z[Up(a, k)] = y[a]
        /\ Up(b, k) \in 1 .. Len(z) /\ z[Up(b, k)] = y[b]
        /\ Up(a, k) < Up(b, k)
    BY <1>3, <1>4 DEF Inserted
  <2> QED
    BY <2>1 DEF Bin
<1>5. ASSUME NEW j \in 1 .. Len(s), i < j
      PROVE  SIZES[s[j]] < SIZES[s[i]]
  <2>1. i + 1 \in 1 .. Len(s) /\ i < Len(s) /\ i < i + 1 /\ (j = i + 1 \/ i + 1 < j)
    BY <1>1, <1>5
  <2>2. SIZES[s[i + 1]] < SIZES[s[i]]
    <3>1. SIZES[s[i]] >= SIZES[s[i + 1]]
      BY <2>1 DEF Bin
    <3> QED
      BY <1>1, <2>1, <3>1
  <2>3. i + 1 < j => SIZES[s[i + 1]] >= SIZES[s[j]]
    BY <2>1 DEF Bin
  <2> HIDE DEF Bin
  <2> QED
    BY <1>1, <2>1, <2>2, <2>3
<1>6. ASSUME NEW a0 \in 1 .. Len(d), IsFirst(d, a0)
      PROVE  IsFirst(s, Up(a0, i))
  <2>1. Up(a0, i) \in 1 .. Len(s) /\ s[Up(a0, i)] = d[a0]
    BY <1>2 DEF Inserted
  <2>2. i < Up(a0, i) => SIZES[s[i]] > SIZES[d[a0]]
    BY <1>1, <1>5, <2>1
  <2> QED
    BY <1>6, <2>2, StillFirst
<1>7. ASSUME NEW a \in 1 .. Len(y)
      PROVE  \E x \in 1 .. Len(d) : d[x] = y[a] /\ IsFirst(d, x)
  <2>1. Up(a, k) \in 1 .. Len(z) /\ z[Up(a, k)] = y[a] /\ Up(a, k) # k
    BY <1>3 DEF Inserted
  <2>2. PICK x0 \in 1 .. Len(s) : s[x0] = y[a] /\ IsFirst(s, x0)
    BY <2>1 DEF Bin
  <2>3. x0 # i
    BY <1>1, <2>1, <2>2 DEF Distinct
  <2>4. PICK x \in 1 .. Len(d) : x0 = Up(x, i) /\ s[x0] = d[x]
    BY <1>2, <2>3 DEF Inserted
  <2> QED
    BY <1>2, <2>2, <2>4
<1>8. ASSUME NEW x \in 1 .. Len(d), IsFirst(d, x)
      PROVE  Among(y, d[x])
  <2>1. Up(x, i) \in 1 .. Len(s) /\ s[Up(x, i)] = d[x] /\ Up(x, i) # i
    BY <1>2 DEF Inserted
  <2>2. PICK b \in 1 .. Len(z) : z[b] = d[x]
    <3>1. IsFirst(s, Up(x, i))
      BY <1>6, <1>8
    <3>2. Among(z, s[Up(x, i)])
      BY <2>1, <3>1 DEF Bin
    <3> QED
      BY <2>1, <3>2 DEF Among
  <2>3. b # k
    BY <1>1, <2>1, <2>2 DEF Distinct
  <2>4. PICK a \in 1 .. Len(y) : b = Up(a, k) /\ z[b] = y[a]
    BY <1>3, <2>3 DEF Inserted
  <2> QED
    BY <2>2, <2>4 DEF Among
<1> QED
  BY <1>2, <1>4, <1>7, <1>8 DEF Bin

\* A first with another of its size behind it, its heir.
LEMMA BinRemoveFirst ==
  ASSUME NEW s, NEW z, Bin(s, z), NEW i \in 1 .. Len(s), IsFirst(s, i), i < Len(s),
         SIZES[s[i + 1]] = SIZES[s[i]],
         NEW k \in 1 .. Len(z), z[k] = s[i],
         NEW d \in Seq(CHUNKS), IsRemove(s, d, i),
         NEW y \in Seq(CHUNKS), IsReplace(z, y, k, s[i + 1])
  PROVE  Bin(d, y)
<1> DEFINE h == s[i + 1]
<1>1. /\ Len(s) \in Nat /\ \A j \in 1 .. Len(s) : s[j] \in CHUNKS /\ SIZES[s[j]] \in Nat
      /\ Len(z) \in Nat /\ \A j \in 1 .. Len(z) : z[j] \in CHUNKS /\ SIZES[z[j]] \in Nat
      /\ z \in Seq(CHUNKS) /\ Distinct(s) /\ Distinct(z)
  BY BinNumbers DEF Bin
<1>2. /\ Inserted(d, s, i, s[i]) /\ Distinct(d)
      /\ \A a, b \in 1 .. Len(d) : a < b => SIZES[d[a]] >= SIZES[d[b]]
      /\ \A a0 \in 1 .. Len(d) : IsFirst(s, Up(a0, i)) => IsFirst(d, a0)
  BY StillFalls
<1>3. Len(y) = Len(z) /\ \A a \in 1 .. Len(y) : y[a] = IF a = k THEN h ELSE z[a]
  BY DEF IsReplace
<1>4. ASSUME NEW a \in 1 .. Len(y), NEW b \in 1 .. Len(y), a < b
      PROVE  SIZES[y[a]] > SIZES[y[b]]
  <2>1. \A x \in 1 .. Len(y) : SIZES[y[x]] = SIZES[z[x]]
    BY <1>3
  <2> QED
    BY <1>3, <1>4, <2>1 DEF Bin
<1>5. i \in 1 .. Len(d) /\ Up(i, i) = i + 1 /\ d[i] = h /\ SIZES[h] = SIZES[s[i]]
  <2>1. i \in 1 .. Len(d)
    BY <1>1 DEF IsRemove
  <2>2. Up(i, i) = i + 1
    BY <1>1 DEF Up
  <2> QED
    BY <1>2, <2>1, <2>2 DEF Inserted
<1>6. ASSUME NEW a0 \in 1 .. Len(d), IsFirst(d, a0), a0 # i
      PROVE  IsFirst(s, Up(a0, i))
  <2>1. i < Up(a0, i) => i < a0
    <3>1. i < Up(a0, i) => i <= a0
      BY <1>2 DEF Inserted
    <3> QED
      BY <1>6, <3>1
  <2>2. i < Up(a0, i) => SIZES[s[i]] > SIZES[d[a0]]
    BY <1>5, <1>6, <2>1 DEF IsFirst
  <2> QED
    BY <1>6, <2>2, StillFirst
<1>7. IsFirst(d, i)
  <2> SUFFICES ASSUME NEW j \in 1 .. Len(d), j < i PROVE SIZES[d[j]] > SIZES[d[i]]
    BY DEF IsFirst
  <2>1. Up(j, i) < i /\ Up(j, i) \in 1 .. Len(s) /\ s[Up(j, i)] = d[j]
    BY <1>2 DEF Inserted
  <2> QED
    BY <1>5, <2>1 DEF IsFirst
<1>8. ASSUME NEW a \in 1 .. Len(y)
      PROVE  \E x \in 1 .. Len(d) : d[x] = y[a] /\ IsFirst(d, x)
  <2>1. CASE a = k
    BY <1>3, <1>5, <1>7, <2>1
  <2>2. CASE a # k
    <3>1. a \in 1 .. Len(z) /\ y[a] = z[a]
      BY <1>3, <2>2
    <3>2. PICK x0 \in 1 .. Len(s) : s[x0] = y[a] /\ IsFirst(s, x0)
      BY <3>1 DEF Bin
    <3>3. x0 # i
      BY <1>1, <2>2, <3>1, <3>2 DEF Distinct
    <3>4. PICK x \in 1 .. Len(d) : x0 = Up(x, i) /\ s[x0] = d[x]
      BY <1>2, <3>3 DEF Inserted
    <3> QED
      BY <1>2, <3>2, <3>4
  <2> QED
    BY <2>1, <2>2
<1>9. ASSUME NEW x \in 1 .. Len(d), IsFirst(d, x)
      PROVE  Among(y, d[x])
  <2>1. CASE x = i
    BY <1>3, <1>5, <2>1 DEF Among
  <2>2. CASE x # i
    <3>1. Up(x, i) \in 1 .. Len(s) /\ s[Up(x, i)] = d[x] /\ Up(x, i) # i
      BY <1>2 DEF Inserted
    <3>2. PICK b \in 1 .. Len(z) : z[b] = d[x]
      <4>1. IsFirst(s, Up(x, i))
        BY <1>6, <1>9, <2>2
      <4>2. Among(z, s[Up(x, i)])
        BY <3>1, <4>1 DEF Bin
      <4> QED
        BY <3>1, <4>2 DEF Among
    <3>3. b # k
      BY <1>1, <3>1, <3>2 DEF Distinct
    <3> QED
      BY <1>3, <3>2, <3>3 DEF Among
  <2> QED
    BY <2>1, <2>2
<1> QED
  BY <1>2, <1>4, <1>8, <1>9 DEF Bin

\* Distinct chunks are no more than there are chunks.
LEMMA BinLength ==
  ASSUME NEW s \in Seq(CHUNKS), Distinct(s)
  PROVE  Len(s) <= Cardinality(CHUNKS) /\ Cardinality(CHUNKS) \in Nat
<1> DEFINE I == 1 .. Len(s)
<1>1. IsFiniteSet(CHUNKS) /\ Cardinality(CHUNKS) \in Nat
  BY LargeBinAssumption, FS_CardinalityType
<1> DEFINE n == Len(s)
<1>0. n \in Nat /\ 1 \in Int /\ n \in Int
  OBVIOUS
<1>2. IsFiniteSet(1 .. n) /\ Cardinality(1 .. n) = n
  <2> HIDE DEF n
  <2>1. IsFiniteSet(1 .. n) /\ Cardinality(1 .. n) = IF 1 > n THEN 0 ELSE n - 1 + 1
    BY <1>0, FS_Interval
  <2> QED
    BY <1>0, <2>1
<1>3. s \in [I -> CHUNKS] /\ \A i, j \in I : s[i] = s[j] => i = j
  BY DEF Distinct
<1> HIDE DEF I
<1>4. ~(Cardinality(CHUNKS) < Cardinality(I))
  BY <1>1, <1>2, <1>3, FS_PigeonHole
<1> QED
  BY <1>0, <1>1, <1>2, <1>4 DEF I

LEMMA NodesNumber ==
  /\ Cardinality(Nodes) = Cardinality(CHUNKS) + 1
  /\ CHUNKS \subseteq Nodes /\ BIN \in Nodes /\ NULL \notin Nodes /\ BIN \notin CHUNKS
BY LargeBinAssumption, FS_AddElement DEF Nodes

-----------------------------------------------------------------------------
(* The ring through the bin, and the ring of sizes.                        *)

\* The ring begins with the bin itself.
Binned(s) == <<BIN>> \o s

LEMMA BinnedIs ==
  ASSUME NEW s \in Seq(CHUNKS)
  PROVE  /\ Binned(s) \in Seq(Nodes) /\ Binned(s) # << >>
         /\ Len(Binned(s)) = Len(s) + 1 /\ Binned(s)[1] = BIN
         /\ \A i \in 1 .. Len(s) : Binned(s)[i + 1] = s[i] /\ s[i] \in CHUNKS
         /\ \A i \in 2 .. Len(s) + 1 : Binned(s)[i] = s[i - 1] /\ s[i - 1] \in CHUNKS
         /\ Distinct(s) => Distinct(Binned(s))
         /\ \A q : Among(Binned(s), q) <=> (q = BIN \/ Among(s, q))
<1> DEFINE c == Binned(s)
<1>1. s \in Seq(Nodes) /\ <<BIN>> \in Seq(Nodes) /\ Len(s) \in Nat
  BY NodesNumber
<1>2. /\ c \in Seq(Nodes) /\ Len(c) = Len(s) + 1 /\ c[1] = BIN
      /\ \A i \in 1 .. Len(s) : c[i + 1] = s[i]
      /\ \A i \in 2 .. Len(s) + 1 : c[i] = s[i - 1]
  BY <1>1 DEF Binned
<1>3. \A i \in 1 .. Len(s) : s[i] \in CHUNKS
  OBVIOUS
<1>4. \A i \in 2 .. Len(s) + 1 : s[i - 1] \in CHUNKS
  BY <1>1, <1>3
<1> HIDE DEF c
<1>5. c # << >>
  BY <1>1, <1>2
<1>6. ASSUME Distinct(s), NEW i \in 1 .. Len(c), NEW j \in 1 .. Len(c), c[i] = c[j], i < j
      PROVE  FALSE
  <2>1. j \in 2 .. Len(s) + 1 /\ c[j] = s[j - 1] /\ s[j - 1] \in CHUNKS /\ j - 1 \in 1 .. Len(s)
    BY <1>1, <1>2, <1>4, <1>6
  <2>2. i # 1
    BY <1>2, <1>6, <2>1, NodesNumber
  <2>3. i \in 2 .. Len(s) + 1 /\ c[i] = s[i - 1] /\ i - 1 \in 1 .. Len(s) /\ i - 1 # j - 1
    BY <1>1, <1>2, <1>6, <2>2
  <2> QED
    BY <1>6, <2>1, <2>3 DEF Distinct
<1>7. Distinct(s) => Distinct(c)
  <2> SUFFICES ASSUME Distinct(s), NEW i \in 1 .. Len(c), NEW j \in 1 .. Len(c), c[i] = c[j], i # j
               PROVE  FALSE
    BY DEF Distinct
  <2>1. i < j \/ j < i
    BY <1>2
  <2> QED
    BY <1>6, <2>1
<1>8. ASSUME NEW q PROVE Among(c, q) <=> (q = BIN \/ Among(s, q))
  <2>1. ASSUME NEW i \in 1 .. Len(c), c[i] = q, q # BIN PROVE Among(s, q)
    <3>1. i - 1 \in 1 .. Len(s) /\ i \in 2 .. Len(s) + 1
      BY <1>1, <1>2, <2>1
    <3> QED
      BY <1>2, <2>1, <3>1 DEF Among
  <2>2. ASSUME NEW i \in 1 .. Len(s) PROVE Among(c, s[i])
    <3>1. i + 1 \in 1 .. Len(c)
      BY <1>1, <1>2
    <3> QED
      BY <1>2, <3>1 DEF Among
  <2>3. Among(c, BIN)
    <3>1. 1 \in 1 .. Len(c)
      BY <1>1, <1>2
    <3> QED
      BY <1>2, <3>1 DEF Among
  <2> QED
    BY <2>1, <2>2, <2>3 DEF Among
<1> QED
  BY <1>2, <1>3, <1>4, <1>5, <1>7, <1>8 DEF c

\* Links f and b make a ring of the bin and s, and are NULL elsewhere.
MainRing(f, b, s) ==
  /\ DOMAIN f = Nodes /\ DOMAIN b = Nodes
  /\ s \in Seq(CHUNKS) /\ Distinct(s)
  /\ Ring(f, b, Binned(s))
  /\ \A p \in CHUNKS : f[p] # NULL <=> Among(s, p)

\* The same for the ring of sizes, where the bin is not on the ring.
SizeRing(f, b, z) ==
  /\ DOMAIN f = Nodes /\ DOMAIN b = Nodes
  /\ z \in Seq(CHUNKS) /\ Distinct(z)
  /\ Ring(f, b, z)
  /\ f[BIN] = ALIAS
  /\ \A p \in CHUNKS : f[p] # NULL <=> Among(z, p)

\* The neighbours of a chunk.
LEMMA Neighbours ==
  ASSUME NEW f, NEW b, NEW s, MainRing(f, b, s)
  PROVE  /\ Len(s) \in Nat /\ \A i \in 1 .. Len(s) : s[i] \in CHUNKS
         /\ f[BIN] = (IF s = << >> THEN BIN ELSE s[1])
         /\ b[BIN] = (IF s = << >> THEN BIN ELSE s[Len(s)])
         /\ \A i \in 1 .. Len(s) : /\ f[s[i]] = IF i = Len(s) THEN BIN ELSE s[i + 1]
                                   /\ b[s[i]] = IF i = 1 THEN BIN ELSE s[i - 1]
<1> DEFINE c == Binned(s)
<1>1. s \in Seq(CHUNKS) /\ Len(s) \in Nat /\ (s = << >> <=> Len(s) = 0)
  BY DEF MainRing
<1>2. /\ Len(c) = Len(s) + 1 /\ c[1] = BIN
      /\ \A i \in 1 .. Len(s) : c[i + 1] = s[i] /\ s[i] \in CHUNKS
      /\ \A i \in 2 .. Len(s) + 1 : c[i] = s[i - 1]
  BY <1>1, BinnedIs
<1>3. /\ \A i \in 1 .. Len(c) : f[c[i]] = IF i = Len(c) THEN c[1] ELSE c[i + 1]
      /\ \A i \in 1 .. Len(c) : b[c[i]] = IF i = 1 THEN c[Len(c)] ELSE c[i - 1]
  BY DEF MainRing, Ring, After, Before
<1> HIDE DEF c
<1>4. f[BIN] = (IF s = << >> THEN BIN ELSE s[1]) /\ b[BIN] = (IF s = << >> THEN BIN ELSE s[Len(s)])
  <2>1. 1 \in 1 .. Len(c) /\ f[BIN] = (IF 1 = Len(c) THEN c[1] ELSE c[1 + 1]) /\ b[BIN] = c[Len(c)]
    BY <1>1, <1>2, <1>3
  <2>2. CASE s = << >>
    BY <1>1, <1>2, <2>1, <2>2
  <2>3. CASE s # << >>
    <3>1. 1 \in 1 .. Len(s) /\ Len(s) + 1 \in 2 .. Len(s) + 1 /\ (Len(s) + 1) - 1 = Len(s)
          /\ 1 # Len(c)
      BY <1>1, <1>2, <2>3
    <3>2. c[1 + 1] = s[1] /\ c[Len(c)] = s[Len(s)]
      BY <1>2, <3>1
    <3> QED
      BY <2>1, <2>3, <3>1, <3>2
  <2> QED
    BY <2>2, <2>3
<1>5. ASSUME NEW i \in 1 .. Len(s)
      PROVE  /\ f[s[i]] = IF i = Len(s) THEN BIN ELSE s[i + 1]
             /\ b[s[i]] = IF i = 1 THEN BIN ELSE s[i - 1]
  <2>1. i + 1 \in 1 .. Len(c) /\ (i + 1) - 1 = i /\ i + 1 # 1 /\ (i + 1 = Len(c) <=> i = Len(s))
    BY <1>1, <1>2
  <2>2. f[s[i]] = (IF i = Len(s) THEN c[1] ELSE c[(i + 1) + 1]) /\ b[s[i]] = c[i]
    BY <1>2, <1>3, <2>1
  <2>3. i # Len(s) => c[(i + 1) + 1] = s[i + 1]
    <3>1. i # Len(s) => i + 1 \in 1 .. Len(s)
      BY <1>1
    <3> QED
      BY <1>2, <3>1
  <2>4. i # 1 => i \in 2 .. Len(s) + 1
    BY <1>1
  <2> QED
    BY <1>2, <2>2, <2>3, <2>4
<1> QED
  BY <1>1, <1>2, <1>4, <1>5

LEMMA BinnedInsert ==
  ASSUME NEW s \in Seq(CHUNKS), NEW d \in Seq(CHUNKS), NEW i \in 1 .. Len(s) + 1, NEW p \in CHUNKS,
         IsInsert(s, d, i, p)
  PROVE  IsInsert(Binned(s), Binned(d), i + 1, p)
<1> DEFINE c == Binned(s)
           e == Binned(d)
<1>1. /\ Len(s) \in Nat /\ Len(d) = Len(s) + 1 /\ Len(c) = Len(s) + 1 /\ Len(e) = Len(d) + 1
      /\ c[1] = BIN /\ e[1] = BIN
      /\ \A x \in 2 .. Len(s) + 1 : c[x] = s[x - 1]
      /\ \A x \in 2 .. Len(d) + 1 : e[x] = d[x - 1]
  BY BinnedIs DEF IsInsert
<1>2. \A x \in 1 .. Len(d) : d[x] = IF x < i THEN s[x] ELSE IF x = i THEN p ELSE s[x - 1]
  BY DEF IsInsert
<1> HIDE DEF c, e
<1>3. ASSUME NEW x \in 1 .. Len(e)
      PROVE  e[x] = IF x < i + 1 THEN c[x] ELSE IF x = i + 1 THEN p ELSE c[x - 1]
  <2>1. CASE x = 1
    BY <1>1, <2>1
  <2>2. CASE x # 1
    <3>1. x \in 2 .. Len(d) + 1 /\ x - 1 \in 1 .. Len(d)
          /\ (x - 1 < i <=> x < i + 1) /\ (x - 1 = i <=> x = i + 1)
      BY <1>1, <2>2
    <3>2. e[x] = IF x < i + 1 THEN s[x - 1] ELSE IF x = i + 1 THEN p ELSE s[(x - 1) - 1]
      BY <1>1, <1>2, <3>1
    <3>3. x < i + 1 => x \in 2 .. Len(s) + 1
      BY <1>1, <3>1
    <3>4. x > i + 1 => x - 1 \in 2 .. Len(s) + 1
      BY <1>1, <3>1
    <3>5. x < i + 1 \/ x = i + 1 \/ x > i + 1
      BY <1>1
    <3> QED
      BY <1>1, <3>2, <3>3, <3>4, <3>5
  <2> QED
    BY <2>1, <2>2
<1> QED
  BY <1>1, <1>3 DEF IsInsert, c, e

LEMMA BinnedRemove ==
  ASSUME NEW s \in Seq(CHUNKS), NEW d \in Seq(CHUNKS), NEW i \in 1 .. Len(s), IsRemove(s, d, i)
  PROVE  IsRemove(Binned(s), Binned(d), i + 1)
<1> DEFINE c == Binned(s)
           e == Binned(d)
<1>1. /\ Len(s) \in Nat /\ Len(d) \in Nat /\ Len(d) = Len(s) - 1
      /\ Len(c) = Len(s) + 1 /\ Len(e) = Len(d) + 1
      /\ c[1] = BIN /\ e[1] = BIN
      /\ \A x \in 2 .. Len(s) + 1 : c[x] = s[x - 1]
      /\ \A x \in 2 .. Len(d) + 1 : e[x] = d[x - 1]
  BY BinnedIs DEF IsRemove
<1>2. \A x \in 1 .. Len(d) : d[x] = IF x < i THEN s[x] ELSE s[x + 1]
  BY DEF IsRemove
<1> HIDE DEF c, e
<1>3. ASSUME NEW x \in 1 .. Len(e)
      PROVE  e[x] = IF x < i + 1 THEN c[x] ELSE c[x + 1]
  <2>1. CASE x = 1
    BY <1>1, <2>1
  <2>2. CASE x # 1
    <3>1. x \in 2 .. Len(d) + 1 /\ x - 1 \in 1 .. Len(d) /\ (x - 1 < i <=> x < i + 1)
      BY <1>1, <2>2
    <3>2. e[x] = IF x < i + 1 THEN s[x - 1] ELSE s[(x - 1) + 1]
      BY <1>1, <1>2, <3>1
    <3>3. x \in 2 .. Len(s) + 1 /\ x + 1 \in 2 .. Len(s) + 1 /\ (x + 1) - 1 = (x - 1) + 1
      BY <1>1, <3>1
    <3> QED
      BY <1>1, <3>2, <3>3
  <2> QED
    BY <2>1, <2>2
<1> QED
  BY <1>1, <1>3 DEF IsRemove, c, e

\* p is linked in at position i.
LEMMA MainInsert ==
  ASSUME NEW f, NEW b, NEW s, MainRing(f, b, s), NEW p \in CHUNKS, ~Among(s, p),
         NEW i \in 1 .. Len(s) + 1,
         NEW prev, prev = (IF i = 1 THEN BIN ELSE s[i - 1]),
         NEW next, next = (IF i = Len(s) + 1 THEN BIN ELSE s[i])
  PROVE  /\ b[next] = prev /\ f[prev] = next
         /\ MainRing(LinkIn(f, p, next, prev), LinkIn(b, p, prev, next), InsertAt(s, i, p))
<1> DEFINE c == Binned(s)
           d == InsertAt(s, i, p)
           e == Binned(d)
           g == LinkIn(f, p, next, prev)
           h == LinkIn(b, p, prev, next)
           j == i + 1
<1>1. s \in Seq(CHUNKS) /\ Distinct(s) /\ DOMAIN f = Nodes /\ DOMAIN b = Nodes /\ Ring(f, b, c)
  BY DEF MainRing
<1>2. d \in Seq(CHUNKS) /\ IsInsert(s, d, i, p)
  BY <1>1, InsertAtIs
<1>3. Distinct(d) /\ \A q : Among(d, q) <=> (q = p \/ Among(s, q))
  BY <1>1, <1>2, InsertMembers
<1>4. IsInsert(c, e, j, p)
  BY <1>1, <1>2, BinnedInsert
<1>5. /\ c \in Seq(Nodes) /\ c # << >> /\ Distinct(c) /\ Len(c) = Len(s) + 1 /\ c[1] = BIN
      /\ \A x \in 1 .. Len(s) : c[x + 1] = s[x] /\ s[x] \in CHUNKS
      /\ \A q : Among(c, q) <=> (q = BIN \/ Among(s, q))
      /\ e \in Seq(Nodes)
  BY <1>1, <1>2, BinnedIs
<1>6. p \in Nodes /\ p # BIN /\ p # NULL /\ BIN # NULL /\ NULL \notin CHUNKS
  BY NodesNumber DEF Nodes
<1>7. ~Among(c, p)
  BY <1>5, <1>6
<1>8. Len(s) \in Nat
  BY <1>1
<1> HIDE DEF c, d, e
<1>9. j \in 1 .. Len(c) + 1
  BY <1>5, <1>8
<1>10. next = AtPosition(c, j)
  <2>1. (j = Len(c) + 1 <=> i = Len(s) + 1) /\ (i # Len(s) + 1 => i \in 1 .. Len(s))
    BY <1>5, <1>8
  <2> QED
    BY <1>5, <2>1 DEF AtPosition
<1>11. prev = BeforePosition(c, j)
  <2>1. j # 1 /\ j - 1 = i /\ (i # 1 => i - 1 \in 1 .. Len(s) /\ (i - 1) + 1 = i)
    BY <1>8
  <2>2. i # 1 => c[i] = s[i - 1]
    <3>1. i # 1 => c[(i - 1) + 1] = s[i - 1]
      BY <1>5, <2>1
    <3> QED
      BY <2>1, <3>1
  <2> QED
    BY <1>5, <2>1, <2>2 DEF BeforePosition
<1> HIDE DEF j
<1>12. prev = b[next] /\ next = f[prev] /\ Ring(g, h, e)
  <2>1. Nodes \subseteq DOMAIN f /\ Nodes \subseteq DOMAIN b
    BY <1>1
  <2> QED
    BY <1>1, <1>4, <1>5, <1>6, <1>7, <1>9, <1>10, <1>11, <2>1, RingInsert
<1>13. next # NULL /\ (next \in CHUNKS => Among(s, next)) /\ (prev \in CHUNKS => Among(s, prev))
       /\ next \in Nodes /\ prev \in Nodes
  <2>1. i # Len(s) + 1 => i \in 1 .. Len(s)
    BY <1>8
  <2>2. i # 1 => i - 1 \in 1 .. Len(s)
    BY <1>8
  <2>3. BIN \notin CHUNKS /\ CHUNKS \subseteq Nodes /\ BIN \in Nodes /\ NULL \notin Nodes
    BY NodesNumber
  <2> QED
    BY <1>5, <2>1, <2>2, <2>3 DEF Among
<1>14. DOMAIN g = Nodes /\ DOMAIN h = Nodes
  BY <1>1 DEF LinkIn
<1>15. ASSUME NEW q \in CHUNKS PROVE g[q] # NULL <=> Among(d, q)
  <2>1. f[q] # NULL <=> Among(s, q)
    BY DEF MainRing
  <2>2. q \in Nodes
    BY NodesNumber
  <2>3. g[q] = IF q = prev THEN p ELSE IF q = p THEN next ELSE f[q]
    BY <1>1, <1>6, <2>2 DEF LinkIn
  <2> HIDE DEF g
  <2> QED
    BY <1>3, <1>6, <1>13, <2>1, <2>3
<1> HIDE DEF g, h
<1>16. MainRing(g, h, d)
  BY <1>2, <1>3, <1>12, <1>14, <1>15 DEF MainRing, e
<1> QED
  BY <1>12, <1>16 DEF g, h, d

\* p is linked in as the first of its size.
LEMMA SizeInsert ==
  ASSUME NEW f, NEW b, NEW z, SizeRing(f, b, z), z # << >>, NEW p \in CHUNKS, ~Among(z, p),
         NEW k \in 1 .. Len(z) + 1,
         NEW next, next = AtPosition(z, k),
         NEW prev, prev = b[next]
  PROVE  /\ f[prev] = next
         /\ SizeRing(LinkIn(f, p, next, prev), LinkIn(b, p, prev, next), InsertAt(z, k, p))
<1> DEFINE d == InsertAt(z, k, p)
           g == LinkIn(f, p, next, prev)
           h == LinkIn(b, p, prev, next)
           before == BeforePosition(z, k)
<1>1. /\ z \in Seq(CHUNKS) /\ Distinct(z) /\ DOMAIN f = Nodes /\ DOMAIN b = Nodes
      /\ CHUNKS \subseteq DOMAIN f /\ CHUNKS \subseteq DOMAIN b /\ Ring(f, b, z)
  BY NodesNumber DEF SizeRing
<1>2. d \in Seq(CHUNKS) /\ IsInsert(z, d, k, p)
  BY <1>1, InsertAtIs
<1>3. Distinct(d) /\ \A q : Among(d, q) <=> (q = p \/ Among(z, q))
  BY <1>1, <1>2, InsertMembers
<1> HIDE DEF d
<1>4. /\ before = b[next] /\ next = f[before]
      /\ Ring(LinkIn(f, p, next, before), LinkIn(b, p, before, next), d)
  <2> HIDE DEF before
  <2>1. before = BeforePosition(z, k)
    BY DEF before
  <2> QED
    BY <1>1, <1>2, <2>1, RingInsert
<1>5. before = prev /\ Ring(g, h, d)
  <2> HIDE DEF before
  <2> QED
    BY <1>4
<1>6. next \in CHUNKS /\ before \in CHUNKS /\ Among(z, before)
  <2>1. Len(z) \in Nat /\ Len(z) # 0
    BY <1>1
  <2>2. /\ 1 \in 1 .. Len(z) /\ Len(z) \in 1 .. Len(z)
        /\ k # 1 => k - 1 \in 1 .. Len(z)
        /\ k # Len(z) + 1 => k \in 1 .. Len(z)
    BY <2>1
  <2>3. \A x \in 1 .. Len(z) : z[x] \in CHUNKS
    BY <1>1
  <2> QED
    BY <2>2, <2>3 DEF Among, AtPosition, BeforePosition
<1> HIDE DEF before
<1>7. BIN \notin CHUNKS /\ NULL \notin CHUNKS /\ CHUNKS \subseteq Nodes /\ BIN \in Nodes
  BY NodesNumber DEF Nodes
<1>8. DOMAIN g = Nodes /\ DOMAIN h = Nodes /\ g[BIN] = ALIAS
  <2>1. f[BIN] = ALIAS
    BY DEF SizeRing
  <2> QED
    BY <1>1, <1>5, <1>6, <1>7, <2>1 DEF LinkIn
<1>9. ASSUME NEW q \in CHUNKS PROVE g[q] # NULL <=> Among(d, q)
  <2>1. f[q] # NULL <=> Among(z, q)
    BY DEF SizeRing
  <2>2. q \in Nodes
    BY NodesNumber
  <2>3. g[q] = IF q = prev THEN p ELSE IF q = p THEN next ELSE f[q]
    BY <1>1, <2>2 DEF LinkIn
  <2> HIDE DEF g
  <2> QED
    BY <1>3, <1>5, <1>6, <1>7, <2>1, <2>3
<1> HIDE DEF g, h
<1>10. SizeRing(g, h, d)
  BY <1>2, <1>3, <1>5, <1>8, <1>9 DEF SizeRing
<1> QED
  BY <1>4, <1>5, <1>10 DEF g, h, d

\* The chunk at position i is unlinked.
LEMMA MainUnlink ==
  ASSUME NEW f, NEW b, NEW s, MainRing(f, b, s), NEW i \in 1 .. Len(s), NEW p, p = s[i]
  PROVE  /\ f[b[p]] = p /\ b[f[p]] = p
         /\ MainRing(LinkOut(f, p, f[p], b[p]), LinkOut(b, p, b[p], f[p]), RemoveAt(s, i))
<1> DEFINE c == Binned(s)
           d == RemoveAt(s, i)
           e == Binned(d)
           next == f[p]
           prev == b[p]
           g == LinkOut(f, p, next, prev)
           h == LinkOut(b, p, prev, next)
           j == i + 1
<1>1. s \in Seq(CHUNKS) /\ Distinct(s) /\ DOMAIN f = Nodes /\ DOMAIN b = Nodes /\ Ring(f, b, c)
  BY DEF MainRing
<1>2. d \in Seq(CHUNKS) /\ IsRemove(s, d, i)
  BY <1>1, RemoveAtIs
<1>3. Distinct(d) /\ \A q : Among(d, q) <=> (q # p /\ Among(s, q))
  BY <1>1, <1>2, RemoveMembers
<1>4. IsRemove(c, e, j)
  BY <1>1, <1>2, BinnedRemove
<1>5. /\ c \in Seq(Nodes) /\ Distinct(c) /\ Len(c) = Len(s) + 1 /\ c[j] = p /\ p \in CHUNKS
      /\ \A q : Among(c, q) <=> (q = BIN \/ Among(s, q))
      /\ e \in Seq(Nodes)
  BY <1>1, <1>2, BinnedIs
<1>6. p \in Nodes /\ p # BIN /\ p # NULL /\ BIN # NULL /\ NULL \notin CHUNKS /\ BIN \notin CHUNKS
  BY <1>5, NodesNumber DEF Nodes
<1>7. Len(s) \in Nat
  BY <1>1
<1> HIDE DEF c, d, e
<1>8. j \in 1 .. Len(c)
  BY <1>5, <1>7
<1> HIDE DEF j
<1>9. /\ f[prev] = p /\ b[next] = p /\ Among(c, next) /\ Among(c, prev)
      /\ Ring(g, h, e)
  <2>1. next = f[c[j]] /\ prev = b[c[j]] /\ Nodes \subseteq DOMAIN f /\ Nodes \subseteq DOMAIN b
    BY <1>1, <1>5
  <2> HIDE DEF next, prev
  <2>2. /\ f[prev] = c[j] /\ b[next] = c[j] /\ Among(c, next) /\ Among(c, prev)
        /\ Ring(LinkOut(f, c[j], next, prev), LinkOut(b, c[j], prev, next), e)
    <3>1. c \in Seq(Nodes) /\ e \in Seq(Nodes) /\ Distinct(c)
      BY <1>5
    <3> QED
      BY <1>1, <1>4, <1>8, <2>1, <3>1, RingRemove
  <2> QED
    BY <1>5, <2>2
<1>10. next # NULL /\ (prev \in CHUNKS => Among(s, prev))
  <2>1. \A x \in 1 .. Len(s) : s[x] \in CHUNKS
    BY <1>1
  <2> QED
    BY <1>5, <1>6, <1>9, <2>1 DEF Among
<1>11. DOMAIN g = Nodes /\ DOMAIN h = Nodes
  BY <1>1 DEF LinkOut
<1>12. ASSUME NEW q \in CHUNKS PROVE g[q] # NULL <=> Among(d, q)
  <2>1. f[q] # NULL <=> Among(s, q)
    BY DEF MainRing
  <2>2. q \in Nodes
    BY NodesNumber
  <2> HIDE DEF next, prev
  <2>3. g[q] = IF q = p THEN NULL ELSE IF q = prev THEN next ELSE f[q]
    BY <1>1, <1>6, <2>2 DEF LinkOut
  <2> HIDE DEF g
  <2> QED
    BY <1>3, <1>10, <2>1, <2>3
<1> HIDE DEF g, h
<1>13. MainRing(g, h, d)
  BY <1>2, <1>3, <1>9, <1>11, <1>12 DEF MainRing, e
<1> QED
  BY <1>9, <1>13 DEF g, h, d

\* The k-th of the firsts is unlinked.
LEMMA SizeUnlink ==
  ASSUME NEW f, NEW b, NEW z, SizeRing(f, b, z), NEW k \in 1 .. Len(z), NEW p, p = z[k]
  PROVE  /\ f[b[p]] = p /\ b[f[p]] = p
         /\ SizeRing(LinkOut(f, p, f[p], b[p]), LinkOut(b, p, b[p], f[p]), RemoveAt(z, k))
<1> DEFINE d == RemoveAt(z, k)
           next == f[p]
           prev == b[p]
           g == LinkOut(f, p, next, prev)
           h == LinkOut(b, p, prev, next)
<1>1. /\ z \in Seq(CHUNKS) /\ Distinct(z) /\ DOMAIN f = Nodes /\ DOMAIN b = Nodes
      /\ CHUNKS \subseteq DOMAIN f /\ CHUNKS \subseteq DOMAIN b /\ Ring(f, b, z)
  BY NodesNumber DEF SizeRing
<1>2. d \in Seq(CHUNKS) /\ IsRemove(z, d, k)
  BY <1>1, RemoveAtIs
<1>3. Distinct(d) /\ \A q : Among(d, q) <=> (q # p /\ Among(z, q))
  BY <1>1, <1>2, RemoveMembers
<1> HIDE DEF d
<1>4. /\ f[prev] = p /\ b[next] = p /\ Among(z, next) /\ Among(z, prev)
      /\ Ring(g, h, d)
  <2>1. next = f[z[k]] /\ prev = b[z[k]]
    OBVIOUS
  <2> HIDE DEF next, prev
  <2>2. /\ f[prev] = z[k] /\ b[next] = z[k] /\ Among(z, next) /\ Among(z, prev)
        /\ Ring(LinkOut(f, z[k], next, prev), LinkOut(b, z[k], prev, next), d)
    BY <1>1, <1>2, <2>1, RingRemove
  <2> QED
    BY <2>2
<1>5. next \in CHUNKS /\ prev \in CHUNKS /\ p \in CHUNKS
  <2>1. \A x \in 1 .. Len(z) : z[x] \in CHUNKS
    BY <1>1
  <2> QED
    BY <1>4, <2>1 DEF Among
<1>6. BIN \notin CHUNKS /\ NULL \notin CHUNKS /\ CHUNKS \subseteq Nodes /\ BIN \in Nodes
  BY NodesNumber DEF Nodes
<1> HIDE DEF next, prev
<1>7. DOMAIN g = Nodes /\ DOMAIN h = Nodes /\ g[BIN] = ALIAS
  <2>1. f[BIN] = ALIAS
    BY DEF SizeRing
  <2> QED
    BY <1>1, <1>5, <1>6, <2>1 DEF LinkOut
<1>8. ASSUME NEW q \in CHUNKS PROVE g[q] # NULL <=> Among(d, q)
  <2>1. f[q] # NULL <=> Among(z, q)
    BY DEF SizeRing
  <2>2. q \in Nodes
    BY NodesNumber
  <2>3. g[q] = IF q = p THEN NULL ELSE IF q = prev THEN next ELSE f[q]
    BY <1>1, <2>2 DEF LinkOut
  <2> HIDE DEF g
  <2> QED
    BY <1>3, <1>4, <1>5, <1>6, <2>1, <2>3
<1> HIDE DEF g, h
<1>9. SizeRing(g, h, d)
  BY <1>2, <1>3, <1>4, <1>7, <1>8 DEF SizeRing
<1> QED
  BY <1>4, <1>9 DEF g, h, d, next, prev

\* The k-th of the firsts leaves its place to q.
LEMMA SizeInherit ==
  ASSUME NEW f, NEW b, NEW z, SizeRing(f, b, z), NEW k \in 1 .. Len(z), NEW p, p = z[k],
         NEW q \in CHUNKS, ~Among(z, q)
  PROVE  /\ f[b[p]] = p /\ b[f[p]] = p
         /\ [z EXCEPT ![k] = q] \in Seq(CHUNKS) /\ IsReplace(z, [z EXCEPT ![k] = q], k, q)
         /\ f[p] # p => SizeRing(LinkOver(f, p, q, f[p], b[p]), LinkOver(b, p, q, b[p], f[p]),
                                 [z EXCEPT ![k] = q])
         /\ f[p] = p => SizeRing([f EXCEPT ![q] = q, ![p] = NULL], [b EXCEPT ![q] = q, ![p] = NULL],
                                 [z EXCEPT ![k] = q])
<1> DEFINE d == [z EXCEPT ![k] = q]
           next == f[p]
           prev == b[p]
<1>1. /\ z \in Seq(CHUNKS) /\ Distinct(z) /\ DOMAIN f = Nodes /\ DOMAIN b = Nodes
      /\ CHUNKS \subseteq DOMAIN f /\ CHUNKS \subseteq DOMAIN b /\ Ring(f, b, z)
  BY NodesNumber DEF SizeRing
<1>2. d \in Seq(CHUNKS) /\ IsReplace(z, d, k, q)
  BY <1>1 DEF IsReplace
<1>3. Distinct(d) /\ \A r : Among(d, r) <=> (r = q \/ (r # p /\ Among(z, r)))
  BY <1>1, <1>2, ReplaceMembers
<1>4. f[prev] = p /\ b[next] = p /\ Among(z, next) /\ Among(z, prev)
  BY SizeUnlink, <1>1, RemoveAtIs, RingRemove
<1>5. BIN \notin CHUNKS /\ NULL \notin CHUNKS /\ CHUNKS \subseteq Nodes /\ BIN \in Nodes
  BY NodesNumber DEF Nodes
<1>6. next \in CHUNKS /\ prev \in CHUNKS /\ p \in CHUNKS /\ p # q /\ f[BIN] = ALIAS
      /\ \A r \in CHUNKS : f[r] # NULL <=> Among(z, r)
  <2>1. \A x \in 1 .. Len(z) : z[x] \in CHUNKS
    BY <1>1
  <2>2. f[BIN] = ALIAS /\ \A r \in CHUNKS : f[r] # NULL <=> Among(z, r)
    BY DEF SizeRing
  <2> QED
    BY <1>4, <2>1, <2>2 DEF Among
<1>7. Len(z) \in Nat /\ Len(z) >= 1 /\ (Len(z) >= 2 <=> next # p)
  <2>1. Len(z) \in Nat /\ Len(z) >= 1
    BY <1>1
  <2>2. next = IF k = Len(z) THEN z[1] ELSE z[k + 1]
    BY <1>1 DEF Ring, After
  <2>3. CASE k = Len(z)
    <3>1. 1 \in 1 .. Len(z) /\ (next = p <=> 1 = k)
      BY <1>1, <2>1, <2>2, <2>3 DEF Distinct
    <3> QED
      BY <2>1, <2>3, <3>1
  <2>4. CASE k # Len(z)
    <3>1. k + 1 \in 1 .. Len(z) /\ k + 1 # k
      BY <2>1, <2>4
    <3>2. next # p
      BY <1>1, <2>2, <2>4, <3>1 DEF Distinct
    <3> QED
      BY <2>1, <2>4, <3>2
  <2> QED
    BY <2>3, <2>4
<1>8. ASSUME next # p
      PROVE  SizeRing(LinkOver(f, p, q, next, prev), LinkOver(b, p, q, prev, next), d)
  <2> DEFINE g == LinkOver(f, p, q, next, prev)
             h == LinkOver(b, p, q, prev, next)
  <2>1. Len(z) >= 2
    BY <1>7, <1>8
  <2>2. next = f[z[k]] /\ prev = b[z[k]]
    OBVIOUS
  <2> HIDE DEF d, next, prev
  <2>3. prev # z[k] /\ Ring(LinkOver(f, z[k], q, next, prev), LinkOver(b, z[k], q, prev, next), d)
    BY <1>1, <1>2, <2>1, <2>2, RingReplace
  <2>4. Ring(g, h, d)
    BY <2>3
  <2>5. DOMAIN g = Nodes /\ DOMAIN h = Nodes /\ g[BIN] = ALIAS
    BY <1>1, <1>5, <1>6 DEF LinkOver
  <2>6. ASSUME NEW r \in CHUNKS PROVE g[r] # NULL <=> Among(d, r)
    <3>1. r \in Nodes
      BY NodesNumber
    <3>2. g[r] = IF r = p THEN NULL ELSE IF r = prev THEN q ELSE IF r = q THEN next ELSE f[r]
      BY <1>1, <3>1 DEF LinkOver
    <3> HIDE DEF g
    <3> QED
      BY <1>3, <1>4, <1>5, <1>6, <3>2
  <2> HIDE DEF g, h
  <2>7. SizeRing(g, h, d)
    BY <1>2, <1>3, <2>4, <2>5, <2>6 DEF SizeRing
  <2> QED
    BY <2>7 DEF g, h
<1>9. ASSUME next = p
      PROVE  SizeRing([f EXCEPT ![q] = q, ![p] = NULL], [b EXCEPT ![q] = q, ![p] = NULL], d)
  <2> DEFINE g == [f EXCEPT ![q] = q, ![p] = NULL]
             h == [b EXCEPT ![q] = q, ![p] = NULL]
  <2>1. Len(z) = 1 /\ Len(d) = 1 /\ k = 1
    BY <1>1, <1>2, <1>7, <1>9 DEF IsReplace
  <2>2. d[1] = q
    BY <1>1, <2>1
  <2>3. g[q] = q /\ h[q] = q
    BY <1>1, <1>6
  <2>4. DOMAIN g = Nodes /\ DOMAIN h = Nodes /\ g[BIN] = ALIAS
    BY <1>1, <1>5, <1>6
  <2>5. ASSUME NEW r \in CHUNKS PROVE g[r] # NULL <=> Among(d, r)
    <3>1. r \in Nodes
      BY NodesNumber
    <3>2. g[r] = IF r = p THEN NULL ELSE IF r = q THEN q ELSE f[r]
      BY <1>1, <3>1
    <3> HIDE DEF g, d
    <3> QED
      BY <1>3, <1>4, <1>5, <1>6, <3>2
  <2> HIDE DEF g, h, d
  <2>6. Ring(g, h, d)
    BY <2>1, <2>2, <2>3 DEF Ring, After, Before
  <2>7. SizeRing(g, h, d)
    BY <1>2, <1>3, <2>4, <2>5, <2>6 DEF SizeRing
  <2> QED
    BY <2>7 DEF g, h
<1> QED
  BY <1>2, <1>4, <1>8, <1>9

-----------------------------------------------------------------------------
(* The bin as a sequence.                                                  *)

\* The chunks of the bin are s, the first of each size z.
Rings(s, z) ==
  /\ Bin(s, z)
  /\ MainRing(fd, bk, s)
  /\ SizeRing(fd_nextsize, bk_nextsize, z)

LEMMA Ends ==
  ASSUME NEW s, NEW z, Rings(s, z)
  PROVE  /\ Len(s) \in Nat /\ Len(z) \in Nat
         /\ s = << >> <=> Len(s) = 0
         /\ s = << >> <=> z = << >>
         /\ s = << >> <=> first = BIN
         /\ s # << >> => /\ first = s[1] /\ first = z[1] /\ last = s[Len(s)]
                         /\ 1 \in 1 .. Len(s) /\ Len(s) \in 1 .. Len(s) /\ 1 \in 1 .. Len(z)
                         /\ first \in CHUNKS /\ last \in CHUNKS
<1>1. Bin(s, z) /\ MainRing(fd, bk, s) /\ s \in Seq(CHUNKS) /\ z \in Seq(CHUNKS)
  BY DEF Rings, Bin
<1>2. /\ Len(s) \in Nat /\ \A i \in 1 .. Len(s) : s[i] \in CHUNKS /\ SIZES[s[i]] \in Nat
      /\ Len(z) \in Nat /\ \A i \in 1 .. Len(z) : z[i] \in CHUNKS /\ SIZES[z[i]] \in Nat
  BY <1>1, BinNumbers
<1>3. (s = << >> <=> Len(s) = 0) /\ (z = << >> <=> Len(z) = 0)
  BY <1>1
<1>4. /\ first = (IF s = << >> THEN BIN ELSE s[1])
      /\ last = (IF s = << >> THEN BIN ELSE s[Len(s)])
  BY <1>1, Neighbours DEF first, last
<1>5. CASE s = << >>
  <2>1. ~(1 \in 1 .. Len(z))
    <3> SUFFICES ASSUME 1 \in 1 .. Len(z) PROVE FALSE
      OBVIOUS
    <3>1. PICK i \in 1 .. Len(s) : s[i] = z[1]
      BY <1>1 DEF Bin
    <3> QED
      BY <1>3, <1>5, <3>1
  <2> QED
    BY <1>2, <1>3, <1>4, <1>5, <2>1
<1>6. CASE s # << >>
  <2>1. 1 \in 1 .. Len(s) /\ Len(s) \in 1 .. Len(s)
    BY <1>2, <1>3, <1>6
  <2>2. IsFirst(s, 1)
    BY <1>2 DEF IsFirst
  <2>3. PICK k \in 1 .. Len(z) : z[k] = s[1]
    BY <1>1, <2>1, <2>2 DEF Bin, Among
  <2>4. 1 \in 1 .. Len(z)
    BY <1>2, <2>3
  <2>5. PICK i \in 1 .. Len(s) : s[i] = z[1]
    BY <1>1, <2>4 DEF Bin
  <2>6. i = 1 \/ SIZES[s[1]] >= SIZES[s[i]]
    <3>1. i = 1 \/ 1 < i
      BY <1>2
    <3> QED
      BY <1>1, <2>1, <3>1 DEF Bin
  <2>7. k = 1
    <3>1. 1 < k => SIZES[z[1]] > SIZES[z[k]]
      BY <1>1, <2>4 DEF Bin
    <3>2. ~(1 < k)
      BY <1>2, <2>1, <2>3, <2>5, <2>6, <3>1
    <3> QED
      BY <1>2, <3>2
  <2>8. BIN \notin CHUNKS
    BY NodesNumber
  <2> QED
    BY <1>2, <1>3, <1>4, <1>6, <2>1, <2>3, <2>4, <2>7, <2>8
<1> QED
  BY <1>5, <1>6

\* Along a ring.
LEMMA FollowRing ==
  ASSUME NEW S, NEW c \in Seq(S), NEW f, NEW b, Ring(f, b, c), NEW n \in Nat, n < Len(c)
  PROVE  Follow(f, c[1], n) = c[n + 1]
<1>1. Len(c) \in Nat
  OBVIOUS
<1>2. \A i \in 1 .. Len(c) : f[c[i]] = IF i = Len(c) THEN c[1] ELSE c[i + 1]
  BY DEF Ring, After
<1> DEFINE g == [i \in 0 .. n |-> c[i + 1]]
<1>3. g[0] = c[1] /\ g[n] = c[n + 1]
  OBVIOUS
<1>4. ASSUME NEW i \in 1 .. n PROVE g[i] = f[g[i - 1]]
  <2>1. i \in 1 .. Len(c) /\ i # Len(c) /\ i - 1 \in 0 .. n /\ i \in 0 .. n /\ (i - 1) + 1 = i
    BY <1>1
  <2>2. g[i] = c[i + 1] /\ g[i - 1] = c[i]
    BY <2>1
  <2> HIDE DEF g
  <2> QED
    BY <1>2, <2>1, <2>2
<1> HIDE DEF g
<1> QED
  BY <1>3, <1>4, FollowIs

\* And back.
LEMMA FollowRingBack ==
  ASSUME NEW S, NEW c \in Seq(S), NEW f, NEW b, Ring(f, b, c), NEW n \in 1 .. Len(c)
  PROVE  Follow(b, c[1], n) = c[Len(c) + 1 - n]
<1>1. Len(c) \in Nat /\ n \in Nat
  OBVIOUS
<1>2. \A i \in 1 .. Len(c) : b[c[i]] = IF i = 1 THEN c[Len(c)] ELSE c[i - 1]
  BY DEF Ring, Before
<1> DEFINE g == [i \in 0 .. n |-> IF i = 0 THEN c[1] ELSE c[Len(c) + 1 - i]]
<1>3. g[0] = c[1] /\ g[n] = c[Len(c) + 1 - n]
  BY <1>1
<1>4. ASSUME NEW i \in 1 .. n PROVE g[i] = b[g[i - 1]]
  <2>1. i - 1 \in 0 .. n /\ i \in 0 .. n /\ i # 0
    BY <1>1
  <2>2. g[i] = c[Len(c) + 1 - i] /\ g[i - 1] = IF i - 1 = 0 THEN c[1] ELSE c[Len(c) + 1 - (i - 1)]
    BY <2>1
  <2> HIDE DEF g
  <2>3. CASE i = 1
    <3>1. 1 \in 1 .. Len(c) /\ Len(c) + 1 - i = Len(c) /\ i - 1 = 0
      BY <1>1, <2>3
    <3> QED
      BY <1>2, <2>2, <3>1
  <2>4. CASE i # 1
    <3>1. Len(c) + 1 - (i - 1) \in 1 .. Len(c) /\ Len(c) + 1 - (i - 1) # 1 /\ i - 1 # 0
          /\ (Len(c) + 1 - (i - 1)) - 1 = Len(c) + 1 - i
      BY <1>1, <2>4
    <3> QED
      BY <1>2, <2>2, <3>1
  <2> QED
    BY <2>3, <2>4
<1> HIDE DEF g
<1> QED
  BY <1>1, <1>3, <1>4, FollowIs

-----------------------------------------------------------------------------
(* What a walk along the links meets.                                      *)

WalkAlong(f) ==
  LET n == Min({ i \in 1 .. Cardinality(Nodes) : Follow(f, BIN, i) = BIN })
  IN  [i \in 1 .. n - 1 |-> Follow(f, BIN, i)]

\* The walk from the bin is the sequence.
LEMMA WalkAlongIs ==
  ASSUME NEW f, NEW b, NEW s, MainRing(f, b, s)
  PROVE  WalkAlong(f) = s
<1> DEFINE c == Binned(s)
           n == Len(s)
           T == { i \in 1 .. Cardinality(Nodes) : Follow(f, BIN, i) = BIN }
<1>1. s \in Seq(CHUNKS) /\ Distinct(s) /\ Ring(f, b, c)
  BY DEF MainRing
<1>2. /\ c \in Seq(Nodes) /\ n \in Nat /\ Len(c) = n + 1 /\ c[1] = BIN
      /\ \A i \in 1 .. n : c[i + 1] = s[i] /\ s[i] \in CHUNKS
  BY <1>1, BinnedIs
<1>3. n + 1 \in 1 .. Cardinality(Nodes) /\ Cardinality(Nodes) \in Nat /\ BIN \notin CHUNKS
  <2>1. n <= Cardinality(CHUNKS) /\ Cardinality(CHUNKS) \in Nat
    BY <1>1, BinLength
  <2> QED
    BY <1>2, <2>1, NodesNumber
<1> HIDE DEF c, n
<1>4. ASSUME NEW i \in 0 .. n PROVE Follow(f, BIN, i) = c[i + 1]
  <2>1. i \in Nat /\ i < Len(c)
    BY <1>2
  <2> QED
    BY <1>1, <1>2, <2>1, FollowRing
<1>5. Follow(f, BIN, n + 1) = BIN
  <2> DEFINE g == [i \in 0 .. n + 1 |-> IF i = n + 1 THEN BIN ELSE c[i + 1]]
  <2>1. \A i \in 1 .. Len(c) : f[c[i]] = IF i = Len(c) THEN c[1] ELSE c[i + 1]
    BY <1>1 DEF Ring, After
  <2>2. g[0] = BIN /\ g[n + 1] = BIN
    BY <1>2
  <2>3. ASSUME NEW i \in 1 .. n + 1 PROVE g[i] = f[g[i - 1]]
    <3>1. g[i - 1] = c[i] /\ i \in 1 .. Len(c) /\ g[i] = IF i = n + 1 THEN BIN ELSE c[i + 1]
      BY <1>2
    <3> HIDE DEF g
    <3> QED
      BY <1>2, <2>1, <3>1
  <2> HIDE DEF g
  <2>4. n + 1 \in Nat
    BY <1>2
  <2> QED
    BY <2>2, <2>3, <2>4, FollowIs
<1>6. Min(T) = n + 1
  <2>1. n + 1 \in T /\ T \subseteq Int
    BY <1>3, <1>5
  <2>2. ASSUME NEW x \in T PROVE n + 1 <= x
    <3> SUFFICES ASSUME ~(n + 1 <= x) PROVE FALSE
      OBVIOUS
    <3>1. x \in 1 .. n /\ x \in 0 .. n /\ Follow(f, BIN, x) = BIN
      BY <1>2, <1>3
    <3> QED
      BY <1>2, <1>3, <1>4, <3>1
  <2> HIDE DEF T
  <2> QED
    BY <2>1, <2>2, MinIs
<1>7. WalkAlong(f) = [i \in 1 .. n |-> Follow(f, BIN, i)]
  <2>1. (n + 1) - 1 = n
    BY <1>2
  <2> QED
    BY <1>6, <2>1 DEF WalkAlong
<1>8. [i \in 1 .. n |-> Follow(f, BIN, i)] = [i \in 1 .. n |-> s[i]]
  <2>1. \A i \in 1 .. n : Follow(f, BIN, i) = s[i]
    <3>1. 1 .. n \subseteq 0 .. n
      BY <1>2
    <3> QED
      BY <1>2, <1>4, <3>1
  <2> QED
    BY <2>1
<1> QED
  BY <1>1, <1>7, <1>8 DEF n

\* Each chunk of the bin has its size among the firsts.
LEMMA SizeFirst ==
  ASSUME NEW s, NEW z, Bin(s, z), NEW i \in 1 .. Len(s)
  PROVE  \E j \in 1 .. Len(s), k \in 1 .. Len(z) :
           j <= i /\ IsFirst(s, j) /\ s[j] = z[k] /\ SIZES[s[j]] = SIZES[s[i]]
<1> DEFINE T == { j \in 1 .. Len(s) : SIZES[s[j]] = SIZES[s[i]] }
<1>1. /\ Len(s) \in Nat /\ \A j \in 1 .. Len(s) : SIZES[s[j]] \in Nat
      /\ \A a, b \in 1 .. Len(s) : a < b => SIZES[s[a]] >= SIZES[s[b]]
  BY BinNumbers DEF Bin
<1>2. T \subseteq Nat /\ i \in T
  BY <1>1
<1>3. PICK j \in T : \A m \in T : j <= m
  <2> HIDE DEF T
  <2> QED
    BY <1>2, LeastNumber
<1>4. j \in 1 .. Len(s) /\ SIZES[s[j]] = SIZES[s[i]] /\ j <= i
  BY <1>2, <1>3
<1>5. IsFirst(s, j)
  <2> SUFFICES ASSUME NEW a \in 1 .. Len(s), a < j PROVE SIZES[s[a]] > SIZES[s[j]]
    BY DEF IsFirst
  <2>1. SIZES[s[a]] # SIZES[s[j]]
    BY <1>1, <1>3, <1>4
  <2> QED
    BY <1>1, <1>4, <2>1
<1>6. PICK k \in 1 .. Len(z) : z[k] = s[j]
  BY <1>4, <1>5 DEF Bin, Among
<1> QED
  BY <1>4, <1>5, <1>6

-----------------------------------------------------------------------------
(* Where a chunk goes.                                                     *)

LEMMA ArenaSizes ==
  ASSUME NEW s \in Seq(CHUNKS)
  PROVE  /\ DOMAIN s = 1 .. Len(s)
         /\ \A i \in 1 .. Len(s) : chunksize(AsArena(s), s[i]) = SIZES[s[i]]
<1>1. \A i \in 1 .. Len(s) : s[i] \in CHUNKS
  OBVIOUS
<1> QED
  BY <1>1 DEF chunksize, AsArena

LEMMA PositionIs ==
  ASSUME NEW s, NEW z, Bin(s, z), NEW p \in CHUNKS, NEW i \in 1 .. Len(s) + 1,
         \A j \in 1 .. Len(s) : j < i <=> SIZES[s[j]] > SIZES[p]
  PROVE  /\ (\A j \in 1 .. Len(s) : SIZES[s[j]] # SIZES[p])
              => large_position(AsArena(s), s, SIZES[p]) = i
         /\ (\E j \in 1 .. Len(s) : SIZES[s[j]] = SIZES[p])
              => large_position(AsArena(s), s, SIZES[p]) = i + 1
<1> DEFINE longer == { j \in DOMAIN s : chunksize(AsArena(s), s[j]) > SIZES[p] }
           equals == \E j \in DOMAIN s : chunksize(AsArena(s), s[j]) = SIZES[p]
<1>1. s \in Seq(CHUNKS) /\ Len(s) \in Nat
  BY DEF Bin
<1>2. /\ DOMAIN s = 1 .. Len(s)
      /\ \A j \in 1 .. Len(s) : chunksize(AsArena(s), s[j]) = SIZES[s[j]]
  BY <1>1, ArenaSizes
<1>3. longer = 1 .. (i - 1)
  BY <1>1, <1>2
<1>4. Cardinality(longer) = i - 1
  <2>1. Cardinality(1 .. (i - 1)) = IF 1 > i - 1 THEN 0 ELSE (i - 1) - 1 + 1
    BY <1>1, FS_Interval
  <2> HIDE DEF longer
  <2> QED
    BY <1>1, <1>3, <2>1
<1>5. large_position(AsArena(s), s, SIZES[p])
        = IF equals THEN Cardinality(longer) + 2 ELSE Cardinality(longer) + 1
  BY DEF large_position
<1>6. equals <=> \E j \in 1 .. Len(s) : SIZES[s[j]] = SIZES[p]
  BY <1>2
<1> HIDE DEF longer, equals
<1> QED
  BY <1>1, <1>4, <1>5, <1>6

\* The loop of the insertion stops at the first of a size that is no longer;
\* all before it in the bin is longer.
LEMMA StopsAt ==
  ASSUME NEW s, NEW z, Rings(s, z), s # << >>, NEW size \in Nat, size >= SIZES[last]
  PROVE  \E k \in 1 .. Len(z), i \in 1 .. Len(s) :
           /\ stops_at(size) = z[k] /\ s[i] = z[k] /\ IsFirst(s, i) /\ SIZES[z[k]] <= size
           /\ \A j \in 1 .. Len(z) : j < k => SIZES[z[j]] > size
           /\ \A j \in 1 .. Len(s) : j < i => SIZES[s[j]] > size
<1> DEFINE K == { k \in 1 .. Len(z) : SIZES[z[k]] <= size }
           T == { i \in 0 .. Cardinality(CHUNKS) : SIZES[Follow(fd_nextsize, first, i)] <= size }
<1>1. Bin(s, z) /\ z \in Seq(CHUNKS) /\ Distinct(z) /\ Ring(fd_nextsize, bk_nextsize, z)
  BY DEF Rings, SizeRing
<1>2. /\ Len(s) \in Nat /\ \A i \in 1 .. Len(s) : s[i] \in CHUNKS /\ SIZES[s[i]] \in Nat
      /\ Len(z) \in Nat /\ \A i \in 1 .. Len(z) : z[i] \in CHUNKS /\ SIZES[z[i]] \in Nat
  BY <1>1, BinNumbers
<1>3. first = z[1] /\ last = s[Len(s)] /\ Len(s) \in 1 .. Len(s)
  BY Ends
<1>4. Len(z) <= Cardinality(CHUNKS) /\ Cardinality(CHUNKS) \in Nat
  BY <1>1, BinLength
<1>5. K \subseteq Nat /\ K # {}
  <2>1. PICK j \in 1 .. Len(s), k \in 1 .. Len(z) :
          j <= Len(s) /\ IsFirst(s, j) /\ s[j] = z[k] /\ SIZES[s[j]] = SIZES[s[Len(s)]]
    <3>1. Len(s) \in 1 .. Len(s)
      BY <1>3
    <3> QED
      BY <1>1, <3>1, SizeFirst
  <2>2. k \in K
    BY <1>3, <2>1
  <2> QED
    BY <1>2, <2>2
<1>6. PICK k \in K : \A m \in K : k <= m
  <2> HIDE DEF K
  <2> QED
    BY <1>5, LeastNumber
<1>7. k \in 1 .. Len(z) /\ SIZES[z[k]] <= size
  BY <1>6
<1>8. ASSUME NEW j \in 1 .. Len(z), j < k PROVE SIZES[z[j]] > size
  BY <1>2, <1>6, <1>7, <1>8
<1> HIDE DEF K
<1>9. ASSUME NEW j \in Nat, j < Len(z) PROVE Follow(fd_nextsize, first, j) = z[j + 1]
  BY <1>1, <1>3, <1>9, FollowRing
<1>10. Min(T) = k - 1
  <2>1. k - 1 \in T /\ T \subseteq Int
    <3>1. k - 1 \in Nat /\ k - 1 < Len(z) /\ (k - 1) + 1 = k /\ k - 1 \in 0 .. Cardinality(CHUNKS)
      BY <1>2, <1>4, <1>7
    <3>2. Follow(fd_nextsize, first, k - 1) = z[(k - 1) + 1]
      BY <1>9, <3>1
    <3> QED
      BY <1>7, <3>1, <3>2
  <2>2. ASSUME NEW x \in T PROVE k - 1 <= x
    <3> SUFFICES ASSUME ~(k - 1 <= x) PROVE FALSE
      OBVIOUS
    <3>1. x \in Nat /\ x < Len(z) /\ x + 1 \in 1 .. Len(z) /\ x + 1 < k
      BY <1>2, <1>4, <1>7
    <3>2. SIZES[z[x + 1]] <= size
      BY <1>9, <3>1
    <3>3. SIZES[z[x + 1]] > size /\ SIZES[z[x + 1]] \in Nat
      BY <1>2, <1>8, <3>1
    <3> QED
      BY <3>2, <3>3
  <2> HIDE DEF T
  <2> QED
    BY <2>1, <2>2, MinIs
<1>11. stops_at(size) = z[k]
  <2>1. stops_at(size) = Follow(fd_nextsize, first, k - 1)
    BY <1>10 DEF stops_at
  <2>2. k - 1 \in Nat /\ k - 1 < Len(z) /\ (k - 1) + 1 = k
    BY <1>2, <1>7
  <2>3. Follow(fd_nextsize, first, k - 1) = z[(k - 1) + 1]
    BY <1>9, <2>2
  <2> QED
    BY <2>1, <2>2, <2>3
<1>12. PICK i \in 1 .. Len(s) : s[i] = z[k] /\ IsFirst(s, i)
  BY <1>1, <1>7 DEF Bin
<1>13. ASSUME NEW j \in 1 .. Len(s), j < i PROVE SIZES[s[j]] > size
  <2>1. PICK j2 \in 1 .. Len(s), k2 \in 1 .. Len(z) :
          j2 <= j /\ IsFirst(s, j2) /\ s[j2] = z[k2] /\ SIZES[s[j2]] = SIZES[s[j]]
    BY <1>1, SizeFirst
  <2>2. SIZES[s[j]] > SIZES[s[i]]
    BY <1>12, <1>13 DEF IsFirst
  <2>3. ~(k2 >= k)
    <3> SUFFICES ASSUME k2 >= k PROVE FALSE
      OBVIOUS
    <3>1. k2 = k \/ k < k2
      BY <1>2, <1>7
    <3>2. k < k2 => SIZES[z[k]] > SIZES[z[k2]]
      BY <1>1, <1>7 DEF Bin
    <3> QED
      BY <1>2, <1>7, <1>12, <2>1, <2>2, <3>1, <3>2
  <2>4. k2 < k
    BY <1>2, <1>7, <2>3
  <2> QED
    BY <1>8, <2>1, <2>4
<1> QED
  BY <1>7, <1>8, <1>11, <1>12, <1>13

-----------------------------------------------------------------------------
(* The insertions.                                                         *)

\* Rings(s, z) in the state after the step.
RingsAfter(s, z) ==
  /\ Bin(s, z)
  /\ MainRing(fd', bk', s)
  /\ SizeRing(fd_nextsize', bk_nextsize', z)

\* Where place_in_bin puts p.
Position(s, p) == large_position(AsArena(s), s, SIZES[p])

\* p is put where place_in_bin puts it, and no check of the links fails.
PlacedAs(s, p) ==
  /\ corrupt' = FALSE
  /\ Position(s, p) \in 1 .. Len(s) + 1
  /\ \E z : RingsAfter(InsertAt(s, Position(s, p), p), z)

\* p, the first of its size, has the same place in both sequences.
LEMMA NewSize ==
  ASSUME NEW s, NEW z, Bin(s, z), NEW p \in CHUNKS, ~Among(s, p),
         NEW i \in 1 .. Len(s) + 1, NEW k \in 1 .. Len(z) + 1,
         \A j \in 1 .. Len(s) : /\ j < i => SIZES[s[j]] > SIZES[p]
                                /\ i <= j => SIZES[s[j]] < SIZES[p],
         \A j \in 1 .. Len(z) : /\ j < k => SIZES[z[j]] > SIZES[p]
                                /\ k <= j => SIZES[z[j]] < SIZES[p]
  PROVE  /\ ~Among(z, p)
         /\ Bin(InsertAt(s, i, p), InsertAt(z, k, p))
         /\ Position(s, p) = i
<1>1. s \in Seq(CHUNKS) /\ z \in Seq(CHUNKS)
  BY DEF Bin
<1>2. /\ Len(s) \in Nat /\ \A j \in 1 .. Len(s) : s[j] \in CHUNKS /\ SIZES[s[j]] \in Nat
      /\ Len(z) \in Nat /\ \A j \in 1 .. Len(z) : z[j] \in CHUNKS /\ SIZES[z[j]] \in Nat
      /\ SIZES[p] \in Nat
  BY BinNumbers, SizeNumbers
<1>3. ~Among(z, p)
  BY DEF Bin, Among
<1>4. /\ InsertAt(s, i, p) \in Seq(CHUNKS) /\ IsInsert(s, InsertAt(s, i, p), i, p)
      /\ InsertAt(z, k, p) \in Seq(CHUNKS) /\ IsInsert(z, InsertAt(z, k, p), k, p)
  BY <1>1, InsertAtIs
<1>5. Bin(InsertAt(s, i, p), InsertAt(z, k, p))
  BY <1>4, BinInsertNew
<1>6. \A j \in 1 .. Len(s) : (j < i <=> SIZES[s[j]] > SIZES[p]) /\ SIZES[s[j]] # SIZES[p]
  BY <1>2
<1>7. Position(s, p) = i
  BY <1>6, PositionIs DEF Position
<1> QED
  BY <1>3, <1>5, <1>7

LEMMA IntoEmpty ==
  ASSUME NEW s, NEW z, Rings(s, z), corrupt = FALSE, NEW p \in CHUNKS, ~Among(s, p),
         insert_into_empty(p)
  PROVE  PlacedAs(s, p)
<1>1. Bin(s, z) /\ MainRing(fd, bk, s) /\ SizeRing(fd_nextsize, bk_nextsize, z)
  BY DEF Rings
<1>2. first = BIN /\ s = << >> /\ z = << >> /\ Len(s) = 0 /\ Len(z) = 0
  BY Ends DEF insert_into_empty
<1>3. 1 \in 1 .. Len(s) + 1 /\ 1 \in 1 .. Len(z) + 1 /\ Len(s) + 1 = 1
  BY <1>2
<1>4. /\ ~Among(z, p) /\ Position(s, p) = 1
      /\ Bin(InsertAt(s, 1, p), InsertAt(z, 1, p))
  <2>1. /\ \A j \in 1 .. Len(s) : /\ j < 1 => SIZES[s[j]] > SIZES[p]
                                  /\ 1 <= j => SIZES[s[j]] < SIZES[p]
        /\ \A j \in 1 .. Len(z) : /\ j < 1 => SIZES[z[j]] > SIZES[p]
                                  /\ 1 <= j => SIZES[z[j]] < SIZES[p]
    BY <1>2
  <2> QED
    BY <1>1, <1>3, <2>1, NewSize
<1>5. MainRing(LinkIn(fd, p, BIN, BIN), LinkIn(bk, p, BIN, BIN), InsertAt(s, 1, p))
  <2>1. BIN = (IF 1 = 1 THEN BIN ELSE s[1 - 1]) /\ BIN = (IF 1 = Len(s) + 1 THEN BIN ELSE s[1])
    BY <1>3
  <2> QED
    BY <1>1, <1>3, <2>1, MainInsert
<1>6. fd' = LinkIn(fd, p, BIN, BIN) /\ bk' = LinkIn(bk, p, BIN, BIN) /\ corrupt' = FALSE
  BY <1>2 DEF insert_into_empty, link_between, LinkIn
<1>7. SizeRing(fd_nextsize', bk_nextsize', InsertAt(z, 1, p))
  <2> DEFINE y == InsertAt(z, 1, p)
  <2>1. y \in Seq(CHUNKS) /\ Distinct(y) /\ Len(y) = 1 /\ y[1] = p
    <3>1. z \in Seq(CHUNKS) /\ Distinct(z)
      BY <1>1 DEF SizeRing
    <3>2. y \in Seq(CHUNKS) /\ IsInsert(z, y, 1, p)
      BY <1>3, <3>1, InsertAtIs
    <3> HIDE DEF y
    <3>3. Len(y) = 1 /\ y[1] = p
      BY <1>2, <3>2 DEF IsInsert
    <3> QED
      BY <3>2, <3>3 DEF Distinct
  <2>2. /\ DOMAIN fd_nextsize' = Nodes /\ DOMAIN bk_nextsize' = Nodes
        /\ fd_nextsize'[p] = p /\ bk_nextsize'[p] = p
        /\ \A q \in Nodes : q # p => fd_nextsize'[q] = fd_nextsize[q]
    BY <1>1, NodesNumber DEF insert_into_empty, SizeRing
  <2> HIDE DEF y
  <2>3. Ring(fd_nextsize', bk_nextsize', y)
    BY <2>1, <2>2 DEF Ring, After, Before
  <2>4. fd_nextsize'[BIN] = ALIAS
    BY <1>1, <2>2, NodesNumber DEF SizeRing
  <2>5. \A q : Among(y, q) <=> q = p
    BY <2>1 DEF Among
  <2>6. \A q : ~Among(z, q)
    BY <1>2 DEF Among
  <2>7. \A q \in CHUNKS : fd_nextsize'[q] # NULL <=> Among(y, q)
    BY <1>1, <2>2, <2>5, <2>6, NodesNumber DEF SizeRing
  <2>8. SizeRing(fd_nextsize', bk_nextsize', y)
    BY <2>1, <2>2, <2>3, <2>4, <2>7 DEF SizeRing
  <2> QED
    BY <2>8 DEF y
<1>8. RingsAfter(InsertAt(s, 1, p), InsertAt(z, 1, p))
  BY <1>4, <1>5, <1>6, <1>7 DEF RingsAfter
<1> QED
  BY <1>3, <1>4, <1>6, <1>8 DEF PlacedAs

LEMMA AsSmallest ==
  ASSUME NEW s, NEW z, Rings(s, z), corrupt = FALSE, NEW p \in CHUNKS, ~Among(s, p),
         insert_smallest(p)
  PROVE  PlacedAs(s, p)
<1> DEFINE i == Len(s) + 1
           k == Len(z) + 1
<1>1. Bin(s, z) /\ MainRing(fd, bk, s) /\ SizeRing(fd_nextsize, bk_nextsize, z)
  BY DEF Rings
<1>2. s # << >> /\ z # << >> /\ SIZES[p] < SIZES[last]
  BY Ends DEF insert_smallest
<1>3. /\ first = z[1] /\ last = s[Len(s)] /\ Len(s) \in 1 .. Len(s)
      /\ Len(s) \in Nat /\ Len(z) \in Nat
  BY <1>2, Ends
<1>4. /\ i \in 1 .. Len(s) + 1 /\ k \in 1 .. Len(z) + 1 /\ i # 1 /\ i - 1 = Len(s)
      /\ \A j \in 1 .. Len(s) : j < i
      /\ \A j \in 1 .. Len(z) : j < k
  BY <1>3
<1>5. /\ \A j \in 1 .. Len(s) : s[j] \in CHUNKS /\ SIZES[s[j]] \in Nat
      /\ \A j \in 1 .. Len(z) : z[j] \in CHUNKS /\ SIZES[z[j]] \in Nat
      /\ SIZES[p] \in Nat
  BY <1>1, BinNumbers, SizeNumbers
<1> HIDE DEF i, k
<1>6. ASSUME NEW j \in 1 .. Len(s) PROVE SIZES[s[j]] > SIZES[p]
  <2>1. j = Len(s) \/ j < Len(s)
    BY <1>3
  <2>2. j < Len(s) => SIZES[s[j]] >= SIZES[s[Len(s)]]
    BY <1>1, <1>3 DEF Bin
  <2> QED
    BY <1>2, <1>3, <1>5, <2>1, <2>2
<1>7. ASSUME NEW j \in 1 .. Len(z) PROVE SIZES[z[j]] > SIZES[p]
  <2>1. PICK a \in 1 .. Len(s) : s[a] = z[j]
    BY <1>1 DEF Bin
  <2> QED
    BY <1>6, <2>1
<1>8. ~Among(z, p) /\ Position(s, p) = i /\ Bin(InsertAt(s, i, p), InsertAt(z, k, p))
  <2>1. /\ \A j \in 1 .. Len(s) : /\ j < i => SIZES[s[j]] > SIZES[p]
                                  /\ i <= j => SIZES[s[j]] < SIZES[p]
        /\ \A j \in 1 .. Len(z) : /\ j < k => SIZES[z[j]] > SIZES[p]
                                  /\ k <= j => SIZES[z[j]] < SIZES[p]
    <3>1. \A j \in 1 .. Len(s) : ~(i <= j)
      BY <1>3, <1>4
    <3>2. \A j \in 1 .. Len(z) : ~(k <= j)
      BY <1>3, <1>4
    <3> QED
      BY <1>6, <1>7, <3>1, <3>2
  <2> QED
    BY <1>1, <1>4, <2>1, NewSize
<1>9. MainRing(LinkIn(fd, p, BIN, last), LinkIn(bk, p, last, BIN), InsertAt(s, i, p))
  <2>1. last = (IF i = 1 THEN BIN ELSE s[i - 1]) /\ BIN = (IF i = Len(s) + 1 THEN BIN ELSE s[i])
    BY <1>3, <1>4 DEF i
  <2> QED
    BY <1>1, <1>4, <2>1, MainInsert
<1> DEFINE prev == bk_nextsize[first]
<1>10. SizeRing(LinkIn(fd_nextsize, p, first, prev), LinkIn(bk_nextsize, p, prev, first),
                InsertAt(z, k, p))
  <2>1. first = AtPosition(z, k)
    BY <1>3 DEF AtPosition, k
  <2> HIDE DEF prev
  <2>2. prev = bk_nextsize[first]
    BY DEF prev
  <2> QED
    BY <1>1, <1>2, <1>4, <1>8, <2>1, <2>2, SizeInsert
<1>11. /\ fd' = LinkIn(fd, p, BIN, last) /\ bk' = LinkIn(bk, p, last, BIN)
       /\ fd_nextsize' = LinkIn(fd_nextsize, p, first, prev)
       /\ bk_nextsize' = LinkIn(bk_nextsize, p, prev, first)
       /\ corrupt' = FALSE
  BY DEF insert_smallest, link_between, link_size, LinkIn
<1>12. RingsAfter(InsertAt(s, i, p), InsertAt(z, k, p))
  BY <1>8, <1>9, <1>10, <1>11 DEF RingsAfter
<1> QED
  BY <1>4, <1>8, <1>11, <1>12 DEF PlacedAs

-----------------------------------------------------------------------------
(* The insertions before and behind the chunk the loop stops at.           *)

LEMMA BehindFirst ==
  ASSUME NEW s, NEW z, Rings(s, z), corrupt = FALSE, NEW p \in CHUNKS, ~Among(s, p),
         insert_second(p)
  PROVE  PlacedAs(s, p)
<1>1. Bin(s, z) /\ MainRing(fd, bk, s) /\ SizeRing(fd_nextsize, bk_nextsize, z)
  BY DEF Rings
<1>2. s # << >> /\ SIZES[p] >= SIZES[last] /\ SIZES[p] \in Nat
  BY Ends, SizeNumbers DEF insert_second
<1>3. PICK k \in 1 .. Len(z), i \in 1 .. Len(s) :
           /\ stops_at(SIZES[p]) = z[k] /\ s[i] = z[k] /\ IsFirst(s, i) /\ SIZES[z[k]] <= SIZES[p]
           /\ \A j \in 1 .. Len(z) : j < k => SIZES[z[j]] > SIZES[p]
           /\ \A j \in 1 .. Len(s) : j < i => SIZES[s[j]] > SIZES[p]
  BY <1>2, StopsAt
<1>4. SIZES[s[i]] = SIZES[p]
  BY <1>3 DEF insert_second
<1>5. /\ Len(s) \in Nat /\ \A j \in 1 .. Len(s) : s[j] \in CHUNKS /\ SIZES[s[j]] \in Nat
      /\ s \in Seq(CHUNKS)
  BY <1>1, BinNumbers DEF Bin
<1> DEFINE prev == s[i]
           next == fd[s[i]]
           t == i + 1
<1>6. t \in 1 .. Len(s) + 1 /\ t - 1 = i /\ t # 1 /\ (t = Len(s) + 1 <=> i = Len(s))
  BY <1>5
<1>7. next = IF i = Len(s) THEN BIN ELSE s[i + 1]
  BY <1>1, Neighbours
<1>8. /\ prev = (IF t = 1 THEN BIN ELSE s[t - 1])
      /\ next = (IF t = Len(s) + 1 THEN BIN ELSE s[t])
  BY <1>6, <1>7
<1>9. bk[next] = prev /\ fd[prev] = next
  <2> HIDE DEF t, prev, next
  <2> QED
    BY <1>1, <1>6, <1>8, MainInsert
<1>10. MainRing(LinkIn(fd, p, next, prev), LinkIn(bk, p, prev, next), InsertAt(s, t, p))
  <2> HIDE DEF t, prev, next
  <2> QED
    BY <1>1, <1>6, <1>8, MainInsert
<1>11. /\ fd' = LinkIn(fd, p, next, prev) /\ bk' = LinkIn(bk, p, prev, next)
       /\ fd_nextsize' = fd_nextsize /\ bk_nextsize' = bk_nextsize
       /\ corrupt' = FALSE
  <2>1. /\ corrupt' = (corrupt \/ fd[bk[next]] # next)
        /\ link_between(p, bk[next], next)
        /\ fd_nextsize' = fd_nextsize /\ bk_nextsize' = bk_nextsize
    BY <1>3 DEF insert_second
  <2> HIDE DEF prev, next
  <2> QED
    BY <1>9, <2>1 DEF link_between, LinkIn
<1>12. Bin(InsertAt(s, t, p), z)
  <2>1. InsertAt(s, t, p) \in Seq(CHUNKS) /\ IsInsert(s, InsertAt(s, t, p), t, p)
    BY <1>5, <1>6, InsertAtIs
  <2> QED
    BY <1>1, <1>3, <1>4, <2>1, BinInsertSecond
<1>13. Position(s, p) = t
  <2>1. ASSUME NEW j \in 1 .. Len(s) PROVE j < i <=> SIZES[s[j]] > SIZES[p]
    <3>1. j < i \/ j = i \/ i < j
      BY <1>5
    <3>2. i < j => SIZES[s[i]] >= SIZES[s[j]]
      BY <1>1 DEF Bin
    <3> QED
      BY <1>2, <1>3, <1>4, <1>5, <3>1, <3>2
  <2>2. i \in 1 .. Len(s) + 1
    BY <1>5
  <2> QED
    BY <1>1, <1>4, <2>1, <2>2, PositionIs DEF Position
<1> HIDE DEF t, prev, next
<1>14. RingsAfter(InsertAt(s, t, p), z)
  BY <1>1, <1>10, <1>11, <1>12 DEF RingsAfter
<1> QED
  BY <1>6, <1>11, <1>13, <1>14 DEF PlacedAs

LEMMA BeforeFirst ==
  ASSUME NEW s, NEW z, Rings(s, z), corrupt = FALSE, NEW p \in CHUNKS, ~Among(s, p),
         insert_new_size(p)
  PROVE  PlacedAs(s, p)
<1>1. Bin(s, z) /\ MainRing(fd, bk, s) /\ SizeRing(fd_nextsize, bk_nextsize, z)
  BY DEF Rings
<1>2. s # << >> /\ z # << >> /\ SIZES[p] >= SIZES[last] /\ SIZES[p] \in Nat
  BY Ends, SizeNumbers DEF insert_new_size
<1>3. PICK k \in 1 .. Len(z), i \in 1 .. Len(s) :
           /\ stops_at(SIZES[p]) = z[k] /\ s[i] = z[k] /\ IsFirst(s, i) /\ SIZES[z[k]] <= SIZES[p]
           /\ \A j \in 1 .. Len(z) : j < k => SIZES[z[j]] > SIZES[p]
           /\ \A j \in 1 .. Len(s) : j < i => SIZES[s[j]] > SIZES[p]
  BY <1>2, StopsAt
<1>4. /\ Len(s) \in Nat /\ \A j \in 1 .. Len(s) : s[j] \in CHUNKS /\ SIZES[s[j]] \in Nat
      /\ Len(z) \in Nat /\ \A j \in 1 .. Len(z) : z[j] \in CHUNKS /\ SIZES[z[j]] \in Nat
  BY <1>1, BinNumbers
<1>5. SIZES[s[i]] < SIZES[p] /\ SIZES[z[k]] < SIZES[p]
  BY <1>2, <1>3, <1>4 DEF insert_new_size
<1>6. i \in 1 .. Len(s) + 1 /\ k \in 1 .. Len(z) + 1 /\ i # Len(s) + 1 /\ k # Len(z) + 1
  BY <1>4
<1>7. ~Among(z, p) /\ Position(s, p) = i /\ Bin(InsertAt(s, i, p), InsertAt(z, k, p))
  <2>1. ASSUME NEW j \in 1 .. Len(s), i <= j PROVE SIZES[s[j]] < SIZES[p]
    <3>1. j = i \/ i < j
      BY <1>4, <2>1
    <3>2. i < j => SIZES[s[i]] >= SIZES[s[j]]
      BY <1>1 DEF Bin
    <3> QED
      BY <1>2, <1>4, <1>5, <3>1, <3>2
  <2>2. ASSUME NEW j \in 1 .. Len(z), k <= j PROVE SIZES[z[j]] < SIZES[p]
    <3>1. j = k \/ k < j
      BY <1>4, <2>2
    <3>2. k < j => SIZES[z[k]] > SIZES[z[j]]
      BY <1>1 DEF Bin
    <3> QED
      BY <1>2, <1>4, <1>5, <3>1, <3>2
  <2>3. /\ \A j \in 1 .. Len(s) : /\ j < i => SIZES[s[j]] > SIZES[p]
                                  /\ i <= j => SIZES[s[j]] < SIZES[p]
        /\ \A j \in 1 .. Len(z) : /\ j < k => SIZES[z[j]] > SIZES[p]
                                  /\ k <= j => SIZES[z[j]] < SIZES[p]
    BY <1>3, <2>1, <2>2
  <2> QED
    BY <1>1, <1>6, <2>3, NewSize
<1> DEFINE next == s[i]
           prev == bk[next]
           prevsize == bk_nextsize[next]
<1>8. /\ prev = (IF i = 1 THEN BIN ELSE s[i - 1])
      /\ next = (IF i = Len(s) + 1 THEN BIN ELSE s[i])
      /\ next = AtPosition(z, k)
  BY <1>1, <1>3, <1>6, Neighbours DEF AtPosition
<1>9. /\ fd[prev] = next
      /\ MainRing(LinkIn(fd, p, next, prev), LinkIn(bk, p, prev, next), InsertAt(s, i, p))
  <2> HIDE DEF next, prev
  <2> QED
    BY <1>1, <1>6, <1>8, MainInsert
<1>10. /\ fd_nextsize[prevsize] = next
       /\ SizeRing(LinkIn(fd_nextsize, p, next, prevsize), LinkIn(bk_nextsize, p, prevsize, next),
                   InsertAt(z, k, p))
  <2> HIDE DEF next
  <2>1. prevsize = bk_nextsize[next]
    OBVIOUS
  <2> HIDE DEF prevsize
  <2> QED
    BY <1>1, <1>2, <1>6, <1>7, <1>8, <2>1, SizeInsert
<1>11. /\ fd' = LinkIn(fd, p, next, prev) /\ bk' = LinkIn(bk, p, prev, next)
       /\ fd_nextsize' = LinkIn(fd_nextsize, p, next, prevsize)
       /\ bk_nextsize' = LinkIn(bk_nextsize, p, prevsize, next)
       /\ corrupt' = FALSE
  <2>1. /\ corrupt' = (corrupt \/ fd_nextsize[bk_nextsize[next]] # next \/ fd[bk[next]] # next)
        /\ link_size(p, next)
        /\ link_between(p, bk[next], next)
    BY <1>3 DEF insert_new_size
  <2> HIDE DEF next
  <2> QED
    BY <1>9, <1>10, <2>1 DEF link_between, link_size, LinkIn
<1> HIDE DEF prev, next, prevsize
<1>12. RingsAfter(InsertAt(s, i, p), InsertAt(z, k, p))
  BY <1>7, <1>9, <1>10, <1>11 DEF RingsAfter
<1> QED
  BY <1>6, <1>7, <1>11, <1>12 DEF PlacedAs

LEMMA PlaceEffect ==
  ASSUME NEW s, NEW z, Rings(s, z), corrupt = FALSE, NEW p \in CHUNKS, place(p)
  PROVE  ~Among(s, p) /\ PlacedAs(s, p)
<1>1. ~Among(s, p)
  BY DEF place, Rings, MainRing
<1> QED
  BY <1>1, IntoEmpty, AsSmallest, BehindFirst, BeforeFirst DEF place

-----------------------------------------------------------------------------
(* The removals.                                                           *)

\* The chunk at position i is gone, and no check of the links fails.
RemovedAt(s, i) ==
  /\ corrupt' = FALSE
  /\ \E z : RingsAfter(RemoveAt(s, i), z)

LEMMA UnlinkLater ==
  ASSUME NEW s, NEW z, Rings(s, z), corrupt = FALSE, NEW p \in CHUNKS, unlink(p),
         fd_nextsize[p] = NULL, NEW i \in 1 .. Len(s), p = s[i]
  PROVE  RemovedAt(s, i)
<1>1. Bin(s, z) /\ MainRing(fd, bk, s) /\ SizeRing(fd_nextsize, bk_nextsize, z)
  BY DEF Rings
<1>2. /\ fd[bk[p]] = p /\ bk[fd[p]] = p
      /\ MainRing(LinkOut(fd, p, fd[p], bk[p]), LinkOut(bk, p, bk[p], fd[p]), RemoveAt(s, i))
  BY <1>1, MainUnlink
<1>3. /\ fd' = LinkOut(fd, p, fd[p], bk[p]) /\ bk' = LinkOut(bk, p, bk[p], fd[p])
      /\ fd_nextsize' = fd_nextsize /\ bk_nextsize' = bk_nextsize /\ corrupt' = FALSE
  BY <1>2 DEF unlink, LinkOut
<1>4. ~IsFirst(s, i)
  BY <1>1 DEF Bin, SizeRing
<1>5. RemoveAt(s, i) \in Seq(CHUNKS) /\ IsRemove(s, RemoveAt(s, i), i)
  <2>1. s \in Seq(CHUNKS)
    BY <1>1 DEF Bin
  <2> QED
    BY <2>1, RemoveAtIs
<1>6. Bin(RemoveAt(s, i), z)
  BY <1>1, <1>4, <1>5, BinRemoveLater
<1> QED
  BY <1>1, <1>2, <1>3, <1>6 DEF RingsAfter, RemovedAt

LEMMA UnlinkFirst ==
  ASSUME NEW s, NEW z, Rings(s, z), corrupt = FALSE, NEW p \in CHUNKS, unlink(p),
         fd_nextsize[p] # NULL, NEW i \in 1 .. Len(s), p = s[i]
  PROVE  RemovedAt(s, i)
<1> DEFINE heir == fd[p]
           next == fd_nextsize[p]
           prev == bk_nextsize[p]
<1>1. Bin(s, z) /\ MainRing(fd, bk, s) /\ SizeRing(fd_nextsize, bk_nextsize, z)
  BY DEF Rings
<1>2. /\ fd[bk[p]] = p /\ bk[fd[p]] = p
      /\ MainRing(LinkOut(fd, p, fd[p], bk[p]), LinkOut(bk, p, bk[p], fd[p]), RemoveAt(s, i))
  BY <1>1, MainUnlink
<1>3. /\ Len(s) \in Nat /\ \A j \in 1 .. Len(s) : s[j] \in CHUNKS /\ SIZES[s[j]] \in Nat
      /\ Len(z) \in Nat /\ \A j \in 1 .. Len(z) : z[j] \in CHUNKS /\ SIZES[z[j]] \in Nat
      /\ s \in Seq(CHUNKS) /\ z \in Seq(CHUNKS) /\ Distinct(s)
  BY <1>1, BinNumbers DEF Bin
<1>4. heir = IF i = Len(s) THEN BIN ELSE s[i + 1]
  BY <1>1, Neighbours
<1>5. PICK k \in 1 .. Len(z) : p = z[k]
  BY <1>1 DEF SizeRing, Among
<1>6. IsFirst(s, i)
  <2>1. PICK j \in 1 .. Len(s) : s[j] = z[k] /\ IsFirst(s, j)
    BY <1>1 DEF Bin
  <2>2. j = i
    BY <1>3, <1>5, <2>1 DEF Distinct
  <2> QED
    BY <2>1, <2>2
<1>7. fd_nextsize[prev] = p /\ bk_nextsize[next] = p
  BY <1>1, <1>5, SizeUnlink
<1>8. /\ fd' = LinkOut(fd, p, fd[p], bk[p]) /\ bk' = LinkOut(bk, p, bk[p], fd[p])
      /\ corrupt' = FALSE /\ unlink_size(p)
  BY <1>2, <1>7 DEF unlink, LinkOut
<1>9. MainRing(fd', bk', RemoveAt(s, i))
  BY <1>2, <1>8
<1>10. RemoveAt(s, i) \in Seq(CHUNKS) /\ IsRemove(s, RemoveAt(s, i), i)
  BY <1>3, RemoveAtIs
<1>11. CASE fd_nextsize[heir] # NULL
  <2>1. i < Len(s) => SIZES[s[i + 1]] # SIZES[s[i]]
    <3> SUFFICES ASSUME i < Len(s) PROVE SIZES[s[i + 1]] # SIZES[s[i]]
      OBVIOUS
    <3>1. i + 1 \in 1 .. Len(s) /\ i # Len(s) /\ i < i + 1
      BY <1>3
    <3>2. heir = s[i + 1] /\ heir \in CHUNKS
      BY <1>3, <1>4, <3>1
    <3>3. PICK l \in 1 .. Len(z) : z[l] = s[i + 1]
      BY <1>1, <1>11, <3>2 DEF SizeRing, Among
    <3>4. PICK j \in 1 .. Len(s) : s[j] = z[l] /\ IsFirst(s, j)
      BY <1>1 DEF Bin
    <3>5. j = i + 1
      BY <1>3, <3>1, <3>3, <3>4 DEF Distinct
    <3>6. SIZES[s[i]] > SIZES[s[i + 1]]
      BY <3>1, <3>4, <3>5 DEF IsFirst
    <3> QED
      BY <1>3, <3>1, <3>6
  <2>2. SizeRing(LinkOut(fd_nextsize, p, next, prev), LinkOut(bk_nextsize, p, prev, next),
                 RemoveAt(z, k))
    BY <1>1, <1>5, SizeUnlink
  <2>3. /\ fd_nextsize' = LinkOut(fd_nextsize, p, next, prev)
        /\ bk_nextsize' = LinkOut(bk_nextsize, p, prev, next)
    BY <1>8, <1>11 DEF unlink_size, LinkOut
  <2>4. RemoveAt(z, k) \in Seq(CHUNKS) /\ IsRemove(z, RemoveAt(z, k), k)
    BY <1>3, RemoveAtIs
  <2>5. Bin(RemoveAt(s, i), RemoveAt(z, k))
    BY <1>1, <1>5, <1>6, <1>10, <2>1, <2>4, BinRemoveOnly
  <2> QED
    BY <1>8, <1>9, <2>2, <2>3, <2>5 DEF RingsAfter, RemovedAt
<1>12. CASE fd_nextsize[heir] = NULL
  <2>1. i # Len(s)
    BY <1>1, <1>4, <1>12, LargeBinAssumption DEF SizeRing
  <2>2. i + 1 \in 1 .. Len(s) /\ i < Len(s) /\ i < i + 1 /\ heir = s[i + 1] /\ heir \in CHUNKS
    BY <1>3, <1>4, <2>1
  <2>3. ~Among(z, heir)
    BY <1>1, <1>12, <2>2 DEF SizeRing
  <2>4. ~IsFirst(s, i + 1)
    BY <1>1, <2>2, <2>3 DEF Bin
  <2>5. SIZES[s[i + 1]] = SIZES[s[i]]
    <3>1. PICK j \in 1 .. Len(s) : j < i + 1 /\ ~(SIZES[s[j]] > SIZES[s[i + 1]])
      BY <2>4 DEF IsFirst
    <3>2. j = i \/ j < i
      BY <1>3, <3>1
    <3>3. j < i => SIZES[s[j]] >= SIZES[s[i]]
      BY <1>1 DEF Bin
    <3>4. SIZES[s[i]] >= SIZES[s[i + 1]]
      BY <1>1, <2>2 DEF Bin
    <3>5. SIZES[s[i]] \in Nat /\ SIZES[s[j]] \in Nat /\ SIZES[s[i + 1]] \in Nat
      BY <1>3, <2>2
    <3>6. SIZES[s[j]] >= SIZES[s[i]]
      BY <3>2, <3>3, <3>5
    <3> QED
      BY <3>1, <3>4, <3>5, <3>6
  <2> DEFINE y == [z EXCEPT ![k] = heir]
  <2>6. /\ y \in Seq(CHUNKS) /\ IsReplace(z, y, k, heir)
        /\ next # p => SizeRing(LinkOver(fd_nextsize, p, heir, next, prev),
                                LinkOver(bk_nextsize, p, heir, prev, next), y)
        /\ next = p => SizeRing([fd_nextsize EXCEPT ![heir] = heir, ![p] = NULL],
                                [bk_nextsize EXCEPT ![heir] = heir, ![p] = NULL], y)
    <3> HIDE DEF heir
    <3> QED
      BY <1>1, <1>5, <2>2, <2>3, SizeInherit
  <2>7. Bin(RemoveAt(s, i), y)
    <3> HIDE DEF y
    <3> QED
      BY <1>1, <1>5, <1>6, <1>10, <2>2, <2>5, <2>6, BinRemoveFirst
  <2>8. /\ next # p => /\ fd_nextsize' = LinkOver(fd_nextsize, p, heir, next, prev)
                       /\ bk_nextsize' = LinkOver(bk_nextsize, p, heir, prev, next)
        /\ next = p => /\ fd_nextsize' = [fd_nextsize EXCEPT ![heir] = heir, ![p] = NULL]
                       /\ bk_nextsize' = [bk_nextsize EXCEPT ![heir] = heir, ![p] = NULL]
    BY <1>8, <1>12 DEF unlink_size, LinkOver
  <2> HIDE DEF y, next, prev, heir
  <2>9. SizeRing(fd_nextsize', bk_nextsize', y)
    BY <2>6, <2>8
  <2> QED
    BY <1>8, <1>9, <2>7, <2>9 DEF RingsAfter, RemovedAt
<1> QED
  BY <1>11, <1>12

LEMMA UnlinkEffect ==
  ASSUME NEW s, NEW z, Rings(s, z), corrupt = FALSE, NEW p \in CHUNKS, unlink(p)
  PROVE  \E i \in 1 .. Len(s) : RemovedAt(s, i)
<1>1. PICK i \in 1 .. Len(s) : s[i] = p
  BY DEF unlink, Rings, MainRing, Among
<1> QED
  BY <1>1, UnlinkLater, UnlinkFirst

-----------------------------------------------------------------------------
(* The searches.                                                           *)

LEMMA GreatestNumber ==
  ASSUME NEW n \in Nat, NEW T, T \subseteq 1 .. n, T # {}
  PROVE  \E m \in T : \A x \in T : x <= m
<1> DEFINE U == { x \in 0 .. n : n - x \in T }
<1>1. U \subseteq Nat /\ U # {}
  <2>1. PICK t \in T : TRUE
    OBVIOUS
  <2>2. n - t \in 0 .. n
    BY <2>1
  <2>3. n - (n - t) = t
    BY <2>1
  <2>4. n - t \in U
    BY <2>1, <2>2, <2>3
  <2>5. U \subseteq Nat
    OBVIOUS
  <2> HIDE DEF U
  <2> QED
    BY <2>4, <2>5
<1>2. PICK u \in U : \A x \in U : u <= x
  <2> HIDE DEF U
  <2> QED
    BY <1>1, LeastNumber
<1>3. n - u \in T /\ u \in 0 .. n
  BY <1>2
<1>4. ASSUME NEW x \in T PROVE x <= n - u
  <2>1. x \in 1 .. n /\ n - x \in 0 .. n /\ n - (n - x) = x
    OBVIOUS
  <2>2. n - x \in U
    BY <2>1
  <2>3. u <= n - x
    BY <1>2, <2>2
  <2> QED
    BY <1>3, <2>1, <2>3
<1> QED
  BY <1>3, <1>4

\* The ring of sizes, searched from the smallest, finds the smallest first
\* that is long enough.
LEMMA SkipFinds ==
  ASSUME NEW s, NEW z, Rings(s, z), s # << >>, NEW nb \in Nat, SIZES[first] >= nb
  PROVE  \E m \in 1 .. Len(z) :
           /\ SIZES[z[m]] >= nb
           /\ \A k \in 1 .. Len(z) : SIZES[z[k]] >= nb => k <= m
           /\ skip_victim(nb) = IF z[m] # last /\ SIZES[z[m]] = SIZES[fd[z[m]]]
                                THEN fd[z[m]] ELSE z[m]
<1> DEFINE K == { k \in 1 .. Len(z) : SIZES[z[k]] >= nb }
           T == { i \in 1 .. Cardinality(CHUNKS) : SIZES[Follow(bk_nextsize, first, i)] >= nb }
<1>1. Bin(s, z) /\ z \in Seq(CHUNKS) /\ Distinct(z) /\ Ring(fd_nextsize, bk_nextsize, z)
  BY DEF Rings, SizeRing
<1>2. Len(z) \in Nat /\ \A k \in 1 .. Len(z) : SIZES[z[k]] \in Nat
  BY <1>1, BinNumbers
<1>3. first = z[1] /\ 1 \in 1 .. Len(z)
  BY Ends
<1>4. Len(z) <= Cardinality(CHUNKS) /\ Cardinality(CHUNKS) \in Nat
  BY <1>1, BinLength
<1>5. K \subseteq 1 .. Len(z) /\ K # {}
  BY <1>3
<1>6. PICK m \in K : \A x \in K : x <= m
  <2> HIDE DEF K
  <2> QED
    BY <1>2, <1>5, GreatestNumber
<1>7. m \in 1 .. Len(z) /\ SIZES[z[m]] >= nb
  BY <1>6
<1>8. \A k \in 1 .. Len(z) : SIZES[z[k]] >= nb => k <= m
  BY <1>6
<1> HIDE DEF K
<1> DEFINE n == Len(z) + 1 - m
<1>9. n \in 1 .. Len(z) /\ Len(z) + 1 - n = m
  BY <1>2, <1>7
<1>10. \A x \in 1 .. Len(z) : Follow(bk_nextsize, first, x) = z[Len(z) + 1 - x]
  BY <1>1, <1>3, FollowRingBack
<1> HIDE DEF n
<1>11. Min(T) = n
  <2>1. n \in T /\ T \subseteq Int
    BY <1>2, <1>4, <1>7, <1>9, <1>10
  <2>2. ASSUME NEW x \in T PROVE n <= x
    <3> SUFFICES ASSUME ~(n <= x) PROVE FALSE
      OBVIOUS
    <3>1. x \in 1 .. Len(z) /\ Len(z) + 1 - x \in 1 .. Len(z) /\ ~(Len(z) + 1 - x <= m)
      BY <1>2, <1>4, <1>7, <1>9
    <3>2. SIZES[z[Len(z) + 1 - x]] >= nb
      BY <1>10, <3>1
    <3> QED
      BY <1>8, <3>1, <3>2
  <2> HIDE DEF T
  <2> QED
    BY <2>1, <2>2, MinIs
<1>12. Follow(bk_nextsize, first, n) = z[m]
  BY <1>9, <1>10
<1>13. skip_victim(nb) = IF z[m] # last /\ SIZES[z[m]] = SIZES[fd[z[m]]] THEN fd[z[m]] ELSE z[m]
  BY <1>11, <1>12 DEF skip_victim
<1> QED
  BY <1>7, <1>8, <1>13

\* The search of the whole bin: g is the last that fits, j the first of its
\* size.
LEMMA WholeFinds ==
  ASSUME NEW s, NEW z, Rings(s, z), s # << >>, NEW nb \in NEEDS, SIZES[first] >= nb
  PROVE  \E g \in 1 .. Len(s), j \in 1 .. Len(s), k \in 1 .. Len(z) :
           /\ j <= g /\ SIZES[s[g]] >= nb /\ \A i \in 1 .. Len(s) : SIZES[s[i]] >= nb => i <= g
           /\ IsFirst(s, j) /\ SIZES[s[j]] = SIZES[s[g]] /\ s[j] = z[k]
           /\ large_victim(AsArena(s), nb) = IF j < g THEN s[j + 1] ELSE s[j]
<1> DEFINE fits == { i \in DOMAIN s : chunksize(AsArena(s), s[i]) >= nb }
           K == { i \in 1 .. Len(s) : SIZES[s[i]] >= nb }
<1>1. Bin(s, z) /\ s \in Seq(CHUNKS)
  BY DEF Rings, Bin
<1>2. /\ Len(s) \in Nat /\ \A i \in 1 .. Len(s) : s[i] \in CHUNKS /\ SIZES[s[i]] \in Nat
      /\ nb \in Nat
  BY <1>1, BinNumbers, LargeBinAssumption
<1>3. first = s[1] /\ 1 \in 1 .. Len(s) /\ first \in CHUNKS
  BY Ends
<1>4. DOMAIN s = 1 .. Len(s) /\ \A i \in 1 .. Len(s) : chunksize(AsArena(s), s[i]) = SIZES[s[i]]
  BY <1>1, ArenaSizes
<1>5. AsArena(s).bins[largebin_index(nb)] = s
  <2>1. largebin_index(SIZES[first]) = largebin_index(nb)
    BY <1>3, LargeBinAssumption
  <2>2. largebin_index(nb) \in { largebin_index(SIZES[p]) : p \in CHUNKS }
    BY <1>3, <2>1
  <2> QED
    BY <2>2 DEF AsArena
<1>6. fits = K
  BY <1>4
<1>7. PICK g \in K : \A x \in K : x <= g
  <2>1. K \subseteq 1 .. Len(s) /\ K # {}
    BY <1>3
  <2> HIDE DEF K
  <2> QED
    BY <1>2, <2>1, GreatestNumber
<1>8. /\ g \in 1 .. Len(s) /\ SIZES[s[g]] >= nb
      /\ \A i \in 1 .. Len(s) : SIZES[s[i]] >= nb => i <= g
  BY <1>7
<1>9. Max(K) = g
  <2>1. K \subseteq Int /\ \A x \in K : g >= x
    BY <1>2, <1>7
  <2> HIDE DEF K
  <2> QED
    BY <1>7, <2>1, MaxIs
<1>10. PICK j \in 1 .. Len(s), k \in 1 .. Len(z) :
         j <= g /\ IsFirst(s, j) /\ s[j] = z[k] /\ SIZES[s[j]] = SIZES[s[g]]
  BY <1>1, <1>8, SizeFirst
<1> DEFINE E == { i \in fits : chunksize(AsArena(s), s[i]) = SIZES[s[g]] }
<1>11. Min(E) = j
  <2>1. j \in E /\ E \subseteq Int
    BY <1>2, <1>4, <1>8, <1>10
  <2>2. ASSUME NEW x \in E PROVE j <= x
    <3> SUFFICES ASSUME ~(j <= x) PROVE FALSE
      OBVIOUS
    <3>1. x \in 1 .. Len(s) /\ SIZES[s[x]] = SIZES[s[g]] /\ x < j
      BY <1>2, <1>4
    <3>2. SIZES[s[x]] > SIZES[s[j]]
      BY <1>10, <3>1 DEF IsFirst
    <3> QED
      BY <1>2, <1>8, <1>10, <3>1, <3>2
  <2> HIDE DEF E
  <2> QED
    BY <2>1, <2>2, MinIs
<1>12. large_victim(AsArena(s), nb) = IF j < g THEN s[j + 1] ELSE s[j]
  <2>1. Max(fits) = g
    BY <1>6, <1>9
  <2>2. chunksize(AsArena(s), s[g]) = SIZES[s[g]]
    BY <1>4, <1>8
  <2> HIDE DEF K
  <2> QED
    BY <1>5, <1>11, <2>1, <2>2 DEF large_victim
<1> QED
  BY <1>8, <1>10, <1>12

\* Both find the same chunk, which is in the bin.
LEMMA SameVictim ==
  ASSUME NEW s, NEW z, Rings(s, z), s # << >>, NEW nb \in NEEDS, SIZES[first] >= nb
  PROVE  skip_victim(nb) = large_victim(AsArena(s), nb) /\ skip_victim(nb) \in CHUNKS
<1>1. Bin(s, z) /\ MainRing(fd, bk, s) /\ s \in Seq(CHUNKS) /\ Distinct(s) /\ nb \in Nat
  BY LargeBinAssumption DEF Rings, Bin
<1>2. /\ Len(s) \in Nat /\ \A i \in 1 .. Len(s) : s[i] \in CHUNKS /\ SIZES[s[i]] \in Nat
      /\ Len(z) \in Nat /\ \A i \in 1 .. Len(z) : z[i] \in CHUNKS /\ SIZES[z[i]] \in Nat
  BY <1>1, BinNumbers
<1>3. last = s[Len(s)] /\ Len(s) \in 1 .. Len(s)
  BY Ends
<1>4. PICK m \in 1 .. Len(z) :
           /\ SIZES[z[m]] >= nb
           /\ \A k \in 1 .. Len(z) : SIZES[z[k]] >= nb => k <= m
           /\ skip_victim(nb) = IF z[m] # last /\ SIZES[z[m]] = SIZES[fd[z[m]]]
                                THEN fd[z[m]] ELSE z[m]
  BY <1>1, SkipFinds
<1>5. PICK g \in 1 .. Len(s), j \in 1 .. Len(s), k \in 1 .. Len(z) :
           /\ j <= g /\ SIZES[s[g]] >= nb /\ \A i \in 1 .. Len(s) : SIZES[s[i]] >= nb => i <= g
           /\ IsFirst(s, j) /\ SIZES[s[j]] = SIZES[s[g]] /\ s[j] = z[k]
           /\ large_victim(AsArena(s), nb) = IF j < g THEN s[j + 1] ELSE s[j]
  BY WholeFinds
<1>6. z[m] = s[j]
  <2>1. k <= m
    BY <1>4, <1>5
  <2>2. PICK i \in 1 .. Len(s) : s[i] = z[m]
    BY <1>1 DEF Bin
  <2>3. i <= g
    BY <1>4, <1>5, <2>2
  <2>4. SIZES[z[m]] >= SIZES[z[k]]
    <3>1. i = g \/ i < g
      BY <1>2, <2>3
    <3>2. i < g => SIZES[s[i]] >= SIZES[s[g]]
      BY <1>1 DEF Bin
    <3>3. SIZES[s[i]] >= SIZES[s[g]]
      BY <1>2, <3>1, <3>2
    <3> QED
      BY <1>5, <2>2, <3>3
  <2>5. ~(k < m)
    <3>1. k < m => SIZES[z[k]] > SIZES[z[m]]
      BY <1>1 DEF Bin
    <3> QED
      BY <1>2, <2>4, <3>1
  <2> QED
    BY <1>5, <2>1, <2>5
<1>7. fd[s[j]] = IF j = Len(s) THEN BIN ELSE s[j + 1]
  BY <1>1, Neighbours
<1>8. s[j] # last <=> j # Len(s)
  BY <1>1, <1>2, <1>3 DEF Distinct
<1>9. CASE j < g
  <2>1. j # Len(s) /\ j + 1 \in 1 .. Len(s) /\ (j + 1 = g \/ j + 1 < g) /\ j < j + 1
    BY <1>2, <1>9
  <2>2. SIZES[s[j]] >= SIZES[s[j + 1]]
    BY <1>1, <2>1 DEF Bin
  <2>3. j + 1 < g => SIZES[s[j + 1]] >= SIZES[s[g]]
    BY <1>1, <2>1 DEF Bin
  <2>4. SIZES[s[j + 1]] = SIZES[s[j]]
    <3>1. SIZES[s[j]] \in Nat /\ SIZES[s[j + 1]] \in Nat /\ SIZES[s[g]] \in Nat
      BY <1>2, <2>1
    <3>2. SIZES[s[j + 1]] >= SIZES[s[g]]
      BY <2>1, <2>3, <3>1
    <3> QED
      BY <1>5, <2>2, <3>1, <3>2
  <2>5. skip_victim(nb) = s[j + 1]
    BY <1>4, <1>6, <1>7, <1>8, <2>1, <2>4
  <2> QED
    BY <1>2, <1>5, <1>9, <2>1, <2>5
<1>10. CASE ~(j < g)
  <2>1. j = g
    BY <1>2, <1>5, <1>10
  <2>2. j # Len(s) => SIZES[s[j + 1]] # SIZES[s[j]]
    <3> SUFFICES ASSUME j # Len(s), SIZES[s[j + 1]] = SIZES[s[j]] PROVE FALSE
      OBVIOUS
    <3>1. j + 1 \in 1 .. Len(s) /\ ~(j + 1 <= j)
      BY <1>2
    <3>2. SIZES[s[j + 1]] >= nb
      BY <1>5, <2>1
    <3> QED
      BY <1>5, <2>1, <3>1, <3>2
  <2>3. skip_victim(nb) = s[j]
    BY <1>4, <1>6, <1>7, <1>8, <2>2
  <2> QED
    BY <1>2, <1>5, <1>10, <2>3
<1> QED
  BY <1>9, <1>10

LEMMA FirstsInOrder ==
  ASSUME NEW s, NEW z, Bin(s, z),
         NEW i \in 1 .. Len(s), NEW k \in 1 .. Len(z), s[i] = z[k], IsFirst(s, i),
         NEW j \in 1 .. Len(s), NEW l \in 1 .. Len(z), s[j] = z[l], IsFirst(s, j)
  PROVE  i < j <=> k < l
<1>1. /\ Len(s) \in Nat /\ Len(z) \in Nat /\ SIZES[z[k]] \in Nat /\ SIZES[z[l]] \in Nat
      /\ Distinct(z)
  BY BinNumbers
<1>2. i < j => SIZES[z[k]] > SIZES[z[l]]
  BY DEF IsFirst
<1>3. j < i => SIZES[z[l]] > SIZES[z[k]]
  BY DEF IsFirst
<1>4. (k < l => SIZES[z[k]] > SIZES[z[l]]) /\ (l < k => SIZES[z[l]] > SIZES[z[k]])
  BY DEF Bin
<1>5. i = j => k = l
  BY <1>1 DEF Distinct
<1>6. (i < j \/ i = j \/ j < i) /\ (k < l \/ k = l \/ l < k)
  BY <1>1
<1>7. ASSUME i < j PROVE k < l
  BY <1>1, <1>2, <1>4, <1>6, <1>7
<1>8. ASSUME k < l PROVE i < j
  BY <1>1, <1>3, <1>4, <1>5, <1>6, <1>8
<1> QED
  BY <1>7, <1>8

\* The first of a size is the one behind another size.
LEMMA FirstIffChange ==
  ASSUME NEW s, NEW z, Bin(s, z), NEW i \in 1 .. Len(s)
  PROVE  IsFirst(s, i) <=> (i = 1 \/ SIZES[s[i - 1]] # SIZES[s[i]])
<1>1. Len(s) \in Nat /\ \A j \in 1 .. Len(s) : SIZES[s[j]] \in Nat
  BY BinNumbers
<1>2. CASE i = 1
  BY <1>1, <1>2 DEF IsFirst
<1>3. CASE i # 1
  <2>1. i - 1 \in 1 .. Len(s) /\ i - 1 < i
    BY <1>1, <1>3
  <2>2. SIZES[s[i - 1]] >= SIZES[s[i]] /\ SIZES[s[i - 1]] \in Nat /\ SIZES[s[i]] \in Nat
    BY <1>1, <2>1 DEF Bin
  <2>3. IsFirst(s, i) => SIZES[s[i - 1]] > SIZES[s[i]]
    BY <2>1 DEF IsFirst
  <2>4. ASSUME SIZES[s[i - 1]] # SIZES[s[i]], NEW j \in 1 .. Len(s), j < i
        PROVE  SIZES[s[j]] > SIZES[s[i]]
    <3>1. j = i - 1 \/ j < i - 1
      BY <1>1, <2>4
    <3>2. j < i - 1 => SIZES[s[j]] >= SIZES[s[i - 1]]
      BY <2>1 DEF Bin
    <3>3. SIZES[s[j]] \in Nat
      BY <1>1
    <3> QED
      BY <2>2, <2>4, <3>1, <3>2, <3>3
  <2>5. SIZES[s[i - 1]] # SIZES[s[i]] => IsFirst(s, i)
    BY <2>4 DEF IsFirst
  <2> QED
    BY <1>3, <2>2, <2>3, <2>5
<1> QED
  BY <1>2, <1>3

-----------------------------------------------------------------------------

LInv ==
  /\ corrupt = FALSE
  /\ \E s, z : Rings(s, z)

LEMMA FirstsOnRing ==
  ASSUME NEW s, NEW z, Rings(s, z), corrupt = FALSE, Walk = s
  PROVE  SizeRingIsFirsts
<1> DEFINE heads == { i \in DOMAIN s : i = 1 \/ SIZES[s[i - 1]] # SIZES[s[i]] }
           after(i) == IF i = Max(heads) THEN 1 ELSE Min({ j \in heads : j > i })
<1>1. /\ Bin(s, z) /\ SizeRing(fd_nextsize, bk_nextsize, z) /\ Ring(fd_nextsize, bk_nextsize, z)
      /\ s \in Seq(CHUNKS) /\ z \in Seq(CHUNKS) /\ DOMAIN s = 1 .. Len(s)
  <2>1. Bin(s, z) /\ SizeRing(fd_nextsize, bk_nextsize, z)
    BY DEF Rings
  <2>2. s \in Seq(CHUNKS)
    BY <2>1 DEF Bin
  <2>3. z \in Seq(CHUNKS) /\ Ring(fd_nextsize, bk_nextsize, z)
    BY <2>1 DEF SizeRing
  <2> QED
    BY <2>1, <2>2, <2>3
<1>2. /\ Len(s) \in Nat /\ \A i \in 1 .. Len(s) : s[i] \in CHUNKS
      /\ Len(z) \in Nat /\ \A i \in 1 .. Len(z) : z[i] \in CHUNKS
  BY <1>1, BinNumbers
<1>3. \A i : i \in heads <=> i \in 1 .. Len(s) /\ IsFirst(s, i)
  BY <1>1, FirstIffChange
<1> HIDE DEF heads
<1>4. heads \subseteq 1 .. Len(s) /\ heads \subseteq Int
  BY <1>2, <1>3
<1>5. ASSUME NEW i \in heads PROVE \E k \in 1 .. Len(z) : s[i] = z[k]
  BY <1>1, <1>3 DEF Bin, Among
<1>6. ASSUME NEW k \in 1 .. Len(z) PROVE \E i \in heads : s[i] = z[k]
  BY <1>1, <1>3 DEF Bin
<1>7. { p \in CHUNKS : fd_nextsize[p] # NULL } = { s[i] : i \in heads }
  <2>1. \A p \in CHUNKS : fd_nextsize[p] # NULL <=> Among(z, p)
    BY <1>1 DEF SizeRing
  <2>2. ASSUME NEW p, Among(z, p) PROVE p \in CHUNKS /\ p \in { s[i] : i \in heads }
    <3>1. PICK k \in 1 .. Len(z) : z[k] = p
      BY <2>2 DEF Among
    <3>2. PICK i \in heads : s[i] = z[k]
      BY <1>6
    <3> QED
      BY <1>2, <3>1, <3>2
  <2>3. ASSUME NEW i \in heads PROVE s[i] \in CHUNKS /\ Among(z, s[i])
    <3>1. PICK k \in 1 .. Len(z) : s[i] = z[k]
      BY <1>5
    <3> QED
      BY <1>2, <3>1 DEF Among
  <2> QED
    BY <2>1, <2>2, <2>3
<1>8. ASSUME NEW i \in heads
      PROVE  /\ fd_nextsize[s[i]] = s[after(i)]
             /\ bk_nextsize[s[after(i)]] = s[i]
  <2>1. PICK k \in 1 .. Len(z) : s[i] = z[k]
    BY <1>5
  <2>2. i \in 1 .. Len(s) /\ IsFirst(s, i)
    BY <1>3
  <2>3. \A x \in heads : \E l \in 1 .. Len(z) : s[x] = z[l] /\ (i < x <=> k < l)
    <3> TAKE x \in heads
    <3>1. PICK l \in 1 .. Len(z) : s[x] = z[l]
      BY <1>5
    <3>2. x \in 1 .. Len(s) /\ IsFirst(s, x)
      BY <1>3
    <3>3. i < x <=> k < l
      BY <1>1, <2>1, <2>2, <3>1, <3>2, FirstsInOrder
    <3> QED
      BY <3>1, <3>3
  <2>4. s[after(i)] = After(z, k)
    <3>1. CASE k = Len(z)
      <4>1. \A x \in heads : i >= x
        BY <1>2, <1>4, <2>3, <3>1
      <4>2. Max(heads) = i
        BY <1>4, <4>1, MaxIs
      <4>3. s # << >>
        BY <2>2
      <4>4. s[1] = z[1]
        BY <4>3, Ends
      <4> QED
        BY <3>1, <4>2, <4>4 DEF After
    <3>2. CASE k # Len(z)
      <4>1. k + 1 \in 1 .. Len(z) /\ k < k + 1
        BY <1>2, <3>2
      <4>2. PICK y \in heads : s[y] = z[k + 1]
        BY <1>6, <4>1
      <4>3. y \in 1 .. Len(s) /\ IsFirst(s, y)
        BY <1>3
      <4>4. i < y
        BY <1>1, <2>1, <2>2, <4>1, <4>2, <4>3, FirstsInOrder
      <4>5. i # Max(heads)
        <5>1. PICK m \in heads : \A x \in heads : x <= m
          BY <1>2, <1>4, GreatestNumber
        <5>2. Max(heads) = m
          <6>1. \A x \in heads : m >= x
            BY <1>4, <5>1
          <6> QED
            BY <1>4, <6>1, MaxIs
        <5> QED
          BY <1>4, <4>4, <5>1, <5>2
      <4> DEFINE T == { j \in heads : j > i }
      <4>6. Min(T) = y
        <5>1. y \in T /\ T \subseteq Int
          BY <1>4, <4>4
        <5>2. ASSUME NEW x \in T PROVE y <= x
          <6>1. x \in heads /\ x \in 1 .. Len(s) /\ IsFirst(s, x) /\ i < x
            BY <1>3, <1>4
          <6>2. PICK l \in 1 .. Len(z) : s[x] = z[l] /\ (i < x <=> k < l)
            BY <2>3, <6>1
          <6>3. ~(l < k + 1)
            BY <1>2, <6>1, <6>2
          <6>4. x < y <=> l < k + 1
            BY <1>1, <4>1, <4>2, <4>3, <6>1, <6>2, FirstsInOrder
          <6> QED
            BY <1>2, <4>3, <6>1, <6>3, <6>4
        <5> HIDE DEF T
        <5> QED
          BY <5>1, <5>2, MinIs
      <4> QED
        BY <3>2, <4>2, <4>5, <4>6 DEF After
    <3> QED
      BY <3>1, <3>2
  <2>5. fd_nextsize[z[k]] = After(z, k) /\ bk_nextsize[After(z, k)] = z[k]
    <3>1. \A l \in 1 .. Len(z) : /\ fd_nextsize[z[l]] = After(z, l)
                                 /\ bk_nextsize[z[l]] = IF l = 1 THEN z[Len(z)] ELSE z[l - 1]
      BY <1>1 DEF Ring, Before
    <3>2. CASE k = Len(z)
      <4>1. 1 \in 1 .. Len(z)
        BY <1>2
      <4> QED
        BY <3>1, <3>2, <4>1 DEF After
    <3>3. CASE k # Len(z)
      <4>1. k + 1 \in 1 .. Len(z) /\ k + 1 # 1 /\ (k + 1) - 1 = k
        BY <1>2, <3>3
      <4> QED
        BY <3>1, <3>3, <4>1 DEF After
    <3> QED
      BY <3>2, <3>3
  <2> QED
    BY <2>1, <2>4, <2>5
<1> QED
  BY <1>7, <1>8 DEF SizeRingIsFirsts, heads

\* Every step inserts a chunk where place_in_bin does or removes one.
LEMMA StepEffect ==
  ASSUME NEW s, NEW z, Rings(s, z), corrupt = FALSE, LNext
  PROVE  \/ \E p \in CHUNKS : ~Among(s, p) /\ PlacedAs(s, p)
         \/ \E i \in 1 .. Len(s) : RemovedAt(s, i)
<1>1. CASE \E p \in CHUNKS : place(p)
  BY <1>1, PlaceEffect
<1>2. CASE \E p \in CHUNKS : unlink(p)
  BY <1>2, UnlinkEffect
<1>3. CASE \E nb \in NEEDS : take(nb)
  <2>1. PICK nb \in NEEDS : take(nb)
    BY <1>3
  <2>2. s # << >> /\ SIZES[first] >= nb /\ unlink(skip_victim(nb))
    BY <2>1, Ends DEF take
  <2>3. skip_victim(nb) \in CHUNKS
    BY <2>2, SameVictim
  <2> QED
    BY <2>2, <2>3, UnlinkEffect
<1> QED
  BY <1>1, <1>2, <1>3 DEF LNext

LEMMA WalkIs ==
  ASSUME NEW s, NEW z, Rings(s, z)
  PROVE  Walk = s
<1>1. WalkAlong(fd) = s
  BY WalkAlongIs DEF Rings
<1> QED
  BY <1>1 DEF Walk, WalkAlong

LEMMA WalkIsAfter ==
  ASSUME NEW s, NEW z, RingsAfter(s, z)
  PROVE  Walk' = s
<1>1. WalkAlong(fd') = s
  BY WalkAlongIs DEF RingsAfter
<1> QED
  BY <1>1 DEF Walk, WalkAlong

LEMMA LInvInit == LInit => LInv
<1> SUFFICES ASSUME LInit PROVE LInv
  OBVIOUS
<1> DEFINE s == << >>
<1>1. s \in Seq(CHUNKS) /\ Len(s) = 0 /\ Distinct(s) /\ \A p : ~Among(s, p)
  BY DEF Distinct, Among
<1>2. Bin(s, s)
  BY <1>1 DEF Bin
<1>3. /\ DOMAIN fd = Nodes /\ fd[BIN] = BIN /\ \A p \in CHUNKS : fd[p] = NULL
      /\ bk = fd
  BY NodesNumber DEF LInit
<1>4. /\ DOMAIN fd_nextsize = Nodes /\ fd_nextsize[BIN] = ALIAS
      /\ \A p \in CHUNKS : fd_nextsize[p] = NULL
      /\ bk_nextsize = fd_nextsize
  BY NodesNumber DEF LInit
<1> HIDE DEF s
<1>5. Len(Binned(s)) = 1 /\ Binned(s)[1] = BIN
  <2>1. s \in Seq(CHUNKS) /\ Len(s) = 0
    BY <1>1
  <2>2. Len(Binned(s)) = Len(s) + 1 /\ Binned(s)[1] = BIN
    BY <2>1, BinnedIs
  <2> QED
    BY <2>1, <2>2
<1>6. Ring(fd, bk, Binned(s))
  BY <1>3, <1>5 DEF Ring, After, Before
<1>7. MainRing(fd, bk, s)
  BY <1>1, <1>3, <1>6 DEF MainRing
<1>8. SizeRing(fd_nextsize, bk_nextsize, s)
  BY <1>1, <1>4 DEF SizeRing, Ring
<1>9. corrupt = FALSE
  BY DEF LInit
<1> QED
  BY <1>2, <1>7, <1>8, <1>9 DEF LInv, Rings

LEMMA LInvNext == LInv /\ [LNext]_lvars => LInv'
<1> SUFFICES ASSUME LInv, [LNext]_lvars PROVE LInv'
  OBVIOUS
<1>1. PICK s, z : Rings(s, z)
  BY DEF LInv
<1>2. corrupt = FALSE
  BY DEF LInv
<1>3. ASSUME NEW d, NEW y, RingsAfter(d, y), corrupt' = FALSE PROVE LInv'
  BY <1>3 DEF RingsAfter, LInv, Rings
<1>4. CASE LNext
  BY <1>1, <1>2, <1>3, <1>4, StepEffect DEF PlacedAs, RemovedAt
<1>5. CASE UNCHANGED lvars
  <2>1. RingsAfter(s, z) /\ corrupt' = FALSE
    BY <1>1, <1>2, <1>5 DEF lvars, Rings, RingsAfter
  <2> QED
    BY <1>3, <2>1
<1> QED
  BY <1>4, <1>5

(***************************************************************************)
(* After any insertions and removals the links make two rings, one of the  *)
(* bin and its chunks by falling size, one of the first of each size.      *)
(***************************************************************************)
THEOREM LargeBinInv == LSpec => []LInv
<1> QED
  BY LInvInit, LInvNext, PTL DEF LSpec

\* The ring of sizes has exactly the first of each size.
THEOREM RingHasFirsts == LSpec => []SizeRingIsFirsts
<1>1. LInv => SizeRingIsFirsts
  <2> SUFFICES ASSUME LInv PROVE SizeRingIsFirsts
    OBVIOUS
  <2>1. PICK s, z : Rings(s, z)
    BY DEF LInv
  <2>2. Walk = s
    BY <2>1, WalkIs
  <2> QED
    BY <2>1, <2>2, FirstsOnRing DEF LInv
<1> QED
  BY <1>1, LargeBinInv, PTL

\* The search along the ring of sizes is the search of the whole bin.
THEOREM SkipSearchFinds == LSpec => []SkipSearchIsBestFit
<1>1. LInv => SkipSearchIsBestFit
  <2> SUFFICES ASSUME LInv, NEW nb \in NEEDS, first # BIN, SIZES[first] >= nb
               PROVE  skip_victim(nb) = large_victim(AsArena(Walk), nb)
    BY DEF SkipSearchIsBestFit
  <2>1. PICK s, z : Rings(s, z)
    BY DEF LInv
  <2>2. Walk = s
    BY <2>1, WalkIs
  <2>3. s # << >>
    BY <2>1, Ends
  <2> QED
    BY <2>1, <2>2, <2>3, SameVictim
<1> QED
  BY <1>1, LargeBinInv, PTL

\* What the links do is what place_in_bin and unlink_chunk do to a sequence.
THEOREM LinksAreSequence == LSpec => PlacesAndUnlinksAsSequence
<1> DEFINE A == LET old == Walk
                    new == Walk'
                IN  \/ \E p \in CHUNKS \ ToSet(old) :
                         new = InsertAt(old, large_position(AsArena(old), old, SIZES[p]), p)
                    \/ \E i \in DOMAIN old : new = RemoveAt(old, i)
<1>1. LInv /\ [LNext]_lvars => [A]_lvars
  <2> SUFFICES ASSUME LInv, LNext PROVE A
    OBVIOUS
  <2>1. PICK s, z : Rings(s, z)
    BY DEF LInv
  <2>2. Walk = s /\ corrupt = FALSE /\ s \in Seq(CHUNKS) /\ DOMAIN s = 1 .. Len(s)
    <3>1. s \in Seq(CHUNKS)
      BY <2>1 DEF Rings, Bin
    <3> QED
      BY <2>1, <3>1, WalkIs DEF LInv
  <2>3. CASE \E p \in CHUNKS : ~Among(s, p) /\ PlacedAs(s, p)
    <3>1. PICK p \in CHUNKS : ~Among(s, p) /\ PlacedAs(s, p)
      BY <2>3
    <3>2. p \in CHUNKS \ ToSet(s)
      BY <2>2, <3>1 DEF Among, ToSet
    <3>3. Walk' = InsertAt(s, Position(s, p), p)
      BY <3>1, WalkIsAfter DEF PlacedAs
    <3> QED
      BY <2>2, <3>2, <3>3 DEF Position
  <2>4. CASE \E i \in 1 .. Len(s) : RemovedAt(s, i)
    <3>1. PICK i \in 1 .. Len(s) : RemovedAt(s, i)
      BY <2>4
    <3>2. Walk' = RemoveAt(s, i)
      BY <3>1, WalkIsAfter DEF RemovedAt
    <3> QED
      BY <2>2, <3>2
  <2> QED
    BY <2>1, <2>2, <2>3, <2>4, StepEffect
<1> QED
  BY <1>1, LargeBinInv, PTL DEF LSpec, PlacesAndUnlinksAsSequence
=============================================================================
