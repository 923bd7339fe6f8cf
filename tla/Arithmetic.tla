----------------------------- MODULE Arithmetic -----------------------------
(***************************************************************************)
(* Least numbers, sums of functions over finite sets, and division.  The   *)
(* sums are by induction over subsets: a counterexample of least           *)
(* cardinality does not exist.                                             *)
(***************************************************************************)
EXTENDS Integers, Functions, FiniteSetTheorems, WellFoundedInduction, TLAPS

\* A set of numbers that is not empty has a least one.
LEMMA LeastNumber ==
  ASSUME NEW T, T \subseteq Nat, T # {}
  PROVE  \E n \in T : \A m \in T : n <= m
  <1>1. PICK n \in T : \A m \in T : <<m, n>> \notin OpToRel(<, Nat)
    BY NatLessThanWellFounded, WFMin
  <1>2. \A m \in T : ~(m < n)
    BY <1>1 DEF OpToRel
  <1> QED
    BY <1>2

\* g sums f over subsets, beginning with any of their members.
AnyOf(s) == CHOOSE x \in s : TRUE
Summing(f, S, g) ==
  [s \in SUBSET S |-> IF s = {} THEN 0 ELSE f[AnyOf(s)] + g[s \ {AnyOf(s)}]]

\* SumFunction is the last value of such a g.
LEMMA SumFunctionIs ==
  ASSUME NEW f
  PROVE  SumFunction(f) = (CHOOSE g : g = Summing(f, DOMAIN f, g))[DOMAIN f]
  BY DEF SumFunction, SumFunctionOnSet, FoldFunctionOnSet, MapThenFoldSet, Summing, AnyOf

\* There is one: it exists for the subsets of at most k members, for every k.
LEMMA SummingExists ==
  ASSUME NEW f, NEW S, IsFiniteSet(S)
  PROVE  \E g : g = Summing(f, S, g)
  <1> DEFINE Upto(k) == { s \in SUBSET S : Cardinality(s) <= k }
             Value(s, g) == IF s = {} THEN 0 ELSE f[AnyOf(s)] + g[s \ {AnyOf(s)}]
             Solved(k) == \E g : g = [s \in Upto(k) |-> Value(s, g)]
             T == { k \in Nat : ~Solved(k) }
  <1>1. \A s \in SUBSET S : /\ IsFiniteSet(s) /\ Cardinality(s) \in Nat
                            /\ Cardinality(s) <= Cardinality(S)
                            /\ Cardinality(s) = 0 => s = {}
    BY FS_Subset, FS_CardinalityType, FS_EmptySet
  <1>2. \A s \in SUBSET S : s # {} =>
          /\ AnyOf(s) \in s
          /\ s \ {AnyOf(s)} \in SUBSET S /\ Cardinality(s \ {AnyOf(s)}) = Cardinality(s) - 1
    BY <1>1, FS_RemoveElement DEF AnyOf
  <1>3. Solved(0)
    <2> DEFINE g == [s \in Upto(0) |-> 0]
    <2>1. \A s \in Upto(0) : s = {}
      BY <1>1
    <2>2. g = [s \in Upto(0) |-> Value(s, g)]
      <3> HIDE DEF Upto
      <3> QED
        BY <2>1
    <2> QED
      BY <2>2
  <1>4. ASSUME NEW k \in Nat, k # 0, Solved(k - 1)
        PROVE  Solved(k)
    <2>1. PICK h : h = [s \in Upto(k - 1) |-> Value(s, h)]
      BY <1>4
    <2> DEFINE g == [s \in Upto(k) |-> Value(s, h)]
    <2>2. \A s \in Upto(k - 1) : s \in Upto(k) /\ g[s] = h[s]
      <3>1. \A s \in Upto(k - 1) : s \in Upto(k)
        BY <1>1, <1>4
      <3> HIDE DEF Upto, Value
      <3> QED
        BY <2>1, <3>1
    <2>3. \A s \in Upto(k) : s # {} => s \ {AnyOf(s)} \in Upto(k - 1)
      BY <1>1, <1>2, <1>4
    <2>4. \A s \in Upto(k) : Value(s, h) = Value(s, g)
      <3> HIDE DEF Upto, g
      <3> QED
        BY <2>2, <2>3
    <2>5. g = [s \in Upto(k) |-> Value(s, g)]
      <3> HIDE DEF Upto, Value
      <3> QED
        BY <2>4
    <2> HIDE DEF g
    <2> QED
      BY <2>5
  <1>5. T = {}
    <2> HIDE DEF Solved
    <2> SUFFICES ASSUME T # {} PROVE FALSE
      OBVIOUS
    <2>1. PICK k \in T : \A m \in T : k <= m
      BY LeastNumber
    <2>2. k \in Nat /\ k # 0 /\ ~Solved(k)
      BY <1>3
    <2>3. k - 1 \in Nat /\ Solved(k - 1)
      BY <2>1, <2>2
    <2> QED
      BY <1>4, <2>2, <2>3
  <1>6. Cardinality(S) \in Nat
    BY FS_CardinalityType
  <1>7. Upto(Cardinality(S)) = SUBSET S
    BY <1>1
  <1>8. PICK g : g = [s \in Upto(Cardinality(S)) |-> Value(s, g)]
    <2>1. Solved(Cardinality(S))
      <3> HIDE DEF Solved
      <3> QED
        BY <1>5, <1>6
    <2> QED
      BY <2>1
  <1>9. g = [s \in SUBSET S |-> Value(s, g)]
    <2> HIDE DEF Upto, Value
    <2> QED
      BY <1>7, <1>8
  <1> QED
    BY <1>9 DEF Summing

\* What a sum is, whatever member it begins with.
Sums(f, S, g) ==
  /\ g \in [SUBSET S -> Int] /\ g[{}] = 0
  /\ \A s \in SUBSET S : \A x \in s : g[s] = f[x] + g[s \ {x}]

LEMMA SummingSums ==
  ASSUME NEW S, IsFiniteSet(S), NEW f \in [S -> Int], NEW g, g = Summing(f, S, g)
  PROVE  Sums(f, S, g)
  <1>1. \A s \in SUBSET S : IsFiniteSet(s) /\ Cardinality(s) \in Nat
    BY FS_Subset, FS_CardinalityType
  <1>2. DOMAIN g = SUBSET S
    BY DEF Summing
  <1>3. \A s \in SUBSET S : g[s] = IF s = {} THEN 0 ELSE f[AnyOf(s)] + g[s \ {AnyOf(s)}]
    <2>1. \A s \in SUBSET S : Summing(f, S, g)[s] = IF s = {} THEN 0 ELSE f[AnyOf(s)] + g[s \ {AnyOf(s)}]
      BY DEF Summing
    <2> QED
      BY <2>1
  <1>4. g[{}] = 0
    <2>1. g[{}] = IF {} = {} THEN 0 ELSE f[AnyOf({})] + g[{} \ {AnyOf({})}]
      BY <1>3
    <2> QED
      BY <2>1
  <1>5. \A s \in SUBSET S : \A x \in s : /\ s \ {x} \in SUBSET S
                                         /\ Cardinality(s \ {x}) < Cardinality(s)
    <2> SUFFICES ASSUME NEW s \in SUBSET S, NEW x \in s
                 PROVE  Cardinality(s \ {x}) < Cardinality(s)
      OBVIOUS
    <2>1. IsFiniteSet(s) /\ Cardinality(s) \in Nat
      BY <1>1
    <2>2. Cardinality(s \ {x}) = Cardinality(s) - 1
      BY <2>1, FS_RemoveElement
    <2> QED
      BY <2>1, <2>2
  <1> DEFINE Good(s) == g[s] \in Int /\ \A x \in s : g[s] = f[x] + g[s \ {x}]
             T == { Cardinality(s) : s \in { r \in SUBSET S : ~Good(r) } }
  <1>6. ASSUME NEW s \in SUBSET S, \A r \in SUBSET S : Cardinality(r) < Cardinality(s) => Good(r)
        PROVE  Good(s)
    <2>1. CASE s = {}
      BY <1>4, <2>1
    <2>2. CASE s # {}
      <3> DEFINE c == AnyOf(s)
      <3>1. c \in s /\ g[s] = f[c] + g[s \ {c}] /\ f[c] \in Int
        BY <1>3, <2>2 DEF AnyOf
      <3>2. \A x \in s : Good(s \ {x})
        <4> HIDE DEF Good
        <4> QED
          BY <1>5, <1>6
      <3>3. \A x \in s : g[s \ {x}] \in Int /\ \A y \in s \ {x} : g[s \ {x}] = f[y] + g[(s \ {x}) \ {y}]
        BY <3>2
      <3> HIDE DEF c
      <3>4. ASSUME NEW x \in s
            PROVE  g[s] = f[x] + g[s \ {x}]
        <4>1. CASE x = c
          BY <3>1, <4>1
        <4>2. CASE x # c
          <5>1. c \in s \ {x} /\ x \in s \ {c} /\ (s \ {x}) \ {c} = (s \ {c}) \ {x}
            BY <3>1, <4>2
          <5> DEFINE rest == g[(s \ {c}) \ {x}]
          <5>2. g[s \ {x}] = f[c] + rest /\ g[s \ {c}] = f[x] + rest
            BY <3>1, <3>3, <5>1
          <5>3. rest \in Int
            <6>1. Good((s \ {c}) \ {x})
              <7>1. (s \ {c}) \ {x} \in SUBSET S
                OBVIOUS
              <7>2. Cardinality((s \ {c}) \ {x}) < Cardinality(s)
                <8>1. Cardinality((s \ {c}) \ {x}) < Cardinality(s \ {c})
                  BY <1>5, <5>1
                <8>2. Cardinality(s \ {c}) < Cardinality(s) /\ Cardinality(s \ {c}) \in Nat
                  BY <1>1, <1>5, <3>1
                <8>3. Cardinality(s) \in Nat /\ Cardinality((s \ {c}) \ {x}) \in Nat
                  BY <1>1
                <8> QED
                  BY <8>1, <8>2, <8>3
              <7> HIDE DEF Good
              <7> QED
                BY <1>6, <7>1, <7>2
            <6> QED
              BY <6>1
          <5>4. f[x] \in Int
            OBVIOUS
          <5> HIDE DEF rest
          <5> QED
            BY <3>1, <5>2, <5>3, <5>4
        <4> QED
          BY <4>1, <4>2
      <3>5. g[s] \in Int
        <4>1. g[s \ {c}] \in Int /\ f[c] \in Int
          BY <3>1, <3>3
        <4> HIDE DEF Good
        <4> QED
          BY <3>1, <4>1
      <3> HIDE DEF AnyOf
      <3> QED
        BY <3>4, <3>5
    <2> QED
      BY <2>1, <2>2
  <1>7. \A s \in SUBSET S : Good(s)
    <2> HIDE DEF Good
    <2> SUFFICES ASSUME NEW r \in SUBSET S, ~Good(r) PROVE FALSE
      OBVIOUS
    <2>1. T \subseteq Nat /\ T # {}
      BY <1>1
    <2>2. PICK n \in T : \A m \in T : n <= m
      <3> HIDE DEF T
      <3> QED
        BY <2>1, LeastNumber
    <2>3. PICK s \in SUBSET S : ~Good(s) /\ n = Cardinality(s)
      OBVIOUS
    <2>4. \A q \in SUBSET S : Cardinality(q) < Cardinality(s) => Good(q)
      BY <1>1, <2>2, <2>3
    <2> QED
      BY <1>6, <2>3, <2>4
  <1>8. g \in [SUBSET S -> Int]
    <2>1. g = [s \in SUBSET S |-> g[s]]
      BY <1>2 DEF Summing
    <2> QED
      BY <1>7, <2>1
  <1> QED
    BY <1>4, <1>7, <1>8 DEF Sums

\* The sum that SumFunction gives.
LEMMA SumFunctionSums ==
  ASSUME NEW S, IsFiniteSet(S), NEW f \in [S -> Int]
  PROVE  \E g : Sums(f, S, g) /\ SumFunction(f) = g[S]
  <1> DEFINE g == CHOOSE g : g = Summing(f, S, g)
  <1>1. g = Summing(f, S, g)
    BY SummingExists
  <1>2. DOMAIN f = S
    OBVIOUS
  <1>3. SumFunction(f) = g[S]
    BY <1>2, SumFunctionIs
  <1> HIDE DEF g
  <1> QED
    BY <1>1, <1>3, SummingSums

\* A sum is a number, of zeros 0.
LEMMA SumType ==
  ASSUME NEW S, IsFiniteSet(S), NEW f \in [S -> Int]
  PROVE  SumFunction(f) \in Int
  <1>1. PICK g : Sums(f, S, g) /\ SumFunction(f) = g[S]
    BY SumFunctionSums
  <1> QED
    BY <1>1 DEF Sums

\* Two functions that agree on a set have the same sum there.
LEMMA SumsAgree ==
  ASSUME NEW S, IsFiniteSet(S), NEW f, NEW h, NEW g, NEW k, Sums(f, S, g), Sums(h, S, k),
         NEW R \in SUBSET S, \A x \in R : f[x] = h[x]
  PROVE  g[R] = k[R]
  <1> DEFINE T == { Cardinality(r) : r \in { s \in SUBSET R : g[s] # k[s] } }
  <1>1. \A s \in SUBSET R : s \in SUBSET S /\ IsFiniteSet(s) /\ Cardinality(s) \in Nat
    BY FS_Subset, FS_CardinalityType
  <1> SUFFICES ASSUME g[R] # k[R] PROVE FALSE
    OBVIOUS
  <1>2. T \subseteq Nat /\ T # {}
    BY <1>1
  <1>3. PICK n \in T : \A m \in T : n <= m
    <2> HIDE DEF T
    <2> QED
      BY <1>2, LeastNumber
  <1>4. PICK s \in SUBSET R : g[s] # k[s] /\ n = Cardinality(s)
    OBVIOUS
  <1>5. s # {}
    BY <1>4 DEF Sums
  <1>6. PICK x \in s : TRUE
    BY <1>5
  <1>7. s \ {x} \in SUBSET R /\ Cardinality(s \ {x}) < Cardinality(s) /\ Cardinality(s \ {x}) \in Nat
    BY <1>1, FS_RemoveElement
  <1>8. g[s \ {x}] = k[s \ {x}]
    <2>1. ~(n <= Cardinality(s \ {x}))
      BY <1>1, <1>4, <1>7
    <2>2. Cardinality(s \ {x}) \notin T
      BY <1>3, <2>1
    <2> QED
      BY <1>7, <2>2
  <1>9. g[s] = f[x] + g[s \ {x}] /\ k[s] = h[x] + k[s \ {x}]
    BY <1>1 DEF Sums
  <1> QED
    BY <1>4, <1>8, <1>9

\* Where one value changes, the sum changes by the difference.
LEMMA SumChanges ==
  ASSUME NEW S, IsFiniteSet(S), NEW f \in [S -> Int], NEW h \in [S -> Int], NEW x \in S,
         \A y \in S : y # x => h[y] = f[y]
  PROVE  SumFunction(h) = SumFunction(f) - f[x] + h[x]
  <1>1. PICK g : Sums(f, S, g) /\ SumFunction(f) = g[S]
    BY SumFunctionSums
  <1>2. PICK k : Sums(h, S, k) /\ SumFunction(h) = k[S]
    BY SumFunctionSums
  <1>3. S \in SUBSET S /\ S \ {x} \in SUBSET S
    OBVIOUS
  <1>4. g[S] = f[x] + g[S \ {x}] /\ k[S] = h[x] + k[S \ {x}]
    BY <1>1, <1>2, <1>3 DEF Sums
  <1>5. g[S \ {x}] = k[S \ {x}]
    BY <1>1, <1>2, <1>3, SumsAgree
  <1>6. f[x] \in Int /\ h[x] \in Int /\ g[S \ {x}] \in Int
    BY <1>1, <1>3 DEF Sums
  <1> QED
    BY <1>1, <1>2, <1>4, <1>5, <1>6

\* Zeros sum up to 0.
LEMMA SumOfZeros ==
  ASSUME NEW S, IsFiniteSet(S), NEW f \in [S -> Int], \A x \in S : f[x] = 0
  PROVE  SumFunction(f) = 0
  <1>1. PICK g : Sums(f, S, g) /\ SumFunction(f) = g[S]
    BY SumFunctionSums
  <1> DEFINE z == [s \in SUBSET S |-> 0]
  <1>2. Sums(f, S, z)
    BY DEF Sums
  <1> HIDE DEF z
  <1>3. g[S] = z[S]
    BY <1>1, <1>2, SumsAgree
  <1> QED
    BY <1>1, <1>3 DEF z

-----------------------------------------------------------------------------
(* Division.                                                               *)

\* A number is a multiple, and less than one more.
LEMMA Division ==
  ASSUME NEW d \in Nat \ {0}, NEW n \in Int
  PROVE  n % d \in 0 .. d - 1 /\ \E k \in Int : n = d * k + (n % d)
  <1>1. n % d \in 0 .. d - 1
    OBVIOUS
  <1> DEFINE q == n \div d
             r == n % d
  <1>2. q \in Int /\ r \in Int
    OBVIOUS
  <1>3. r = n - d * q
    OBVIOUS
  <1> HIDE DEF q, r
  <1>4. n = d * q + r
    BY <1>2, <1>3
  <1>5. \E k \in Int : n = d * k + r
    BY <1>2, <1>4
  <1> QED
    BY <1>1, <1>5 DEF r

\* What is left of a multiple and a rest is the rest.
LEMMA RestIs ==
  ASSUME NEW d \in Nat \ {0}, NEW k \in Int, NEW r \in 0 .. d - 1
  PROVE  (d * k + r) % d = r
  <1> DEFINE x == d * k + r
             y == x % d
  <1>1. x \in Int
    OBVIOUS
  <1> HIDE DEF x
  <1>2. y \in 0 .. d - 1 /\ \E q \in Int : x = d * q + y
    BY <1>1, Division
  <1> HIDE DEF y
  <1>3. PICK q \in Int : d * k + r = d * q + y
    BY <1>2 DEF x
  <1> DEFINE e == k - q
  <1>4. e \in Int /\ d * e = y - r
    BY <1>2, <1>3
  <1> HIDE DEF e
  <1>5. d * e < d /\ d * e > -d
    BY <1>2, <1>4
  <1>6. e = 0
    BY <1>4, <1>5
  <1>7. y = r
    BY <1>2, <1>4, <1>6
  <1> QED
    BY <1>7 DEF x, y

\* No rest is left of multiples, and of nothing else.
LEMMA Divides ==
  ASSUME NEW d \in Nat \ {0}, NEW n \in Int
  PROVE  n % d = 0 <=> \E k \in Int : n = d * k
  <1>1. n % d = 0 => n = d * (n \div d)
    OBVIOUS
  <1>2. n \div d \in Int
    OBVIOUS
  <1>3. \A k \in Int : (d * k) % d = 0
    OBVIOUS
  <1> QED
    BY <1>1, <1>2, <1>3

\* Sums and differences of multiples are multiples.
LEMMA SumOfMultiples ==
  ASSUME NEW d \in Nat \ {0}, NEW m \in Int, NEW n \in Int, m % d = 0, n % d = 0
  PROVE  (m + n) % d = 0 /\ (m - n) % d = 0
  <1>1. PICK j \in Int : m = d * j
    BY Divides
  <1>2. PICK k \in Int : n = d * k
    BY Divides
  <1>3. m + n = d * (j + k) /\ m - n = d * (j - k)
    BY <1>1, <1>2
  <1>4. j + k \in Int /\ j - k \in Int /\ m + n \in Int /\ m - n \in Int
    OBVIOUS
  <1> QED
    BY <1>3, <1>4, Divides

\* So are multiples of multiples.
LEMMA MultipleOfMultiple ==
  ASSUME NEW d \in Nat \ {0}, NEW e \in Nat \ {0}, NEW n \in Int, n % e = 0, e % d = 0
  PROVE  n % d = 0
  <1>1. PICK j \in Int : n = e * j
    BY Divides
  <1>2. PICK k \in Int : e = d * k
    BY Divides
  <1>3. n = d * (k * j) /\ k * j \in Int
    BY <1>1, <1>2
  <1> QED
    BY <1>3, Divides

\* A multiple makes no difference to the rest.
LEMMA SameRest ==
  ASSUME NEW d \in Nat \ {0}, NEW m \in Int, NEW n \in Int, m % d = 0
  PROVE  (m + n) % d = n % d
  <1>1. PICK j \in Int : m = d * j
    BY Divides
  <1> DEFINE r == n % d
  <1>2. r \in 0 .. d - 1 /\ \E k \in Int : n = d * k + r
    BY Division
  <1> HIDE DEF r
  <1>3. PICK k \in Int : n = d * k + r
    BY <1>2
  <1>4. m + n = d * (j + k) + r /\ j + k \in Int
    BY <1>1, <1>2, <1>3
  <1>5. (m + n) % d = r
    BY <1>2, <1>4, RestIs
  <1> QED
    BY <1>5 DEF r
=============================================================================
