---------------------------- MODULE PythonBasics ----------------------------
(***************************************************************************)
(* What the scripts use of Python throughout, and what the proofs need of  *)
(* it: list.sort(), the first and the last of a list, sum() and //.        *)
(***************************************************************************)
EXTENDS Integers, FiniteSets, FiniteSetsExt, FiniteSetTheorems, WellFoundedInduction, TLAPS

\* Of a list whose order is known a member stands behind as many others as come
\* before it.  Before is the order, as the pairs of an earlier and a later member.
Earlier(S, Before, x) == {y \in S : <<y, x>> \in Before}

Sorted(S, Before) ==
    [k \in 1 .. Cardinality(S) |->
        CHOOSE x \in S : Cardinality(Earlier(S, Before, x)) = k - 1]

IsOrder(S, Before) ==
    /\ \A x \in S : <<x, x>> \notin Before
    /\ \A x, y, z \in S : <<x, y>> \in Before /\ <<y, z>> \in Before => <<x, z>> \in Before
    /\ \A x, y \in S : x = y \/ <<x, y>> \in Before \/ <<y, x>> \in Before

-----------------------------------------------------------------------------
\* a // d
LEMMA Quotient ==
    ASSUME NEW a \in Int, NEW d \in Nat \ {0}
    PROVE  a \div d \in Int /\ d * (a \div d) <= a /\ a < d * (a \div d) + d
  OBVIOUS

LEMMA ProductGrows ==
    ASSUME NEW d \in Nat, NEW x \in Int, NEW y \in Int, x <= y
    PROVE  d * x <= d * y
  OBVIOUS

LEMMA QuotientGrows ==
    ASSUME NEW a \in Int, NEW b \in Int, a <= b, NEW d \in Nat \ {0}
    PROVE  a \div d <= b \div d
  <1> DEFINE p == a \div d
             q == b \div d
  <1>1. p \in Int /\ q \in Int /\ d * p <= a /\ b < d * q + d
    BY Quotient
  <1> HIDE DEF p, q
  <1>2. ASSUME q + 1 <= p PROVE FALSE
    <2>1. d * (q + 1) <= d * p
      BY <1>1, <1>2, ProductGrows
    <2>2. d * (q + 1) = d * q + d
      BY <1>1
    <2>3. d * q \in Int /\ d * p \in Int
      BY <1>1
    <2> QED
      BY <1>1, <2>1, <2>2, <2>3
  <1> QED
    BY <1>1, <1>2 DEF p, q

LEMMA QuotientNat ==
    ASSUME NEW a \in Nat, NEW d \in Nat \ {0}
    PROVE  a \div d \in Nat
  OBVIOUS

\* The first and the last place of a list.
LEMMA FirstPlace ==
    ASSUME NEW S \in SUBSET Nat, S # {}
    PROVE  Min(S) \in S /\ \A i \in S : Min(S) <= i
  <1> DEFINE R == OpToRel(<, Nat)
  <1>1. IsWellFoundedOn(R, Nat)
    BY NatLessThanWellFounded
  <1>2. \A x, y \in Nat : <<y, x>> \in R <=> y < x
    BY DEF OpToRel
  <1> HIDE DEF R
  <1>3. PICK x \in S : \A y \in S : ~ (<<y, x>> \in R)
    BY <1>1, WFMin
  <1>4. \A y \in S : ~ (y < x)
    BY <1>2, <1>3, Zenon
  <1>5. \A y \in S : x <= y
    BY <1>4
  <1> QED
    BY <1>5 DEF Min

LEMMA LastPlace ==
    ASSUME NEW n \in Nat, NEW S \in SUBSET (1 .. n), S # {}
    PROVE  Max(S) \in S /\ \A i \in S : i <= Max(S)
  <1> DEFINE Mirror == {n - i : i \in S}
  <1>1. Mirror \in SUBSET Nat /\ Mirror # {}
    <2>1. \A i \in S : n - i \in Nat
      OBVIOUS
    <2> QED
      BY <2>1
  <1>2. Min(Mirror) \in Mirror /\ \A m \in Mirror : Min(Mirror) <= m
    BY <1>1, FirstPlace
  <1>3. PICK x \in S : Min(Mirror) = n - x
    BY <1>2
  <1>4. \A i \in S : x >= i
    <2> TAKE i \in S
    <2>1. n - x <= n - i
      BY <1>2, <1>3
    <2> QED
      BY <2>1
  <1> QED
    BY <1>4 DEF Max

\* What holds at 0 and goes on holding is there for every number.
LEMMA CountsUp ==
    ASSUME NEW S, 0 \in S, \A k \in Nat : k \in S => k + 1 \in S
    PROVE  \A k \in Nat : k \in S
  <1> DEFINE Rest == {k \in Nat : k \notin S}
  <1> SUFFICES ASSUME Rest # {} PROVE FALSE
    OBVIOUS
  <1>1. PICK k : k \in Rest /\ \A j \in Rest : k <= j
    <2>1. Rest \in SUBSET Nat
      OBVIOUS
    <2> QED
      BY <2>1, FirstPlace
  <1>2. k \in Nat \ {0} /\ k - 1 \in Nat /\ k - 1 \notin Rest
    <2>1. k \in Nat \ {0}
      BY <1>1
    <2>2. k - 1 \in Nat /\ ~ (k <= k - 1)
      BY <2>1
    <2> QED
      BY <1>1, <2>1, <2>2
  <1>3. (k - 1) + 1 \in S
    BY <1>2
  <1>4. (k - 1) + 1 = k
    BY <1>2
  <1> QED
    BY <1>1, <1>3, <1>4

-----------------------------------------------------------------------------
\* A member has fewer earlier ones than a later member.
LEMMA EarlierCount ==
    ASSUME NEW S, IsFiniteSet(S), NEW Before, IsOrder(S, Before), NEW x \in S
    PROVE  /\ Cardinality(Earlier(S, Before, x)) \in 0 .. Cardinality(S) - 1
           /\ Cardinality(S) \in Nat
           /\ \A y \in S : <<x, y>> \in Before =>
                Cardinality(Earlier(S, Before, x)) < Cardinality(Earlier(S, Before, y))
  <1> DEFINE E(z) == Earlier(S, Before, z)
  <1>1. \A z \in S : E(z) \in SUBSET (S \ {z})
    BY DEF Earlier, IsOrder
  <1>2. \A z \in S : IsFiniteSet(E(z)) /\ Cardinality(E(z)) \in Nat
    <2> TAKE z \in S
    <2>1. IsFiniteSet(S \ {z})
      BY FS_RemoveElement
    <2>2. IsFiniteSet(E(z))
      BY <1>1, <2>1, FS_Subset
    <2> QED
      BY <2>2, FS_CardinalityType
  <1>3. Cardinality(S) \in Nat /\ IsFiniteSet(S \ {x}) /\ Cardinality(S \ {x}) = Cardinality(S) - 1
    BY FS_RemoveElement, FS_CardinalityType
  <1>4. Cardinality(E(x)) <= Cardinality(S) - 1
    BY <1>1, <1>3, FS_Subset
  <1>5. ASSUME NEW y \in S, <<x, y>> \in Before
        PROVE  Cardinality(E(x)) < Cardinality(E(y))
    <2>1. E(x) \in SUBSET E(y) /\ x \in E(y) /\ x \notin E(x)
      BY <1>5 DEF Earlier, IsOrder
    <2> HIDE DEF E
    <2>2. Cardinality(E(x)) <= Cardinality(E(y)) /\ Cardinality(E(x)) # Cardinality(E(y))
      BY <1>2, <2>1, FS_Subset
    <2> QED
      BY <1>2, <2>2
  <1> HIDE DEF E
  <1>6. Cardinality(E(x)) \in 0 .. Cardinality(S) - 1
    BY <1>2, <1>3, <1>4
  <1> QED
    BY <1>3, <1>5, <1>6 DEF E

\* Sorting keeps every member, once, and puts them in order.
LEMMA SortedFacts ==
    ASSUME NEW S, IsFiniteSet(S), NEW Before, IsOrder(S, Before)
    PROVE  /\ Cardinality(S) \in Nat
           /\ Sorted(S, Before) \in [1 .. Cardinality(S) -> S]
           /\ \A x \in S : \E k \in 1 .. Cardinality(S) : Sorted(S, Before)[k] = x
           /\ \A j, k \in 1 .. Cardinality(S) :
                j < k <=> <<Sorted(S, Before)[j], Sorted(S, Before)[k]>> \in Before
           /\ \A k \in 1 .. Cardinality(S) :
                Cardinality(Earlier(S, Before, Sorted(S, Before)[k])) = k - 1
  <1> DEFINE n == Cardinality(S)
             rank == [x \in S |-> Cardinality(Earlier(S, Before, x)) + 1]
             q == Sorted(S, Before)
  <1>1. n \in Nat
    BY FS_CardinalityType
  <1>2. \A x \in S : /\ Cardinality(Earlier(S, Before, x)) \in 0 .. n - 1
                     /\ \A y \in S : <<x, y>> \in Before =>
                          Cardinality(Earlier(S, Before, x)) < Cardinality(Earlier(S, Before, y))
    BY EarlierCount
  <1> HIDE DEF n
  <1>3. \A x \in S : rank[x] \in 1 .. n /\ rank[x] - 1 = Cardinality(Earlier(S, Before, x))
    BY <1>1, <1>2
  <1>4. rank \in [S -> 1 .. n]
    BY <1>3
  <1>5. \A x, y \in S : <<x, y>> \in Before => rank[x] < rank[y]
    BY <1>1, <1>2, <1>3
  <1> HIDE DEF rank
  <1>51. \A x, y \in S : x = y \/ <<x, y>> \in Before \/ <<y, x>> \in Before
    BY DEF IsOrder
  <1>52. \A x \in S : rank[x] \in Nat
    BY <1>1, <1>4
  <1>53. \A x, y \in S : ~ (rank[x] < rank[y] /\ rank[y] < rank[x])
    BY <1>52
  <1>54. \A x, y \in S : ~ (rank[x] < rank[y] /\ rank[x] = rank[y])
    BY <1>52
  <1>6. \A x, y \in S : rank[x] = rank[y] => x = y
    BY <1>5, <1>51, <1>54, Zenon
  <1>7. \A x, y \in S : rank[x] < rank[y] => <<x, y>> \in Before
    BY <1>5, <1>51, <1>53, <1>54, Zenon
  <1>8. \A k \in 1 .. n : \E x \in S : rank[x] = k
    <2>1. rank \in Injection(S, 1 .. n)
      BY <1>4, <1>6 DEF Injection, IsInjective
    <2>2. IsFiniteSet(1 .. n) /\ Cardinality(1 .. n) = n
      BY <1>1, FS_Interval
    <2>3. rank \in Surjection(S, 1 .. n)
      BY <2>1, <2>2, FS_Injection DEF n
    <2> QED
      BY <2>3 DEF Surjection
  <1>9. \A k \in 1 .. n : q[k] \in S /\ rank[q[k]] = k
    <2> TAKE k \in 1 .. n
    <2>1. q[k] = CHOOSE x \in S : Cardinality(Earlier(S, Before, x)) = k - 1
      BY DEF Sorted, n
    <2>2. PICK x \in S : rank[x] = k
      BY <1>8
    <2>3. \E y \in S : Cardinality(Earlier(S, Before, y)) = k - 1
      BY <1>3, <2>2
    <2>4. q[k] \in S /\ Cardinality(Earlier(S, Before, q[k])) = k - 1
      BY <2>1, <2>3
    <2> HIDE DEF q
    <2> QED
      BY <1>1, <1>3, <1>4, <2>4
  <1>10. q \in [1 .. n -> S]
    BY <1>9 DEF Sorted, n
  <1> HIDE DEF q
  <1>11. \A x \in S : \E k \in 1 .. n : q[k] = x
    <2> TAKE x \in S
    <2>1. rank[x] \in 1 .. n
      BY <1>4
    <2> QED
      BY <1>6, <1>9, <2>1
  <1>12. \A j, k \in 1 .. n : j < k <=> <<q[j], q[k]>> \in Before
    <2> TAKE j, k \in 1 .. n
    <2>1. q[j] \in S /\ q[k] \in S /\ rank[q[j]] = j /\ rank[q[k]] = k
      BY <1>9
    <2> QED
      BY <1>5, <1>7, <2>1
  <1>13. \A k \in 1 .. n : Cardinality(Earlier(S, Before, q[k])) = k - 1
    BY <1>3, <1>9
  <1> QED
    BY <1>1, <1>10, <1>11, <1>12, <1>13 DEF n, q

-----------------------------------------------------------------------------
(***************************************************************************)
(* sum(), the fold over a set: its recursion, and what bounds it.          *)
(***************************************************************************)
AnyOf(s) == CHOOSE x \in s : TRUE

\* The sums of f over the parts of S.
AreSums(g, f, S) ==
    g = [s \in SUBSET S |-> IF s = {} THEN 0 ELSE f[AnyOf(s)] + g[s \ {AnyOf(s)}]]

LEMMA SmallerParts ==
    ASSUME NEW S, IsFiniteSet(S), NEW s \in SUBSET S, NEW k \in Nat
    PROVE  /\ IsFiniteSet(s) /\ Cardinality(s) \in Nat
           /\ s = {} <=> Cardinality(s) = 0
           /\ s # {} => /\ AnyOf(s) \in s /\ s \ {AnyOf(s)} \in SUBSET S
                        /\ Cardinality(s \ {AnyOf(s)}) = Cardinality(s) - 1
                        /\ Cardinality(s) <= k + 1 => Cardinality(s \ {AnyOf(s)}) <= k
  <1>1. IsFiniteSet(s) /\ Cardinality(s) \in Nat
    BY FS_Subset, FS_CardinalityType
  <1>2. s = {} <=> Cardinality(s) = 0
    BY <1>1, FS_EmptySet
  <1>3. s # {} => AnyOf(s) \in s
    BY DEF AnyOf
  <1>4. s # {} => Cardinality(s \ {AnyOf(s)}) = Cardinality(s) - 1
    BY <1>1, <1>3, FS_RemoveElement
  <1>5. s \ {AnyOf(s)} \in SUBSET S
    OBVIOUS
  <1> QED
    BY <1>1, <1>2, <1>3, <1>4, <1>5

LEMMA SumsExist ==
    ASSUME NEW f, NEW S, IsFiniteSet(S)
    PROVE  \E g : AreSums(g, f, S)
  <1> DEFINE Next(g, s) == IF s = {} THEN 0 ELSE f[AnyOf(s)] + g[s \ {AnyOf(s)}]
             UpTo(g, k) == /\ g = [s \in SUBSET S |-> g[s]]
                           /\ \A s \in SUBSET S : Cardinality(s) <= k => g[s] = Next(g, s)
             Can == {k \in Nat : \E g : UpTo(g, k)}
  <1>1. 0 \in Can
    <2> DEFINE g == [s \in SUBSET S |-> 0]
    <2>1. \A s \in SUBSET S : Cardinality(s) <= 0 => s = {}
      <3> TAKE s \in SUBSET S
      <3>1. Cardinality(s) \in Nat /\ (s = {} <=> Cardinality(s) = 0)
        BY SmallerParts, 0 \in Nat
      <3> QED
        BY <3>1
    <2>2. UpTo(g, 0)
      BY <2>1
    <2> HIDE DEF UpTo
    <2> QED
      BY <2>2
  <1>2. ASSUME NEW k \in Nat, k \in Can PROVE k + 1 \in Can
    <2>1. PICK g : UpTo(g, k)
      BY <1>2
    <2> DEFINE h == [s \in SUBSET S |-> Next(g, s)]
    <2>2. \A s \in SUBSET S : Cardinality(s) <= k => h[s] = g[s]
      BY <2>1
    <2>3. ASSUME NEW s \in SUBSET S, Cardinality(s) <= k + 1 PROVE h[s] = Next(h, s)
      <3>1. CASE s = {}
        BY <3>1
      <3>2. CASE s # {}
        <4>1. s \ {AnyOf(s)} \in SUBSET S /\ Cardinality(s \ {AnyOf(s)}) <= k
          BY <2>3, <3>2, SmallerParts
        <4>2. h[s \ {AnyOf(s)}] = g[s \ {AnyOf(s)}]
          BY <2>2, <4>1
        <4>3. h[s] = f[AnyOf(s)] + g[s \ {AnyOf(s)}]
          BY <3>2
        <4> HIDE DEF h
        <4> QED
          BY <3>2, <4>2, <4>3
      <3> QED
        BY <3>1, <3>2
    <2>4. UpTo(h, k + 1)
      <3>1. h = [s \in SUBSET S |-> h[s]]
        OBVIOUS
      <3> HIDE DEF h
      <3> QED
        BY <2>3, <3>1
    <2> HIDE DEF UpTo, h
    <2> QED
      BY <2>4
  <1>3. PICK g : UpTo(g, Cardinality(S))
    <2> HIDE DEF Can, UpTo
    <2>1. Cardinality(S) \in Can
      BY <1>1, <1>2, FS_CardinalityType, CountsUp
    <2> QED
      BY <2>1 DEF Can
  <1>4. \A s \in SUBSET S : Cardinality(s) <= Cardinality(S)
    BY FS_Subset
  <1>5. \A s \in SUBSET S : g[s] = Next(g, s)
    BY <1>3, <1>4
  <1>6. AreSums(g, f, S)
    <2>1. g = [s \in SUBSET S |-> g[s]]
      BY <1>3
    <2>2. [s \in SUBSET S |-> g[s]] = [s \in SUBSET S |-> Next(g, s)]
      BY <1>5
    <2>3. g = [s \in SUBSET S |-> Next(g, s)]
      BY <2>1, <2>2
    <2> QED
      BY <2>3 DEF AreSums
  <1> QED
    BY <1>6

\* They do not depend on the set they are parts of.
LEMMA SumsAgree ==
    ASSUME NEW f, NEW S, IsFiniteSet(S), NEW T \in SUBSET S, NEW g, NEW h, AreSums(g, f, S), AreSums(h, f, T)
    PROVE  g[T] = h[T]
  <1> DEFINE Same == {k \in Nat : \A s \in SUBSET T : Cardinality(s) <= k => g[s] = h[s]}
  <1>1. IsFiniteSet(T) /\ Cardinality(T) \in Nat
    BY FS_Subset, FS_CardinalityType
  <1>2. \A s \in SUBSET T : /\ g[s] = IF s = {} THEN 0 ELSE f[AnyOf(s)] + g[s \ {AnyOf(s)}]
                            /\ h[s] = IF s = {} THEN 0 ELSE f[AnyOf(s)] + h[s \ {AnyOf(s)}]
    <2>1. \A s \in SUBSET S : g[s] = IF s = {} THEN 0 ELSE f[AnyOf(s)] + g[s \ {AnyOf(s)}]
      BY DEF AreSums
    <2>2. \A s \in SUBSET T : h[s] = IF s = {} THEN 0 ELSE f[AnyOf(s)] + h[s \ {AnyOf(s)}]
      BY DEF AreSums
    <2>3. \A s \in SUBSET T : s \in SUBSET S
      OBVIOUS
    <2> QED
      BY <2>1, <2>2, <2>3
  <1>3. 0 \in Same
    <2>1. \A s \in SUBSET T : Cardinality(s) <= 0 => s = {}
      <3> TAKE s \in SUBSET T
      <3>1. Cardinality(s) \in Nat /\ (s = {} <=> Cardinality(s) = 0)
        BY <1>1, SmallerParts, 0 \in Nat
      <3> QED
        BY <3>1
    <2> QED
      BY <1>2, <2>1
  <1>4. ASSUME NEW k \in Nat, k \in Same PROVE k + 1 \in Same
    <2> SUFFICES ASSUME NEW s \in SUBSET T, Cardinality(s) <= k + 1 PROVE g[s] = h[s]
      OBVIOUS
    <2>1. CASE s = {}
      BY <1>2, <2>1
    <2>2. CASE s # {}
      <3>1. s \ {AnyOf(s)} \in SUBSET T /\ Cardinality(s \ {AnyOf(s)}) <= k
        BY <1>1, <2>2, SmallerParts
      <3>2. g[s \ {AnyOf(s)}] = h[s \ {AnyOf(s)}]
        BY <1>4, <3>1
      <3> QED
        BY <1>2, <2>2, <3>2
    <2> QED
      BY <2>1, <2>2
  <1>5. Cardinality(T) \in Same
    <2> HIDE DEF Same
    <2> QED
      BY <1>1, <1>3, <1>4, CountsUp
  <1> QED
    BY <1>1, <1>5

LEMMA SumIs ==
    ASSUME NEW f, NEW S, IsFiniteSet(S)
    PROVE  \E g : AreSums(g, f, S) /\ SumFunctionOnSet(f, S) = g[S]
  <1> DEFINE g == CHOOSE h : AreSums(h, f, S)
  <1>1. AreSums(g, f, S)
    BY SumsExist, Zenon
  <1>2. SumFunctionOnSet(f, S) = g[S]
    BY Zenon DEF SumFunctionOnSet, FoldFunctionOnSet, MapThenFoldSet, AreSums, AnyOf
  <1> HIDE DEF g
  <1> QED
    BY <1>1, <1>2

LEMMA SumUnfolds ==
    ASSUME NEW f, NEW S, IsFiniteSet(S)
    PROVE  /\ S = {} => SumFunctionOnSet(f, S) = 0
           /\ S # {} => SumFunctionOnSet(f, S) = f[AnyOf(S)] + SumFunctionOnSet(f, S \ {AnyOf(S)})
  <1> DEFINE T == S \ {AnyOf(S)}
  <1>1. IsFiniteSet(T) /\ T \in SUBSET S
    BY FS_Subset
  <1>2. PICK g : AreSums(g, f, S) /\ SumFunctionOnSet(f, S) = g[S]
    BY SumIs
  <1>3. PICK h : AreSums(h, f, T) /\ SumFunctionOnSet(f, T) = h[T]
    BY <1>1, SumIs
  <1>4. g[T] = h[T]
    BY <1>1, <1>2, <1>3, SumsAgree
  <1>5. g[S] = IF S = {} THEN 0 ELSE f[AnyOf(S)] + g[T]
    <2>1. g = [s \in SUBSET S |-> IF s = {} THEN 0 ELSE f[AnyOf(s)] + g[s \ {AnyOf(s)}]]
      BY <1>2 DEF AreSums
    <2>2. S \in SUBSET S
      OBVIOUS
    <2> QED
      BY <2>1, <2>2, Zenon
  <1> QED
    BY <1>2, <1>3, <1>4, <1>5

\* What holds of the empty set, and of a set when it does without one member.
LEMMA MemberByMember ==
    ASSUME NEW S, IsFiniteSet(S), NEW P, {} \in P,
           \A T \in SUBSET S : T # {} /\ AnyOf(T) \in T /\ T \ {AnyOf(T)} \in P => T \in P
    PROVE  S \in P
  <1> DEFINE Upto == {k \in Nat : \A T \in SUBSET S : Cardinality(T) <= k => T \in P}
  <1>1. 0 \in Upto
    <2> SUFFICES ASSUME NEW T \in SUBSET S, Cardinality(T) <= 0 PROVE T = {}
      OBVIOUS
    <2>1. Cardinality(T) \in Nat /\ (T = {} <=> Cardinality(T) = 0)
      BY SmallerParts, 0 \in Nat
    <2> QED
      BY <2>1
  <1>2. ASSUME NEW k \in Nat, k \in Upto PROVE k + 1 \in Upto
    <2> SUFFICES ASSUME NEW T \in SUBSET S, Cardinality(T) <= k + 1, T # {} PROVE T \in P
      OBVIOUS
    <2>1. AnyOf(T) \in T /\ T \ {AnyOf(T)} \in SUBSET S /\ Cardinality(T \ {AnyOf(T)}) <= k
      BY SmallerParts
    <2> QED
      BY <1>2, <2>1
  <1>3. Cardinality(S) \in Upto
    <2> HIDE DEF Upto
    <2> QED
      BY <1>1, <1>2, CountsUp, FS_CardinalityType
  <1>4. Cardinality(S) <= Cardinality(S)
    BY FS_CardinalityType
  <1> QED
    BY <1>3, <1>4

LEMMA SumInt ==
    ASSUME NEW S, IsFiniteSet(S), NEW f, \A x \in S : f[x] \in Int
    PROVE  SumFunctionOnSet(f, S) \in Int
  <1> DEFINE P == {T \in SUBSET S : SumFunctionOnSet(f, T) \in Int}
  <1>1. {} \in P
    <2>1. SumFunctionOnSet(f, {}) = 0
      BY SumUnfolds, FS_EmptySet
    <2> QED
      BY <2>1
  <1>2. ASSUME NEW T \in SUBSET S, T # {}, AnyOf(T) \in T, T \ {AnyOf(T)} \in P PROVE T \in P
    <2>1. SumFunctionOnSet(f, T) = f[AnyOf(T)] + SumFunctionOnSet(f, T \ {AnyOf(T)})
      BY <1>2, SumUnfolds, FS_Subset
    <2> QED
      BY <1>2, <2>1
  <1>3. S \in P
    <2> HIDE DEF P
    <2> QED
      BY <1>1, <1>2, MemberByMember
  <1> QED
    BY <1>3

\* The greater the values, the greater the sum.
LEMMA SumBelow ==
    ASSUME NEW S, IsFiniteSet(S), NEW f, NEW g,
           \A x \in S : f[x] \in Int /\ g[x] \in Int /\ f[x] <= g[x]
    PROVE  /\ SumFunctionOnSet(f, S) <= SumFunctionOnSet(g, S)
           /\ (\E x \in S : f[x] < g[x]) => SumFunctionOnSet(f, S) < SumFunctionOnSet(g, S)
  <1> DEFINE P == {T \in SUBSET S :
                     /\ SumFunctionOnSet(f, T) <= SumFunctionOnSet(g, T)
                     /\ (\E x \in T : f[x] < g[x]) => SumFunctionOnSet(f, T) < SumFunctionOnSet(g, T)}
  <1>1. {} \in P
    <2>1. SumFunctionOnSet(f, {}) = 0 /\ SumFunctionOnSet(g, {}) = 0
      BY SumUnfolds, FS_EmptySet
    <2> QED
      BY <2>1
  <1>2. ASSUME NEW T \in SUBSET S, T # {}, AnyOf(T) \in T, T \ {AnyOf(T)} \in P PROVE T \in P
    <2> DEFINE x == AnyOf(T)
               R == T \ {x}
               sf == SumFunctionOnSet(f, R)
               sg == SumFunctionOnSet(g, R)
    <2>1. /\ SumFunctionOnSet(f, T) = f[x] + sf /\ SumFunctionOnSet(g, T) = g[x] + sg
      BY <1>2, SumUnfolds, FS_Subset
    <2>2. sf \in Int /\ sg \in Int
      <3>1. IsFiniteSet(R)
        BY FS_Subset
      <3> QED
        BY <3>1, SumInt
    <2>3. sf <= sg /\ ((\E y \in R : f[y] < g[y]) => sf < sg)
      BY <1>2
    <2>4. x \in T /\ f[x] \in Int /\ g[x] \in Int /\ f[x] <= g[x] /\ \A y \in T : y = x \/ y \in R
      BY <1>2
    <2> HIDE DEF x, R, sf, sg
    <2>5. f[x] + sf <= g[x] + sg
      BY <2>2, <2>3, <2>4
    <2>6. ASSUME NEW y \in T, f[y] < g[y] PROVE f[x] + sf < g[x] + sg
      <3>1. CASE y = x
        BY <2>2, <2>3, <2>4, <2>6, <3>1
      <3>2. CASE y \in R
        BY <2>2, <2>3, <2>4, <2>6, <3>2
      <3> QED
        BY <2>4, <3>1, <3>2
    <2> QED
      BY <2>1, <2>5, <2>6
  <1>3. S \in P
    <2> HIDE DEF P
    <2> QED
      BY <1>1, <1>2, MemberByMember
  <1> QED
    BY <1>3

\* A factor of all the values is one of the sum.
LEMMA SumTimes ==
    ASSUME NEW S, IsFiniteSet(S), NEW c \in Int, NEW f, NEW g,
           \A x \in S : f[x] \in Int /\ g[x] = c * f[x]
    PROVE  SumFunctionOnSet(g, S) = c * SumFunctionOnSet(f, S)
  <1> DEFINE P == {T \in SUBSET S : SumFunctionOnSet(g, T) = c * SumFunctionOnSet(f, T)}
  <1>1. {} \in P
    <2>1. SumFunctionOnSet(f, {}) = 0 /\ SumFunctionOnSet(g, {}) = 0
      BY SumUnfolds, FS_EmptySet
    <2> QED
      BY <2>1
  <1>2. ASSUME NEW T \in SUBSET S, T # {}, AnyOf(T) \in T, T \ {AnyOf(T)} \in P PROVE T \in P
    <2> DEFINE x == AnyOf(T)
               sf == SumFunctionOnSet(f, T \ {x})
               sg == SumFunctionOnSet(g, T \ {x})
    <2>1. /\ SumFunctionOnSet(f, T) = f[x] + sf /\ SumFunctionOnSet(g, T) = g[x] + sg
      BY <1>2, SumUnfolds, FS_Subset
    <2>2. sf \in Int
      <3>1. IsFiniteSet(T \ {x})
        BY FS_Subset
      <3> QED
        BY <3>1, SumInt
    <2>3. sg = c * sf
      BY <1>2
    <2>4. f[x] \in Int /\ g[x] = c * f[x]
      BY <1>2
    <2> HIDE DEF x, sf, sg
    <2>5. c * (f[x] + sf) = c * f[x] + c * sf
      BY <2>2, <2>4
    <2> QED
      BY <2>1, <2>3, <2>4, <2>5
  <1>3. S \in P
    <2> HIDE DEF P
    <2> QED
      BY <1>1, <1>2, MemberByMember
  <1> QED
    BY <1>3

LEMMA SumOfEqual ==
    ASSUME NEW S, IsFiniteSet(S), NEW c \in Int, NEW f, \A x \in S : f[x] = c
    PROVE  SumFunctionOnSet(f, S) = Cardinality(S) * c
  <1> DEFINE P == {T \in SUBSET S : SumFunctionOnSet(f, T) = Cardinality(T) * c}
  <1>1. {} \in P
    <2>1. SumFunctionOnSet(f, {}) = 0 /\ Cardinality({}) = 0
      BY SumUnfolds, FS_EmptySet
    <2> QED
      BY <2>1
  <1>2. ASSUME NEW T \in SUBSET S, T # {}, AnyOf(T) \in T, T \ {AnyOf(T)} \in P PROVE T \in P
    <2> DEFINE R == T \ {AnyOf(T)}
               n == Cardinality(R)
    <2>1. SumFunctionOnSet(f, T) = f[AnyOf(T)] + SumFunctionOnSet(f, R)
      BY <1>2, SumUnfolds, FS_Subset
    <2>2. IsFiniteSet(T) /\ Cardinality(T) \in Nat /\ n = Cardinality(T) - 1
      BY <1>2, FS_Subset, FS_RemoveElement, FS_CardinalityType
    <2>3. SumFunctionOnSet(f, R) = n * c /\ f[AnyOf(T)] = c
      BY <1>2
    <2> HIDE DEF n
    <2>4. n \in Int /\ Cardinality(T) = n + 1
      BY <2>2
    <2>5. c + n * c = (n + 1) * c
      BY <2>4
    <2> QED
      BY <2>1, <2>3, <2>4, <2>5
  <1>3. S \in P
    <2> HIDE DEF P
    <2> QED
      BY <1>1, <1>2, MemberByMember
  <1> QED
    BY <1>3

LEMMA QuotientBetween ==
    ASSUME NEW d \in Nat \ {0}, NEW a \in Int, NEW lo \in Int, NEW hi \in Int, d * lo <= a, a <= d * hi
    PROVE  a \div d \in Int /\ lo <= a \div d /\ a \div d <= hi
  <1> DEFINE q == a \div d
  <1>1. q \in Int /\ d * q <= a /\ a < d * q + d
    BY Quotient
  <1> HIDE DEF q
  <1>2. \A y \in Int : d * y \in Int /\ d * (y + 1) = d * y + d
    OBVIOUS
  <1>3. lo <= q
    <2> SUFFICES ASSUME q + 1 <= lo PROVE FALSE
      BY <1>1
    <2>1. d * (q + 1) <= d * lo
      BY <1>1, ProductGrows
    <2> QED
      BY <1>1, <1>2, <2>1
  <1>4. q <= hi
    <2> SUFFICES ASSUME hi + 1 <= q PROVE FALSE
      BY <1>1
    <2>1. d * (hi + 1) <= d * q
      BY <1>1, ProductGrows
    <2> QED
      BY <1>1, <1>2, <2>1
  <1> QED
    BY <1>1, <1>3, <1>4 DEF q

\* The mean, cut off to a whole number, lies between what the values lie
\* between, and is the greatest of them only when all of them are.
LEMMA MeanLiesBetween ==
    ASSUME NEW S, IsFiniteSet(S), S # {}, NEW f, NEW lo \in Int, NEW hi \in Int,
           \A x \in S : f[x] \in Int /\ lo <= f[x] /\ f[x] <= hi,
           NEW m, m = SumFunctionOnSet(f, S) \div Cardinality(S)
    PROVE  /\ m \in Int /\ lo <= m /\ m <= hi
           /\ m = hi <=> \A x \in S : f[x] = hi
  <1> DEFINE n == Cardinality(S)
             sum == SumFunctionOnSet(f, S)
             low == [x \in S |-> lo]
             high == [x \in S |-> hi]
  <1>1. n \in Nat \ {0} /\ sum \in Int
    <2>1. n \in Nat /\ n # 0
      BY FS_CardinalityType, FS_EmptySet
    <2> QED
      BY <2>1, SumInt
  <1>2. SumFunctionOnSet(low, S) = n * lo /\ SumFunctionOnSet(high, S) = n * hi
    <2>1. \A x \in S : low[x] = lo /\ high[x] = hi
      OBVIOUS
    <2> QED
      BY <2>1, SumOfEqual
  <1>3. n * lo <= sum
    <2>1. \A x \in S : low[x] \in Int /\ f[x] \in Int /\ low[x] <= f[x]
      OBVIOUS
    <2>2. SumFunctionOnSet(low, S) <= SumFunctionOnSet(f, S)
      BY <2>1, SumBelow
    <2> QED
      BY <1>2, <2>2
  <1>4. sum <= n * hi /\ ((\E x \in S : f[x] < hi) => sum < n * hi)
    <2>1. \A x \in S : f[x] \in Int /\ high[x] \in Int /\ f[x] <= high[x] /\ high[x] = hi
      OBVIOUS
    <2> HIDE DEF high
    <2>2. /\ SumFunctionOnSet(f, S) <= SumFunctionOnSet(high, S)
          /\ (\E x \in S : f[x] < high[x]) => SumFunctionOnSet(f, S) < SumFunctionOnSet(high, S)
      BY <2>1, SumBelow
    <2> QED
      BY <1>2, <2>1, <2>2
  <1>5. m \in Int /\ n * m <= sum /\ sum < n * m + n
    BY <1>1, Quotient
  <1>6. (\A x \in S : f[x] = hi) => sum = n * hi
    BY SumOfEqual
  <1>7. \A x \in S : f[x] \in Int /\ (f[x] = hi \/ f[x] < hi)
    OBVIOUS
  <1>71. m = sum \div n
    OBVIOUS
  <1> HIDE DEF n, sum
  <1>8. \A y \in Int : n * y \in Int /\ n * (y + 1) = n * y + n
    BY <1>1
  <1>9. lo <= m /\ m <= hi
    BY <1>1, <1>3, <1>4, <1>71, QuotientBetween
  <1>11. m = hi => \A x \in S : f[x] = hi
    BY <1>1, <1>4, <1>5, <1>7, <1>8
  <1>12. (\A x \in S : f[x] = hi) => m = hi
    <2> SUFFICES ASSUME sum = n * hi, m + 1 <= hi PROVE FALSE
      BY <1>5, <1>6, <1>9
    <2>1. n * (m + 1) <= n * hi
      BY <1>1, <1>5, ProductGrows
    <2> QED
      BY <1>1, <1>5, <1>8, <2>1
  <1> QED
    BY <1>5, <1>9, <1>11, <1>12

\* The greatest of finitely many numbers.
LEMMA Greatest ==
    ASSUME NEW S \in SUBSET Int, IsFiniteSet(S), S # {}
    PROVE  Max(S) \in S /\ \A x \in S : x <= Max(S)
  <1> DEFINE P == {T \in SUBSET S : T # {} => \E m \in T : \A x \in T : x <= m}
  <1>1. {} \in P
    OBVIOUS
  <1>2. ASSUME NEW T \in SUBSET S, T # {}, AnyOf(T) \in T, T \ {AnyOf(T)} \in P PROVE T \in P
    <2> DEFINE o == AnyOf(T)
               R == T \ {o}
    <2>1. o \in T /\ R \in P /\ T = R \cup {o} /\ o \in Int /\ \A x \in T : x \in Int
      BY <1>2
    <2> HIDE DEF o, R
    <2>2. CASE R = {}
      BY <2>1, <2>2
    <2>3. CASE R # {}
      <3>1. PICK m \in R : \A x \in R : x <= m
        BY <2>1, <2>3
      <3>2. CASE m <= o
        <4>1. \A x \in T : x <= o
          BY <2>1, <3>1, <3>2
        <4> QED
          BY <2>1, <4>1
      <3>3. CASE o <= m
        <4>1. \A x \in T : x <= m
          BY <2>1, <3>1, <3>3
        <4> QED
          BY <2>1, <3>1, <4>1
      <3> QED
        BY <2>1, <3>1, <3>2, <3>3
    <2> QED
      BY <2>2, <2>3
  <1>3. S \in P
    <2> HIDE DEF P
    <2> QED
      BY <1>1, <1>2, MemberByMember
  <1>4. PICK m \in S : \A x \in S : m >= x
    BY <1>3
  <1> QED
    BY <1>4 DEF Max

\* a % d
LEMMA Rest ==
    ASSUME NEW a \in Int, NEW d \in Nat \ {0}
    PROVE  a = d * (a \div d) + (a % d) /\ a % d \in 0..(d - 1)
  OBVIOUS

\* Between two neighbours of its multiples d has no other.
LEMMA OneMultiple ==
    ASSUME NEW d \in Nat \ {0}, NEW p \in Int, NEW q \in Int, NEW a \in Int,
           d * p <= a, a < d * p + d, d * q <= a, a < d * q + d
    PROVE  p = q
  <1>1. ASSUME NEW x \in Int, NEW y \in Int, d * y <= a, a < d * x + d, x + 1 <= y PROVE FALSE
    <2>1. d * (x + 1) <= d * y
      BY <1>1, ProductGrows
    <2>2. d * (x + 1) = d * x + d
      OBVIOUS
    <2>3. d * x \in Int /\ d * y \in Int
      OBVIOUS
    <2> QED
      BY <1>1, <2>1, <2>2, <2>3
  <1>2. ~ (p + 1 <= q) /\ ~ (q + 1 <= p)
    BY <1>1
  <1> QED
    BY <1>2

\* The multiple of d at or before a is the one that leaves no rest.
LEMMA OneBucket ==
    ASSUME NEW a \in Nat, NEW d \in Nat \ {0}
    PROVE  /\ d * (a \div d) \in Nat /\ (d * (a \div d)) % d = 0
           /\ d * (a \div d) <= a /\ a < d * (a \div d) + d
           /\ \A t \in Int : t % d = 0 /\ t <= a /\ a < t + d => t = d * (a \div d)
  <1> DEFINE q == a \div d
             m == d * q
  <1>1. q \in Nat /\ m <= a /\ a < m + d
    BY Quotient, QuotientNat
  <1>2. m \in Nat
    BY <1>1
  <1> DEFINE p == m \div d
             r == m % d
  <1>3. p \in Int /\ m = d * p + r /\ r \in 0..(d - 1)
    <2> HIDE DEF m
    <2> QED
      BY <1>2, Rest, Quotient
  <1>4. p = q
    <2>1. d * p \in Int /\ d * q = m
      BY <1>1, <1>3
    <2>2. d * p <= m /\ m < d * p + d /\ d * q <= m /\ m < d * q + d
      BY <1>2, <1>3, <2>1
    <2> HIDE DEF p, q, m, r
    <2> QED
      BY <1>1, <1>2, <1>3, <2>2, OneMultiple
  <1>5. r = 0
    BY <1>2, <1>3, <1>4
  <1>6. ASSUME NEW t \in Int, t % d = 0, t <= a, a < t + d PROVE t = m
    <2> DEFINE k == t \div d
    <2>1. k \in Int /\ t = d * k
      <3>1. t = d * k + (t % d) /\ k \in Int
        BY Rest, Quotient
      <3>2. d * k \in Int
        BY <3>1
      <3> QED
        BY <1>6, <3>1, <3>2
    <2> HIDE DEF k
    <2>2. k = q
      <3>1. d * k <= a /\ a < d * k + d /\ d * q <= a /\ a < d * q + d
        BY <1>1, <1>6, <2>1
      <3> HIDE DEF q
      <3> QED
        BY <1>1, <2>1, <3>1, OneMultiple
    <2> QED
      BY <2>1, <2>2
  <1> QED
    BY <1>1, <1>2, <1>5, <1>6

\* What is counted in parts is counted.
LEMMA PartsAddUp ==
    ASSUME NEW S, IsFiniteSet(S), NEW f, NEW Cells, IsFiniteSet(Cells), \A x \in S : f[x] \in Cells,
           NEW g, \A c \in Cells : g[c] = Cardinality({x \in S : f[x] = c})
    PROVE  SumFunctionOnSet(g, Cells) = Cardinality(S)
  <1> DEFINE In(T) == {x \in S : f[x] \in T}
             P == {T \in SUBSET Cells : SumFunctionOnSet(g, T) = Cardinality(In(T))}
  <1>1. {} \in P
    <2>1. SumFunctionOnSet(g, {}) = 0
      BY SumUnfolds, FS_EmptySet
    <2>2. In({}) = {} /\ Cardinality({}) = 0
      BY FS_EmptySet
    <2> QED
      BY <2>1, <2>2
  <1>2. ASSUME NEW T \in SUBSET Cells, T # {}, AnyOf(T) \in T, T \ {AnyOf(T)} \in P PROVE T \in P
    <2> DEFINE c == AnyOf(T)
               here == {x \in S : f[x] = c}
               rest == In(T \ {c})
    <2>1. SumFunctionOnSet(g, T) = g[c] + SumFunctionOnSet(g, T \ {c})
      BY <1>2, SumUnfolds, FS_Subset
    <2>2. g[c] = Cardinality(here) /\ SumFunctionOnSet(g, T \ {c}) = Cardinality(rest)
      BY <1>2
    <2>3. IsFiniteSet(here) /\ IsFiniteSet(rest)
      BY FS_Subset
    <2>4. here \cap rest = {} /\ In(T) = here \cup rest
      BY <1>2
    <2> HIDE DEF c, here, rest, In
    <2>5. Cardinality(here \cup rest) = Cardinality(here) + Cardinality(rest) - Cardinality(here \cap rest)
      BY <2>3, FS_Union
    <2>6. Cardinality(here) \in Nat /\ Cardinality(rest) \in Nat /\ Cardinality({}) = 0
      BY <2>3, FS_CardinalityType, FS_EmptySet
    <2>7. Cardinality(In(T)) = Cardinality(here) + Cardinality(rest)
      <3>1. Cardinality(here \cap rest) = 0 /\ Cardinality(In(T)) = Cardinality(here \cup rest)
        BY <2>4, <2>6, Zenon
      <3> QED
        BY <2>5, <2>6, <3>1
    <2>8. SumFunctionOnSet(g, T) = Cardinality(In(T))
      BY <2>1, <2>2, <2>7, Zenon
    <2> QED
      BY <1>2, <2>8
  <1>3. Cells \in P
    <2> HIDE DEF P
    <2> QED
      BY <1>1, <1>2, MemberByMember
  <1>4. In(Cells) = S
    OBVIOUS
  <1> QED
    BY <1>3, <1>4

LEMMA SumOfOne ==
    ASSUME NEW x, NEW S, S = {x}, NEW f, f[x] \in Int
    PROVE  SumFunctionOnSet(f, S) = f[x]
  <1>1. IsFiniteSet(S) /\ Cardinality(S) = 1
    BY FS_Singleton
  <1>2. SumFunctionOnSet(f, S) = Cardinality(S) * f[x]
    BY <1>1, SumOfEqual
  <1> QED
    BY <1>1, <1>2

\* a // d is d-ths of a cut off.
LEMMA CutOff ==
    ASSUME NEW a \in Nat, NEW d \in Nat \ {0}
    PROVE  a - (a \div d) * d \in 0..d
  <1>1. (a \div d) \in Int /\ d * (a \div d) <= a /\ a < d * (a \div d) + d
    BY Quotient
  <1> DEFINE q == a \div d
  <1> HIDE DEF q
  <1>2. q * d = d * q /\ d * q \in Int
    BY <1>1 DEF q
  <1> QED
    BY <1>1, <1>2 DEF q

\* A part of the whole in thousandths.
LEMMA Thousandths ==
    ASSUME NEW p \in Nat, NEW f \in Nat, p + f # 0
    PROVE  (1000 * p) \div (p + f) < 1000 <=> f > 0
  <1> DEFINE t == p + f
             q == (1000 * p) \div t
  <1>1. t \in Nat \ {0} /\ q \in Int /\ t * q <= 1000 * p /\ 1000 * p < t * q + t
    <2>1. t \in Nat \ {0} /\ 1000 * p \in Int
      OBVIOUS
    <2> HIDE DEF t
    <2> QED
      BY <2>1, Quotient
  <1>2. CASE f > 0
    <2> SUFFICES ASSUME q >= 1000 PROVE FALSE
      BY <1>1, <1>2
    <2>1. t * 1000 <= t * q
      BY <1>1, ProductGrows
    <2>2. t * 1000 > 1000 * p
      BY <1>2
    <2>3. t * q \in Int
      BY <1>1
    <2> HIDE DEF q, t
    <2> QED
      BY <1>1, <2>1, <2>2, <2>3
  <1>3. CASE f = 0
    <2> SUFFICES ASSUME q <= 999 PROVE FALSE
      BY <1>1, <1>3
    <2>1. t * q <= t * 999
      BY <1>1, ProductGrows
    <2>2. t * 999 + t = 1000 * p
      BY <1>3
    <2>3. t * q \in Int
      BY <1>1
    <2> HIDE DEF q, t
    <2> QED
      BY <1>1, <2>1, <2>2, <2>3
  <1> QED
    BY <1>2, <1>3
=============================================================================
