------------------------------ MODULE DataLemmas ------------------------------
(***************************************************************************)
(* Facts about sequences, finite sets and sums over them that the proofs   *)
(* of several components use.  What MapThenSumSet computes is shown by way *)
(* of a set of smallest counterexamples, which Least says cannot be there. *)
(***************************************************************************)
EXTENDS SequenceTheorems, FiniteSetTheorems, FiniteSetsExt, TLAPS

\* Appending to the second of two sequences appends to both of them.
LEMMA AppendConcat ==
  ASSUME NEW S, NEW s \in Seq(S), NEW u \in Seq(S), NEW x \in S
  PROVE  s \o Append(u, x) = Append(s \o u, x)
<1> DEFINE v == <<x>>
<1>1. v \in Seq(S)
  OBVIOUS
<1>2. s \o u \in Seq(S)
  BY ConcatProperties
<1>3. Append(u, x) = u \o v /\ Append(s \o u, x) = (s \o u) \o v
  BY <1>2, AppendIsConcat
<1> HIDE DEF v
<1>4. (s \o u) \o v = s \o (u \o v)
  BY <1>1, ConcatAssociative
<1> QED
  BY <1>3, <1>4

-------------------------------------------------------------------------------
\* A set of natural numbers that is not empty has a least element.
LEMMA Least ==
  ASSUME NEW T \in SUBSET Nat, T # {}
  PROVE  \E n \in T : \A m \in T : n <= m
<1> DEFINE R == OpToRel(<, Nat)
<1>1. IsWellFoundedOn(R, Nat)
  BY NatLessThanWellFounded
<1>2. \A x, y \in Nat : <<y, x>> \in R <=> y < x
  BY DEF OpToRel
<1> HIDE DEF R
<1>3. PICK n \in T : \A m \in T : <<m, n>> \notin R
  BY <1>1, WFMin
<1>4. \A m \in T : ~(m < n) /\ m \in Nat /\ n \in Nat
  BY <1>2, <1>3
<1> QED
  BY <1>4

\* What MapThenSumSet is defined by: g[s] is the sum of f over s, for every s
\* in D, taken element by element.
Pick(s) == CHOOSE x \in s : TRUE

SumsOf(f, D, g) ==
  g = [s \in D |-> IF s = {} THEN 0 ELSE f[Pick(s)] + g[s \ {Pick(s)}]]

\* The sum of f over S.
Sum(f, S) == MapThenSumSet(LAMBDA x : f[x], S)

\* The subsets of S with up to n elements.
SmallSubsets(S, n) == {s \in SUBSET S : Cardinality(s) <= n}

\* There are sums over the subsets of up to n elements, whatever n.
LEMMA SmallSums ==
  ASSUME NEW f, NEW S, IsFiniteSet(S)
  PROVE  \A n \in Nat : \E g : SumsOf(f, SmallSubsets(S, n), g)
<1> DEFINE D(n) == SmallSubsets(S, n)
           Bad == {n \in Nat : ~ \E g : SumsOf(f, D(n), g)}
<1>1. ASSUME Bad # {} PROVE FALSE
  <2>1. PICK n \in Bad : \A m \in Bad : n <= m
    BY <1>1, Least
  <2>2. \A s \in D(n) : s \subseteq S /\ IsFiniteSet(s) /\ Cardinality(s) \in Nat
    BY FS_Subset, FS_CardinalityType DEF SmallSubsets
  <2>3. CASE n = 0
    <3> DEFINE g == [s \in D(0) |-> 0]
    <3>1. \A s \in D(0) : s = {}
      BY <2>2, <2>3, FS_EmptySet DEF SmallSubsets
    <3>2. SumsOf(f, D(0), g)
      BY <3>1 DEF SumsOf
    <3> QED BY <2>1, <2>3, <3>2
  <2>4. CASE n # 0
    <3>1. n - 1 \in Nat /\ n - 1 \notin Bad
      BY <2>1, <2>4
    <3>2. PICK g : SumsOf(f, D(n - 1), g)
      BY <3>1
    <3> DEFINE h == [s \in D(n) |->
                       IF s = {} THEN 0 ELSE f[Pick(s)] + g[s \ {Pick(s)}]]
    <3>3. \A s \in D(n) : s # {} => s \ {Pick(s)} \in D(n - 1)
      <4>1. ASSUME NEW s \in D(n), s # {} PROVE s \ {Pick(s)} \in D(n - 1)
        <5>1. Pick(s) \in s
          BY <4>1 DEF Pick
        <5>2. Cardinality(s \ {Pick(s)}) = Cardinality(s) - 1
          BY <2>2, <5>1, FS_RemoveElement
        <5> QED BY <2>1, <2>2, <4>1, <5>2 DEF SmallSubsets
      <4> QED BY <4>1
    <3>4. D(n - 1) \subseteq D(n)
      <4>1. \A s \in SUBSET S : Cardinality(s) \in Nat
        BY FS_Subset, FS_CardinalityType
      <4> QED BY <2>1, <3>1, <4>1 DEF SmallSubsets
    <3>5. \A s \in D(n - 1) : h[s] = g[s]
      BY <3>2, <3>4 DEF SumsOf
    <3>6. SumsOf(f, D(n), h)
      <4> HIDE DEF D
      <4>1. \A s \in D(n) : s # {} => h[s \ {Pick(s)}] = g[s \ {Pick(s)}]
        BY <3>3, <3>5
      <4> QED BY <4>1 DEF SumsOf
    <3> QED BY <2>1, <3>6
  <2> QED BY <2>3, <2>4
<1> QED
  BY <1>1

\* Sum(f, S) is one of them.
LEMMA SumIsOf ==
  ASSUME NEW f, NEW S, IsFiniteSet(S)
  PROVE  \E g : SumsOf(f, SUBSET S, g) /\ Sum(f, S) = g[S]
<1> DEFINE g == CHOOSE g : SumsOf(f, SUBSET S, g)
<1>1. \A s \in SUBSET S : Cardinality(s) <= Cardinality(S)
  BY FS_Subset
<1>2. Cardinality(S) \in Nat
  BY FS_CardinalityType
<1>3. SmallSubsets(S, Cardinality(S)) = SUBSET S
  BY <1>1 DEF SmallSubsets
<1>4. \E h : SumsOf(f, SUBSET S, h)
  <2>1. \A n \in Nat : \E h : SumsOf(f, SmallSubsets(S, n), h)
    BY SmallSums
  <2>2. \E h : SumsOf(f, SmallSubsets(S, Cardinality(S)), h)
    BY <1>2, <2>1
  <2> QED BY <1>3, <2>2, Zenon
<1>5. SumsOf(f, SUBSET S, g)
  BY <1>4
<1>6. Sum(f, S) = g[S]
  BY DEF Sum, MapThenSumSet, MapThenFoldSet, SumsOf, Pick
<1> QED BY <1>5, <1>6

\* Sums of the same function agree where both are there.
LEMMA SumsAgree ==
  ASSUME NEW f, NEW S, IsFiniteSet(S), NEW T \in SUBSET S, NEW g, NEW h,
         SumsOf(f, SUBSET S, g), SumsOf(f, SUBSET T, h)
  PROVE  g[T] = h[T]
<1> DEFINE Bad == {n \in Nat : \E s \in SUBSET T : Cardinality(s) = n /\ g[s] # h[s]}
<1>1. \A s \in SUBSET T : IsFiniteSet(s) /\ Cardinality(s) \in Nat
  BY FS_Subset, FS_CardinalityType
<1>2. ASSUME Bad # {} PROVE FALSE
  <2>1. PICK n \in Bad : \A m \in Bad : n <= m
    BY <1>2, Least
  <2>2. PICK s \in SUBSET T : Cardinality(s) = n /\ g[s] # h[s]
    BY <2>1
  <2>3. s # {}
    BY <2>2 DEF SumsOf
  <2> DEFINE r == s \ {Pick(s)}
  <2>4. r \in SUBSET T /\ Cardinality(r) = n - 1
    BY <1>1, <2>2, <2>3, FS_RemoveElement DEF Pick
  <2>5. g[r] = h[r]
    BY <1>1, <2>1, <2>4
  <2>6. g[s] = f[Pick(s)] + g[r] /\ h[s] = f[Pick(s)] + h[r]
    BY <2>2, <2>3 DEF SumsOf
  <2> QED BY <2>2, <2>5, <2>6
<1> QED
  BY <1>1, <1>2

\* The recursion of MapThenSumSet, for any finite set.
LEMMA SumStep ==
  ASSUME NEW f, NEW S, IsFiniteSet(S)
  PROVE  Sum(f, S) = IF S = {} THEN 0 ELSE f[Pick(S)] + Sum(f, S \ {Pick(S)})
<1> DEFINE T == S \ {Pick(S)}
<1>1. IsFiniteSet(T) /\ T \in SUBSET S
  BY FS_Subset
<1>2. PICK g : SumsOf(f, SUBSET S, g) /\ Sum(f, S) = g[S]
  BY SumIsOf
<1> HIDE DEF T
<1>3. PICK h : SumsOf(f, SUBSET T, h) /\ Sum(f, T) = h[T]
  BY <1>1, SumIsOf
<1>4. g[T] = h[T]
  BY <1>1, <1>2, <1>3, SumsAgree
<1>5. g[S] = IF S = {} THEN 0 ELSE f[Pick(S)] + g[T]
  BY <1>2 DEF SumsOf, T
<1> QED
  BY <1>2, <1>3, <1>4, <1>5 DEF T

\* A sum of natural numbers is one, and can be taken in any order.
LEMMA SumAdd ==
  ASSUME NEW f, NEW S, IsFiniteSet(S), \A x \in S : f[x] \in Nat
  PROVE  /\ Sum(f, S) \in Nat
         /\ \A x \in S : Sum(f, S) = f[x] + Sum(f, S \ {x})
<1> DEFINE Good(s) == /\ Sum(f, s) \in Nat
                      /\ \A x \in s : Sum(f, s) = f[x] + Sum(f, s \ {x})
           Bad == {n \in Nat : \E s \in SUBSET S : Cardinality(s) = n /\ ~Good(s)}
<1>1. \A s \in SUBSET S : IsFiniteSet(s) /\ Cardinality(s) \in Nat
  BY FS_Subset, FS_CardinalityType
<1>2. ASSUME Bad # {} PROVE FALSE
  <2>1. PICK n \in Bad : \A m \in Bad : n <= m
    BY <1>2, Least
  <2>2. PICK s \in SUBSET S : Cardinality(s) = n /\ ~Good(s)
    BY <2>1
  <2>3. s # {}
    <3>1. Sum(f, {}) = 0
      BY SumStep, FS_EmptySet
    <3> QED BY <2>2, <3>1
  <2> DEFINE p == Pick(s)
  <2>4. p \in s /\ Sum(f, s) = f[p] + Sum(f, s \ {p})
    BY <1>1, <2>3, SumStep DEF Pick
  <2> HIDE DEF p, Good
  <2>5. \A r \in SUBSET S : Cardinality(r) < n => Good(r)
    BY <1>1, <2>1
  <2>6. \A x \in s : s \ {x} \in SUBSET S /\ Cardinality(s \ {x}) = n - 1
    BY <1>1, <2>2, FS_RemoveElement
  <2>7. \A x \in s : Good(s \ {x})
    BY <2>1, <2>5, <2>6
  <2>8. Sum(f, s) \in Nat
    BY <2>4, <2>7 DEF Good
  <2>9. ASSUME NEW x \in s, x # p PROVE Sum(f, s) = f[x] + Sum(f, s \ {x})
    <3> DEFINE r == (s \ {x}) \ {p}
    <3>1. r = (s \ {p}) \ {x}
      OBVIOUS
    <3>2. r \in SUBSET S /\ Cardinality(r) < n
      <4>1. p \in s \ {x} /\ IsFiniteSet(s \ {x}) /\ r \in SUBSET S
        BY <1>1, <2>4, <2>6, <2>9
      <4>2. Cardinality(r) = Cardinality(s \ {x}) - 1
        BY <4>1, FS_RemoveElement
      <4> QED BY <2>1, <2>6, <4>1, <4>2
    <3>3. Sum(f, s \ {p}) = f[x] + Sum(f, r)
      BY <2>4, <2>7, <2>9, <3>1 DEF Good
    <3>4. Sum(f, s \ {x}) = f[p] + Sum(f, r)
      BY <2>4, <2>7, <2>9 DEF Good
    <3>5. Sum(f, r) \in Nat /\ f[x] \in Nat /\ f[p] \in Nat
      BY <2>4, <2>5, <3>2 DEF Good
    <3> QED BY <2>4, <3>3, <3>4, <3>5
  <2> QED BY <2>2, <2>4, <2>8, <2>9 DEF Good
<1>3. Good(S)
  BY <1>1, <1>2
<1> QED
  BY <1>3

\* A sum is as monotone as its summands are.
LEMMA SumLeq ==
  ASSUME NEW f, NEW g, NEW S, IsFiniteSet(S),
         \A x \in S : f[x] \in Nat /\ g[x] \in Nat /\ f[x] <= g[x]
  PROVE  Sum(f, S) <= Sum(g, S)
<1> DEFINE Bad == {n \in Nat : \E s \in SUBSET S :
                     Cardinality(s) = n /\ ~(Sum(f, s) <= Sum(g, s))}
<1>1. \A s \in SUBSET S : IsFiniteSet(s) /\ Cardinality(s) \in Nat
  BY FS_Subset, FS_CardinalityType
<1>2. ASSUME Bad # {} PROVE FALSE
  <2>1. PICK n \in Bad : \A m \in Bad : n <= m
    BY <1>2, Least
  <2>2. PICK s \in SUBSET S : Cardinality(s) = n /\ ~(Sum(f, s) <= Sum(g, s))
    BY <2>1
  <2>3. CASE s = {}
    <3>1. Sum(f, {}) = 0 /\ Sum(g, {}) = 0
      BY SumStep, FS_EmptySet
    <3> QED BY <2>2, <2>3, <3>1
  <2>4. CASE s # {}
    <3>1. PICK x \in s : TRUE
      BY <2>4
    <3> DEFINE r == s \ {x}
    <3>2. r \in SUBSET S /\ Cardinality(r) = n - 1
      BY <1>1, <2>2, <3>1, FS_RemoveElement
    <3>3. Sum(f, r) <= Sum(g, r)
      BY <1>1, <2>1, <3>2
    <3>4. Sum(f, s) = f[x] + Sum(f, r) /\ Sum(g, s) = g[x] + Sum(g, r)
      BY <1>1, <2>2, <3>1, SumAdd
    <3>5. Sum(f, r) \in Nat /\ Sum(g, r) \in Nat
      BY <1>1, <3>2, SumAdd
    <3> QED BY <2>2, <3>1, <3>3, <3>4, <3>5
  <2> QED BY <2>3, <2>4
<1> QED
  BY <1>1, <1>2

\* A sum over fewer numbers is not greater.
LEMMA SumSubset ==
  ASSUME NEW f, NEW S, IsFiniteSet(S), \A x \in S : f[x] \in Nat,
         NEW T \in SUBSET S
  PROVE  /\ Sum(f, T) <= Sum(f, S)
         /\ (\A x \in S \ T : f[x] = 0) => Sum(f, T) = Sum(f, S)
<1> DEFINE Good(s) == /\ Sum(f, T) <= Sum(f, s)
                      /\ (\A x \in s \ T : f[x] = 0) => Sum(f, T) = Sum(f, s)
           Bad == {n \in Nat : \E s \in SUBSET S :
                     T \subseteq s /\ Cardinality(s) = n /\ ~Good(s)}
<1>1. \A s \in SUBSET S : IsFiniteSet(s) /\ Cardinality(s) \in Nat
  BY FS_Subset, FS_CardinalityType
<1>2. \A s \in SUBSET S : Sum(f, s) \in Nat
  BY <1>1, SumAdd
<1>3. ASSUME Bad # {} PROVE FALSE
  <2>1. PICK n \in Bad : \A m \in Bad : n <= m
    BY <1>3, Least
  <2>2. PICK s \in SUBSET S : T \subseteq s /\ Cardinality(s) = n /\ ~Good(s)
    BY <2>1
  <2>3. s # T
    BY <1>2, <2>2
  <2>4. PICK x \in s : x \notin T
    BY <2>2, <2>3
  <2> DEFINE r == s \ {x}
  <2>5. r \in SUBSET S /\ T \subseteq r /\ Cardinality(r) = n - 1
    BY <1>1, <2>2, <2>4, FS_RemoveElement
  <2>6. Good(r)
    <3> HIDE DEF Good
    <3> QED BY <1>1, <2>1, <2>5
  <2>7. Sum(f, s) = f[x] + Sum(f, r)
    BY <1>1, <2>2, <2>4, SumAdd
  <2> QED BY <1>2, <2>2, <2>4, <2>5, <2>6, <2>7
<1>4. Good(S)
  <2> HIDE DEF Good
  <2> QED BY <1>1, <1>3
<1> QED
  BY <1>4

\* f[k] is the number of elements of S with key k, and all have keys in K.
Counts(f, K, S, key) ==
  /\ \A x \in S : key[x] \in K
  /\ \A k \in K : f[k] = Cardinality({x \in S : key[x] = k})

\* The sizes of the parts of a finite set add up to its size.
LEMMA SumOfCounts ==
  ASSUME NEW S, IsFiniteSet(S), NEW K, IsFiniteSet(K), NEW key, NEW f,
         Counts(f, K, S, key)
  PROVE  Sum(f, K) = Cardinality(S)
<1> DEFINE P(L) == {x \in S : key[x] \in L}
           Q(k) == {x \in S : key[x] = k}
           Bad == {n \in Nat : \E L \in SUBSET K :
                     Cardinality(L) = n /\ Sum(f, L) # Cardinality(P(L))}
<1>1. /\ \A x \in S : key[x] \in K
      /\ \A k \in K : f[k] = Cardinality({x \in S : key[x] = k})
  BY DEF Counts
<1>2. \A L \in SUBSET K : IsFiniteSet(L) /\ Cardinality(L) \in Nat
  BY FS_Subset, FS_CardinalityType
<1>3. \A L \in SUBSET K : IsFiniteSet(P(L)) /\ Cardinality(P(L)) \in Nat
  BY FS_Subset, FS_CardinalityType
<1>4. \A k \in K : IsFiniteSet(Q(k)) /\ f[k] = Cardinality(Q(k)) /\ f[k] \in Nat
  <2>1. \A k \in K : Q(k) \in SUBSET S /\ f[k] = Cardinality(Q(k))
    BY <1>1
  <2> HIDE DEF Q
  <2> QED BY <2>1, FS_Subset, FS_CardinalityType
<1>5. ASSUME Bad # {} PROVE FALSE
  <2>1. PICK n \in Bad : \A m \in Bad : n <= m
    BY <1>5, Least
  <2>2. PICK L \in SUBSET K : Cardinality(L) = n /\ Sum(f, L) # Cardinality(P(L))
    BY <2>1
  <2>3. CASE L = {}
    <3>1. P(L) = {}
      BY <2>3
    <3>2. Sum(f, {}) = 0 /\ Cardinality({}) = 0
      BY SumStep, FS_EmptySet
    <3> QED BY <2>2, <2>3, <3>1, <3>2
  <2>4. CASE L # {}
    <3>1. PICK k \in L : TRUE
      BY <2>4
    <3> DEFINE M == L \ {k}
    <3>2. M \in SUBSET K /\ Cardinality(M) = n - 1
      BY <1>2, <2>2, <3>1, FS_RemoveElement
    <3>3. Sum(f, M) = Cardinality(P(M))
      <4> HIDE DEF M, P
      <4> QED BY <1>2, <2>1, <3>2
    <3>4. Sum(f, L) = f[k] + Sum(f, M)
      <4>1. IsFiniteSet(L) /\ \A x \in L : f[x] \in Nat
        BY <1>2, <1>4, <2>2
      <4> HIDE DEF Q
      <4> QED BY <3>1, <4>1, SumAdd
    <3>5. P(L) = P(M) \cup Q(k) /\ P(M) \cap Q(k) = {}
      BY <3>1
    <3> HIDE DEF P, Q, M
    <3>6. Cardinality(P(L)) = Cardinality(P(M)) + Cardinality(Q(k)) - Cardinality({})
      BY <1>3, <1>4, <2>2, <3>1, <3>2, <3>5, FS_Union
    <3>7. Cardinality({}) = 0
      BY FS_EmptySet, Zenon
    <3> QED BY <1>3, <1>4, <2>2, <3>1, <3>2, <3>3, <3>4, <3>6, <3>7
  <2> QED BY <2>3, <2>4
<1>6. Sum(f, K) = Cardinality(P(K))
  <2> HIDE DEF P
  <2> QED BY <1>2, <1>5
<1>7. P(K) = S
  BY <1>1
<1> QED
  BY <1>6, <1>7

\* A sum of equal numbers is a product.
LEMMA SumConst ==
  ASSUME NEW f, NEW S, IsFiniteSet(S), NEW c \in Nat, \A x \in S : f[x] = c
  PROVE  Sum(f, S) = c * Cardinality(S)
<1> DEFINE Bad == {n \in Nat : \E s \in SUBSET S :
                     Cardinality(s) = n /\ Sum(f, s) # c * n}
<1>1. \A s \in SUBSET S : IsFiniteSet(s) /\ Cardinality(s) \in Nat
  BY FS_Subset, FS_CardinalityType
<1>2. ASSUME Bad # {} PROVE FALSE
  <2>1. PICK n \in Bad : \A m \in Bad : n <= m
    BY <1>2, Least
  <2>2. PICK s \in SUBSET S : Cardinality(s) = n /\ Sum(f, s) # c * n
    BY <2>1
  <2>3. CASE s = {}
    <3>1. Sum(f, {}) = 0 /\ Cardinality({}) = 0
      BY SumStep, FS_EmptySet
    <3>2. c * 0 = 0
      OBVIOUS
    <3>3. n = 0 /\ Sum(f, s) = 0
      BY <2>2, <2>3, <3>1, Zenon
    <3> QED BY <2>2, <3>2, <3>3, Zenon
  <2>4. CASE s # {}
    <3>1. PICK x \in s : TRUE
      BY <2>4
    <3> DEFINE r == s \ {x}
    <3>2. r \in SUBSET S /\ Cardinality(r) = n - 1
      BY <1>1, <2>2, <3>1, FS_RemoveElement
    <3>3. n \in Nat /\ n - 1 \in Nat /\ ~(n <= n - 1)
      BY <1>1, <2>1, <3>2
    <3>4. Sum(f, r) = c * (n - 1)
      BY <2>1, <3>2, <3>3
    <3>5. Sum(f, s) = f[x] + Sum(f, r)
      BY <1>1, <2>2, <3>1, SumAdd
    <3>6. c + c * (n - 1) = c * n
      BY <3>3
    <3>7. f[x] = c
      BY <2>2, <3>1
    <3> QED BY <2>2, <3>4, <3>5, <3>6, <3>7, Zenon
  <2> QED BY <2>3, <2>4
<1>3. Cardinality(S) \notin Bad /\ Cardinality(S) \in Nat
  BY <1>1, <1>2
<1> QED
  BY <1>3

\* Counting by key, and adding up, counts everything once.
LEMMA CountsAddUp ==
  ASSUME NEW S, IsFiniteSet(S), NEW key, NEW f,
         f = [k \in {key[x] : x \in S} |-> Cardinality({x \in S : key[x] = k})]
  PROVE  /\ IsFiniteSet(DOMAIN f) /\ Sum(f, DOMAIN f) = Cardinality(S)
         /\ \A k \in DOMAIN f : f[k] \in Nat
<1> DEFINE K == {key[x] : x \in S}
           g == [x \in S |-> key[x]]
<1>1. g \in Surjection(S, K)
  BY DEF Surjection
<1>2. IsFiniteSet(K) /\ DOMAIN f = K
  BY <1>1, FS_Surjection
<1>3. \A x \in S : key[x] \in K
  OBVIOUS
<1> HIDE DEF K
<1>4. \A k \in K : f[k] = Cardinality({x \in S : key[x] = k})
  BY DEF K
<1>5. Sum(f, K) = Cardinality(S)
  BY <1>2, <1>3, <1>4, SumOfCounts DEF Counts
<1>6. ASSUME NEW k \in K PROVE f[k] \in Nat
  <2>1. PICK T : T = {x \in S : key[x] = k}
    OBVIOUS
  <2>2. T \in SUBSET S
    BY <2>1
  <2> QED BY <1>4, <2>1, <2>2, FS_Subset, FS_CardinalityType
<1> QED
  BY <1>2, <1>5, <1>6

===============================================================================
