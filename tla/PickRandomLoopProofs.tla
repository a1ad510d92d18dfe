------------------------- MODULE PickRandomLoopProofs -------------------------
(***************************************************************************)
(* The loop of pickRandom against PickRandom, for candidates of any number *)
(* and in any order: what the loop can return are the sets PickRandom has, *)
(* each element once.  Of the loop's picks only the first two are ever     *)
(* made: CreatePR draws two reviewers, every replacement one.              *)
(***************************************************************************)
EXTENDS PickRandomLoop, DataLemmas

-------------------------------------------------------------------------------
(* The picks of the loop.                                                  *)

\* The slices before the first pick.
Start(src) == {[array |-> src, res |-> <<>>]}

\* The slices after a pick among the first len, when those of T were there
\* before it.
NextPick(T, len) ==
  {[array |-> CutOut(s.array, i, len), res |-> Append(s.res, s.array[i])] :
     s \in T, i \in 1..len}

\* The slices after pick k of src.
AfterPick(src, k, T) == NextPick(T, Len(src) - (k - 1))

\* What Picked is defined by, for up to m picks.
PicksOf(src, m, g) ==
  g = [k \in 0..m |-> IF k = 0 THEN Start(src) ELSE AfterPick(src, k, g[k - 1])]

\* There are such slices for any number of picks.
LEMMA SomePicks ==
  ASSUME NEW src
  PROVE  \A m \in Nat : \E g : PicksOf(src, m, g)
<1> DEFINE Bad == {m \in Nat : ~ \E g : PicksOf(src, m, g)}
<1>1. ASSUME Bad # {} PROVE FALSE
  <2>1. PICK m \in Bad : \A j \in Bad : m <= j
    BY <1>1, Least
  <2>2. CASE m = 0
    <3> DEFINE g == [k \in 0..m |-> Start(src)]
    <3>1. \A k \in 0..m : k = 0
      BY <2>2
    <3>2. g = [k \in 0..m |-> IF k = 0 THEN Start(src) ELSE AfterPick(src, k, g[k - 1])]
      BY <3>1
    <3> QED BY <3>2 DEF PicksOf
  <2>3. CASE m # 0
    <3>1. m \in Nat /\ m - 1 \in Nat /\ ~(m <= m - 1)
      BY <2>1, <2>3
    <3>2. PICK h : PicksOf(src, m - 1, h)
      BY <2>1, <3>1
    <3> DEFINE g == [k \in 0..m |-> IF k = m THEN AfterPick(src, m, h[m - 1]) ELSE h[k]]
    <3>3. \A k \in 0..(m - 1) :
            h[k] = IF k = 0 THEN Start(src) ELSE AfterPick(src, k, h[k - 1])
      BY <3>2 DEF PicksOf
    <3>4. /\ g[m] = AfterPick(src, m, h[m - 1])
          /\ \A k \in 0..(m - 1) : g[k] = h[k]
      BY <3>1
    <3>5. g = [k \in 0..m |-> g[k]]
      OBVIOUS
    <3> HIDE DEF g
    <3>6. ASSUME NEW k \in 0..m
          PROVE  g[k] = IF k = 0 THEN Start(src) ELSE AfterPick(src, k, g[k - 1])
      <4>1. CASE k = m
        <5>1. g[m - 1] = h[m - 1]
          BY <3>1, <3>4
        <5> QED BY <2>3, <3>4, <4>1, <5>1
      <4>2. CASE k # m /\ k # 0
        <5>1. k \in 0..(m - 1) /\ k - 1 \in 0..(m - 1)
          BY <3>1, <4>2
        <5>2. g[k] = h[k] /\ g[k - 1] = h[k - 1]
          BY <3>4, <5>1
        <5> QED BY <3>3, <4>2, <5>1, <5>2
      <4>3. CASE k = 0 /\ k # m
        <5>1. k \in 0..(m - 1)
          BY <3>1, <4>3
        <5> QED BY <3>3, <3>4, <4>3, <5>1
      <4> QED BY <4>1, <4>2, <4>3
    <3>7. PicksOf(src, m, g)
      BY <3>5, <3>6 DEF PicksOf
    <3> QED BY <2>1, <3>7
  <2> QED BY <2>2, <2>3
<1> QED
  BY <1>1

\* What is there before and after a pick.
LEMMA PickedIs ==
  ASSUME NEW src, Len(src) \in Nat
  PROVE  /\ Picked(src)[0] = Start(src)
         /\ \A k \in 1..Len(src) :
              Picked(src)[k] = AfterPick(src, k, Picked(src)[k - 1])
<1> DEFINE g == CHOOSE g : PicksOf(src, Len(src), g)
<1>1. Picked(src) = g
  BY DEF Picked, PicksOf, AfterPick, NextPick, Start
<1>2. PicksOf(src, Len(src), g)
  BY SomePicks
<1> HIDE DEF g
<1> QED
  BY <1>1, <1>2 DEF PicksOf

\* The sets with one and with two elements.
LEMMA SmallSets ==
  ASSUME NEW S, IsFiniteSet(S), NEW R \in SUBSET S
  PROVE  /\ Cardinality(R) = 1 <=> \E x \in S : R = {x}
         /\ Cardinality(R) = 2 <=> \E x, y \in S : x # y /\ R = {x, y}
<1>1. IsFiniteSet(R) /\ Cardinality(R) \in Nat
  BY FS_Subset, FS_CardinalityType
<1>2. Cardinality(R) = 1 <=> \E x \in S : R = {x}
  BY <1>1, FS_Singleton
<1>3. ASSUME NEW x \in S, NEW y \in S, x # y, R = {x, y}
      PROVE  Cardinality(R) = 2
  <2> DEFINE T == {x}
  <2>1. IsFiniteSet(T) /\ Cardinality(T) = 1 /\ y \notin T
    BY <1>3, FS_Singleton
  <2>2. R = T \cup {y}
    BY <1>3
  <2> HIDE DEF T
  <2>3. Cardinality(T \cup {y}) = 1 + 1
    BY <2>1, FS_AddElement
  <2> QED BY <2>2, <2>3
<1>4. ASSUME Cardinality(R) = 2
      PROVE  \E x, y \in S : x # y /\ R = {x, y}
  <2>1. R # {}
    <3>1. Cardinality({}) = 0
      BY FS_EmptySet, Zenon
    <3> QED BY <1>4, <3>1
  <2>2. PICK x \in R : TRUE
    BY <2>1
  <2> DEFINE T == R \ {x}
  <2>3. IsFiniteSet(T) /\ Cardinality(T) = 2 - 1
    BY <1>1, <1>4, FS_RemoveElement
  <2>4. Cardinality(T) = 1
    BY <2>3
  <2> HIDE DEF T
  <2>5. PICK y : T = {y}
    BY <2>3, <2>4, FS_Singleton
  <2>6. y \in R /\ y # x /\ R = {x, y}
    BY <2>5 DEF T
  <2> QED BY <2>6
<1> QED
  BY <1>2, <1>3, <1>4

\* src lists S: every element once.
Lists(src, S) ==
  /\ src \in [1..Cardinality(S) -> S]
  /\ \A i, j \in 1..Cardinality(S) : i # j => src[i] # src[j]

\* Such a list is a sequence of all elements.
LEMMA ListsIs ==
  ASSUME NEW S, IsFiniteSet(S), NEW src, Lists(src, S)
  PROVE  /\ src \in Seq(S) /\ Len(src) = Cardinality(S) /\ Cardinality(S) \in Nat
         /\ \A x \in S : \E i \in 1..Cardinality(S) : src[i] = x
         /\ IsInjective(src) /\ Range(src) = S
<1> DEFINE n == Cardinality(S)
           D == 1..n
<1>1. n \in Nat /\ src \in [D -> S] /\ \A i, j \in D : i # j => src[i] # src[j]
  BY FS_CardinalityType DEF Lists
<1>2. src \in Seq(S)
  BY <1>1
<1>3. Len(src) = n
  BY <1>1, <1>2
<1>4. IsFiniteSet(D) /\ Cardinality(D) = n
  BY <1>1, FS_Interval
<1> HIDE DEF n
<1>5. IsInjective(src)
  BY <1>1 DEF IsInjective
<1> HIDE DEF D
<1>6. src \in Injection(D, S)
  BY <1>1, <1>5 DEF Injection
<1>7. src \in Surjection(D, S)
  BY <1>4, <1>6, FS_Injection DEF n
<1>8. \A x \in S : \E i \in D : src[i] = x
  BY <1>7 DEF Surjection
<1>9. Range(src) = S
  BY <1>1, <1>8 DEF Range
<1> QED
  BY <1>1, <1>2, <1>3, <1>5, <1>8, <1>9 DEF n, D

\* src has n different elements.
Different(src, n) == \A i, j \in 1..n : i # j => src[i] # src[j]

\* a has the elements of src but its i-th in front, each of them once.
Without(a, src, i, n, S) ==
  /\ a \in [1..n -> S]
  /\ \A j \in 1..(n - 1) : a[j] = IF i <= j THEN src[j + 1] ELSE src[j]
  /\ \A j \in 1..(n - 1) : a[j] # src[i]
  /\ \A j, k \in 1..(n - 1) : j # k => a[j] # a[k]

\* A list cut at i has the other elements in front, each of them once.
LEMMA CutOutIs ==
  ASSUME NEW S, NEW n \in Nat, NEW src \in [1..n -> S], Different(src, n),
         NEW i \in 1..n, NEW a, a = CutOut(src, i, n)
  PROVE  Without(a, src, i, n, S)
<1>. USE DEF Different
<1>1. a = [j \in 1..n |-> IF i <= j /\ j < n THEN src[j + 1] ELSE src[j]]
  BY DEF CutOut
<1>2. \A j \in 1..n : j < n => j + 1 \in 1..n
  OBVIOUS
<1>3. a \in [1..n -> S]
  BY <1>1, <1>2
<1>4. \A j \in 1..(n - 1) : a[j] = IF i <= j THEN src[j + 1] ELSE src[j]
  BY <1>1
<1>5. \A j \in 1..(n - 1) : a[j] # src[i]
  BY <1>4
<1>6. ASSUME NEW j \in 1..(n - 1), NEW k \in 1..(n - 1), j # k
      PROVE  a[j] # a[k]
  <2>1. j \in 1..n /\ k \in 1..n /\ j + 1 \in 1..n /\ k + 1 \in 1..n
    OBVIOUS
  <2> QED BY <1>4, <1>6, <2>1
<1> QED
  BY <1>3, <1>4, <1>5, <1>6 DEF Without

\* Results with one and with two elements.
LEMMA OnePicked ==
  ASSUME NEW x
  PROVE  IsInjective(<<x>>) /\ Range(<<x>>) = {x}
<1>1. DOMAIN <<x>> = {1} /\ <<x>>[1] = x
  OBVIOUS
<1> QED
  BY <1>1 DEF IsInjective, Range

LEMMA TwoPicked ==
  ASSUME NEW x, NEW y, x # y
  PROVE  IsInjective(<<x, y>>) /\ Range(<<x, y>>) = {x, y}
<1>1. DOMAIN <<x, y>> = {1, 2} /\ <<x, y>>[1] = x /\ <<x, y>>[2] = y
  OBVIOUS
<1> QED
  BY <1>1 DEF IsInjective, Range

\* One pick of one of the slices.
LEMMA NextPickIs ==
  ASSUME NEW T, NEW len, NEW q
  PROVE  q \in NextPick(T, len) <=>
           \E s \in T, i \in 1..len :
             q = [array |-> CutOut(s.array, i, len), res |-> Append(s.res, s.array[i])]
BY DEF NextPick

\* Appending to one result.
LEMMA AppendToOne ==
  ASSUME NEW x, NEW y
  PROVE  Append(<<x>>, y) = <<x, y>>
<1>1. PICK T, u, v : T = {x, y} /\ u = <<x>> /\ v = <<x, y>>
  OBVIOUS
<1>2. /\ u \in Seq(T) /\ Len(u) = 1 /\ u[1] = x /\ y \in T
      /\ v \in Seq(T) /\ Len(v) = 2 /\ v[1] = x /\ v[2] = y
  BY <1>1
<1>3. PICK w : w = Append(u, y)
  OBVIOUS
<1>4. w \in Seq(T) /\ Len(w) = Len(u) + 1
  BY <1>2, <1>3, AppendProperties
<1>5. (\A i \in 1..Len(u) : w[i] = u[i]) /\ w[Len(u) + 1] = y
  BY <1>2, <1>3, AppendProperties
<1>6. Len(w) = 2 /\ \A i \in 1..2 : w[i] = v[i]
  BY <1>2, <1>4, <1>5
<1>7. w = v
  BY <1>2, <1>4, <1>6, SeqEqual
<1> QED
  BY <1>1, <1>3, <1>7

\* What the first pick leaves and takes.
LEMMA FirstPick ==
  ASSUME NEW S, IsFiniteSet(S), NEW src, Lists(src, S), Cardinality(S) > 0
  PROVE  \A q : q \in Picked(src)[1] <=>
           \E i \in 1..Cardinality(S) :
             q = [array |-> CutOut(src, i, Cardinality(S)), res |-> <<src[i]>>]
<1> DEFINE n == Cardinality(S)
<1>1. Len(src) = n /\ n \in Nat /\ n > 0 /\ Len(src) \in Nat
  BY ListsIs
<1>2. /\ Picked(src)[0] = Start(src)
      /\ \A k \in 1..n : Picked(src)[k] = AfterPick(src, k, Picked(src)[k - 1])
  BY <1>1, PickedIs
<1> HIDE DEF n
<1>3. Picked(src)[1] = AfterPick(src, 1, Start(src))
  BY <1>1, <1>2
<1>4. Len(src) - (1 - 1) = n
  BY <1>1
<1>5. Picked(src)[1] = NextPick(Start(src), n)
  BY <1>3, <1>4 DEF AfterPick
<1>6. \A i : Append(<<>>, src[i]) = <<src[i]>>
  OBVIOUS
<1>7. PICK s : s = [array |-> src, res |-> <<>>]
  OBVIOUS
<1>8. Start(src) = {s} /\ s.array = src /\ s.res = <<>>
  BY <1>7 DEF Start
<1>9. ASSUME NEW q
      PROVE  q \in Picked(src)[1] <=>
               \E i \in 1..n : q = [array |-> CutOut(src, i, n), res |-> <<src[i]>>]
  <2>1. q \in NextPick({s}, n) <=>
          \E x \in {s}, i \in 1..n :
            q = [array |-> CutOut(x.array, i, n), res |-> Append(x.res, x.array[i])]
    BY NextPickIs
  <2>2. q \in NextPick({s}, n) <=>
          \E i \in 1..n :
            q = [array |-> CutOut(s.array, i, n), res |-> Append(s.res, s.array[i])]
    BY <2>1
  <2> QED BY <1>5, <1>6, <1>8, <2>2
<1> QED
  BY <1>9 DEF n

\* What the second pick takes: an element of those the first one has left.
LEMMA SecondPick ==
  ASSUME NEW S, IsFiniteSet(S), NEW src, Lists(src, S), Cardinality(S) > 1
  PROVE  /\ \A q \in Picked(src)[2] :
              \E i \in 1..Cardinality(S), j \in 1..(Cardinality(S) - 1) :
                q.res = <<src[i], CutOut(src, i, Cardinality(S))[j]>>
         /\ \A i \in 1..Cardinality(S), j \in 1..(Cardinality(S) - 1) :
              \E q \in Picked(src)[2] :
                q.res = <<src[i], CutOut(src, i, Cardinality(S))[j]>>
<1> DEFINE n == Cardinality(S)
           T == Picked(src)[1]
<1>1. Len(src) = n /\ n \in Nat /\ n > 1 /\ Len(src) \in Nat
  BY ListsIs
<1>2. \A q : q \in T <=>
        \E i \in 1..n : q = [array |-> CutOut(src, i, n), res |-> <<src[i]>>]
  BY <1>1, FirstPick
<1>3. \A k \in 1..n : Picked(src)[k] = AfterPick(src, k, Picked(src)[k - 1])
  BY <1>1, PickedIs
<1> HIDE DEF n
<1>4. Picked(src)[2] = AfterPick(src, 2, T)
  <2>1. 2 \in 1..n /\ 2 - 1 = 1
    BY <1>1
  <2> QED BY <1>3, <2>1
<1>5. Len(src) - (2 - 1) = n - 1
  BY <1>1
<1> HIDE DEF T
<1>6. Picked(src)[2] = NextPick(T, n - 1)
  BY <1>4, <1>5 DEF AfterPick
<1>7. \A x, y : Append(<<x>>, y) = <<x, y>>
  BY AppendToOne
<1>8. ASSUME NEW q \in Picked(src)[2]
      PROVE  \E i \in 1..n, j \in 1..(n - 1) : q.res = <<src[i], CutOut(src, i, n)[j]>>
  <2>1. PICK s \in T, j \in 1..(n - 1) :
          q = [array |-> CutOut(s.array, j, n - 1), res |-> Append(s.res, s.array[j])]
    BY <1>6, <1>8, NextPickIs
  <2>2. PICK i \in 1..n : s = [array |-> CutOut(src, i, n), res |-> <<src[i]>>]
    BY <1>2
  <2>3. q.res = Append(<<src[i]>>, CutOut(src, i, n)[j])
    BY <2>1, <2>2
  <2> QED BY <1>7, <2>3
<1>9. ASSUME NEW i \in 1..n, NEW j \in 1..(n - 1)
      PROVE  \E q \in Picked(src)[2] : q.res = <<src[i], CutOut(src, i, n)[j]>>
  <2>1. PICK s : s = [array |-> CutOut(src, i, n), res |-> <<src[i]>>]
    OBVIOUS
  <2>2. s \in T
    BY <1>2, <2>1
  <2>3. PICK q : q = [array |-> CutOut(s.array, j, n - 1),
                     res   |-> Append(s.res, s.array[j])]
    OBVIOUS
  <2>4. q \in Picked(src)[2]
    BY <1>6, <2>2, <2>3, NextPickIs
  <2>5. q.res = Append(<<src[i]>>, CutOut(src, i, n)[j])
    BY <2>1, <2>3
  <2> QED BY <1>7, <2>4, <2>5
<1> QED
  BY <1>8, <1>9 DEF n

\* The head of a slice.
LEMMA HeadIs ==
  ASSUME NEW S, NEW n \in Nat, NEW a \in [1..n -> S]
  PROVE  /\ 1 <= n => SubSeq(a, 1, 1) = <<a[1]>>
         /\ 2 <= n => SubSeq(a, 1, 2) = <<a[1], a[2]>>
<1>1. a \in Seq(S) /\ Len(a) = n
  OBVIOUS
<1>2. ASSUME 1 <= n PROVE SubSeq(a, 1, 1) = <<a[1]>>
  <2>1. PICK w, v : w = SubSeq(a, 1, 1) /\ v = <<a[1]>>
    OBVIOUS
  <2>2. a[1] \in S
    BY <1>2
  <2>3. v \in Seq(S) /\ Len(v) = 1 /\ v[1] = a[1]
    BY <2>1, <2>2
  <2>4. w \in Seq(S) /\ Len(w) = 1 /\ w[1] = a[1]
    BY <1>1, <1>2, <2>1
  <2>5. \A i \in 1..1 : w[i] = v[i]
    BY <2>3, <2>4
  <2>6. w = v
    BY <2>3, <2>4, <2>5, SeqEqual
  <2> QED BY <2>1, <2>6
<1>3. ASSUME 2 <= n PROVE SubSeq(a, 1, 2) = <<a[1], a[2]>>
  <2>1. PICK w, v : w = SubSeq(a, 1, 2) /\ v = <<a[1], a[2]>>
    OBVIOUS
  <2>2. a[1] \in S /\ a[2] \in S
    BY <1>3
  <2>3. v \in Seq(S) /\ Len(v) = 2 /\ v[1] = a[1] /\ v[2] = a[2]
    BY <2>1, <2>2
  <2>4. w \in Seq(S) /\ Len(w) = 2 /\ w[1] = a[1] /\ w[2] = a[2]
    BY <1>1, <1>3, <2>1
  <2>5. \A i \in 1..2 : w[i] = v[i]
    BY <2>3, <2>4
  <2>6. w = v
    BY <2>3, <2>4, <2>5, SeqEqual
  <2> QED BY <2>1, <2>6
<1> QED
  BY <1>2, <1>3

\* What is true of one element taken of a list, and of two different ones.
Draws1(S, s) == IsInjective(s) /\ \E x \in S : Range(s) = {x}
Draws2(S, s) == IsInjective(s) /\ \E x, y \in S : x # y /\ Range(s) = {x, y}

\* The results of one pick out of more than one.
LEMMA OneOfMany ==
  ASSUME NEW S, IsFiniteSet(S), NEW src, Lists(src, S), Cardinality(S) > 1
  PROVE  /\ \A s \in PickRandomSlices(src, 1) : Draws1(S, s)
         /\ \A x \in S : \E s \in PickRandomSlices(src, 1) : Range(s) = {x}
<1>1. PICK n : n = Cardinality(S)
  OBVIOUS
<1>2. /\ n \in Nat /\ n > 1 /\ src \in [1..n -> S] /\ Len(src) = n
      /\ \A x \in S : \E i \in 1..n : src[i] = x
  <2>1. /\ Len(src) = Cardinality(S) /\ Cardinality(S) \in Nat
        /\ \A x \in S : \E i \in 1..Cardinality(S) : src[i] = x
    BY ListsIs
  <2>2. src \in [1..Cardinality(S) -> S]
    BY DEF Lists
  <2> QED BY <1>1, <2>1, <2>2
<1>3. \A q : q \in Picked(src)[1] <=>
        \E i \in 1..n : q = [array |-> CutOut(src, i, n), res |-> <<src[i]>>]
  BY <1>1, <1>2, FirstPick
<1>4. Picked(src)[0] = Start(src)
  BY <1>2, PickedIs
<1>5. PickRandomSlices(src, 1) =
        {s.res : s \in Picked(src)[1]}
        \cup {SubSeq(s.array, 1, 1) : s \in UNION {Picked(src)[k] : k \in 0..(1 - 1)}}
  BY <1>2 DEF PickRandomSlices
<1>6. \A i \in 1..n : src[i] \in S
  BY <1>2
<1>7. ASSUME NEW s \in PickRandomSlices(src, 1)
      PROVE  \E i \in 1..n : s = <<src[i]>>
  <2>1. CASE s \in {q.res : q \in Picked(src)[1]}
    BY <1>3, <2>1
  <2>2. CASE s \in {SubSeq(q.array, 1, 1) :
                      q \in UNION {Picked(src)[k] : k \in 0..(1 - 1)}}
    <3>1. PICK k \in 0..(1 - 1) : \E q \in Picked(src)[k] : s = SubSeq(q.array, 1, 1)
      BY <2>2
    <3>2. PICK q \in Picked(src)[k] : s = SubSeq(q.array, 1, 1)
      BY <3>1
    <3>3. q \in Start(src)
      <4>1. k = 0
        OBVIOUS
      <4> QED BY <1>4, <3>2, <4>1
    <3>4. q.array = src
      BY <3>3 DEF Start
    <3>5. SubSeq(src, 1, 1) = <<src[1]>>
      <4>1. 1 <= n /\ n \in Nat /\ src \in [1..n -> S]
        BY <1>2
      <4> QED BY ONLY <4>1, HeadIs
    <3>6. s = <<src[1]>> /\ 1 \in 1..n
      BY <1>2, <3>2, <3>4, <3>5
    <3> QED BY <3>6
  <2> QED BY <1>5, <1>7, <2>1, <2>2
<1>8. ASSUME NEW i \in 1..n
      PROVE  <<src[i]>> \in PickRandomSlices(src, 1)
  <2>1. PICK q : q = [array |-> CutOut(src, i, n), res |-> <<src[i]>>]
    OBVIOUS
  <2>2. q \in Picked(src)[1] /\ q.res = <<src[i]>>
    BY <1>3, <2>1
  <2> QED BY <1>5, <2>2
<1>9. \A s \in PickRandomSlices(src, 1) : Draws1(S, s)
  BY <1>6, <1>7, OnePicked DEF Draws1
<1>10. ASSUME NEW x \in S
       PROVE  \E s \in PickRandomSlices(src, 1) : Range(s) = {x}
  BY <1>2, <1>8, OnePicked
<1> QED
  BY <1>9, <1>10

\* The results of two picks out of more than two.
LEMMA TwoOfMany ==
  ASSUME NEW S, IsFiniteSet(S), NEW src, Lists(src, S), Cardinality(S) > 2
  PROVE  /\ \A s \in PickRandomSlices(src, 2) : Draws2(S, s)
         /\ \A x, y \in S : x # y =>
              \E s \in PickRandomSlices(src, 2) : Range(s) = {x, y}
<1>1. PICK n : n = Cardinality(S)
  OBVIOUS
<1>2. /\ n \in Nat /\ n > 2 /\ src \in [1..n -> S] /\ Len(src) = n
      /\ \A x \in S : \E i \in 1..n : src[i] = x
      /\ \A i, j \in 1..n : i # j => src[i] # src[j]
  <2>1. /\ Len(src) = Cardinality(S) /\ Cardinality(S) \in Nat
        /\ \A x \in S : \E i \in 1..Cardinality(S) : src[i] = x
    BY ListsIs
  <2>2. /\ src \in [1..Cardinality(S) -> S]
        /\ \A i, j \in 1..Cardinality(S) : i # j => src[i] # src[j]
    BY DEF Lists
  <2> QED BY <1>1, <2>1, <2>2
<1>3. \A q : q \in Picked(src)[1] <=>
        \E i \in 1..n : q = [array |-> CutOut(src, i, n), res |-> <<src[i]>>]
  BY <1>1, <1>2, FirstPick
<1>4. /\ \A q \in Picked(src)[2] :
           \E i \in 1..n, j \in 1..(n - 1) : q.res = <<src[i], CutOut(src, i, n)[j]>>
      /\ \A i \in 1..n, j \in 1..(n - 1) :
           \E q \in Picked(src)[2] : q.res = <<src[i], CutOut(src, i, n)[j]>>
  <2>1. Cardinality(S) > 1
    BY <1>1, <1>2
  <2>2. /\ \A q \in Picked(src)[2] :
              \E i \in 1..Cardinality(S), j \in 1..(Cardinality(S) - 1) :
                q.res = <<src[i], CutOut(src, i, Cardinality(S))[j]>>
        /\ \A i \in 1..Cardinality(S), j \in 1..(Cardinality(S) - 1) :
              \E q \in Picked(src)[2] :
                q.res = <<src[i], CutOut(src, i, Cardinality(S))[j]>>
    BY <2>1, SecondPick
  <2> QED BY <1>1, <2>2
<1>5. Picked(src)[0] = Start(src)
  BY <1>2, PickedIs
<1>6. PickRandomSlices(src, 2) =
        {s.res : s \in Picked(src)[2]}
        \cup {SubSeq(s.array, 1, 2) : s \in UNION {Picked(src)[k] : k \in 0..(2 - 1)}}
  BY <1>2 DEF PickRandomSlices
<1>7. ASSUME NEW i \in 1..n
      PROVE  /\ CutOut(src, i, n) \in [1..n -> S]
             /\ \A j \in 1..(n - 1) :
                  CutOut(src, i, n)[j] = IF i <= j THEN src[j + 1] ELSE src[j]
             /\ \A j \in 1..(n - 1) : CutOut(src, i, n)[j] # src[i]
             /\ \A j, k \in 1..(n - 1) : j # k =>
                  CutOut(src, i, n)[j] # CutOut(src, i, n)[k]
  <2>1. PICK a : a = CutOut(src, i, n)
    OBVIOUS
  <2>2. Without(a, src, i, n, S)
    <3>1. n \in Nat /\ src \in [1..n -> S] /\ i \in 1..n
      BY <1>2
    <3>2. Different(src, n)
      BY <1>2 DEF Different
    <3> QED BY <2>1, <3>1, <3>2, CutOutIs
  <2> QED BY <2>1, <2>2 DEF Without
<1>8. ASSUME NEW s \in PickRandomSlices(src, 2)
      PROVE  \E x, y \in S : x # y /\ s = <<x, y>>
  <2>1. CASE s \in {q.res : q \in Picked(src)[2]}
    <3>1. PICK i \in 1..n, j \in 1..(n - 1) : s = <<src[i], CutOut(src, i, n)[j]>>
      BY <1>4, <2>1
    <3>2. j \in 1..n
      BY <1>2
    <3>3. PICK a : a = CutOut(src, i, n)
      OBVIOUS
    <3>4. a \in [1..n -> S] /\ a[j] # src[i]
      BY <1>7, <3>3
    <3>5. src[i] \in S /\ a[j] \in S
      BY <1>2, <3>2, <3>4
    <3> QED BY <3>1, <3>3, <3>4, <3>5
  <2>2. CASE s \in {SubSeq(q.array, 1, 2) :
                      q \in UNION {Picked(src)[k] : k \in 0..(2 - 1)}}
    <3>1. PICK k \in 0..(2 - 1) : \E q \in Picked(src)[k] : s = SubSeq(q.array, 1, 2)
      BY <2>2
    <3>2. PICK q \in Picked(src)[k] : s = SubSeq(q.array, 1, 2)
      BY <3>1
    <3>3. PICK a : a = q.array
      OBVIOUS
    <3>4. a \in [1..n -> S] /\ a[1] # a[2]
      <4>1. CASE k = 0
        <5>1. a = src
          BY <1>5, <3>2, <3>3, <4>1 DEF Start
        <5>2. 1 \in 1..n /\ 2 \in 1..n /\ 1 # 2
          BY <1>2
        <5> QED BY <1>2, <5>1, <5>2
      <4>2. CASE k = 1
        <5>1. PICK i \in 1..n : q = [array |-> CutOut(src, i, n), res |-> <<src[i]>>]
          BY <1>3, <3>2, <4>2
        <5>2. a = CutOut(src, i, n)
          BY <3>3, <5>1
        <5>3. 1 \in 1..(n - 1) /\ 2 \in 1..(n - 1) /\ 1 # 2
          BY <1>2
        <5>4. /\ a \in [1..n -> S]
              /\ \A x, y \in 1..(n - 1) : x # y => a[x] # a[y]
          BY <1>7, <5>2
        <5> QED BY <5>3, <5>4
      <4>3. k = 0 \/ k = 1
        OBVIOUS
      <4> QED BY <4>1, <4>2, <4>3
    <3>5. s = <<a[1], a[2]>>
      <4>1. SubSeq(a, 1, 2) = <<a[1], a[2]>>
        <5>1. 2 <= n /\ n \in Nat /\ a \in [1..n -> S]
          BY <1>2, <3>4
        <5> QED BY ONLY <5>1, HeadIs
      <4> QED BY <3>2, <3>3, <4>1
    <3>6. a[1] \in S /\ a[2] \in S
      BY <1>2, <3>4
    <3> QED BY <3>4, <3>5, <3>6
  <2> QED BY <1>6, <1>8, <2>1, <2>2
<1>9. \A s \in PickRandomSlices(src, 2) : Draws2(S, s)
  BY <1>8, TwoPicked DEF Draws2
<1>10. ASSUME NEW x \in S, NEW y \in S, x # y
       PROVE  \E s \in PickRandomSlices(src, 2) : Range(s) = {x, y}
  <2>1. PICK i \in 1..n, k \in 1..n : src[i] = x /\ src[k] = y
    BY <1>2
  <2>2. i # k
    BY <1>10, <2>1
  <2>3. PICK a : a = CutOut(src, i, n)
    OBVIOUS
  <2>4. \A j \in 1..(n - 1) : a[j] = IF i <= j THEN src[j + 1] ELSE src[j]
    BY <1>7, <2>3
  <2>5. PICK j \in 1..(n - 1) : a[j] = y
    <3>1. CASE k < i
      <4>1. k \in 1..(n - 1) /\ ~(i <= k)
        BY <1>2, <3>1
      <4> QED BY <2>1, <2>4, <4>1
    <3>2. CASE i < k
      <4>1. k - 1 \in 1..(n - 1) /\ i <= k - 1 /\ (k - 1) + 1 = k
        BY <1>2, <3>2
      <4> QED BY <2>1, <2>4, <4>1
    <3>3. k < i \/ i < k
      BY <1>2, <2>2
    <3> QED BY <3>1, <3>2, <3>3
  <2>6. PICK q \in Picked(src)[2] : q.res = <<src[i], CutOut(src, i, n)[j]>>
    BY <1>4
  <2>7. q.res = <<x, y>>
    BY <2>1, <2>3, <2>5, <2>6
  <2>8. <<x, y>> \in PickRandomSlices(src, 2)
    BY <1>6, <2>7
  <2>9. Range(<<x, y>>) = {x, y}
    BY <1>10, TwoPicked
  <2> QED BY <2>8, <2>9
<1> QED
  BY <1>9, <1>10

\* Whatever the order of the candidates and wherever crypto/rand fails,
\* pickRandom returns what PickRandom has, each element once; and nothing that
\* PickRandom has is out of its reach.
LEMMA LoopIs ==
  ASSUME NEW S, IsFiniteSet(S), NEW src, Lists(src, S), NEW n \in {1, 2}
  PROVE  /\ \A s \in PickRandomSlices(src, n) :
              IsInjective(s) /\ Range(s) \in PickRandom(S, n)
         /\ \A R \in PickRandom(S, n) :
              \E s \in PickRandomSlices(src, n) : Range(s) = R
<1>1. PICK m : m = Cardinality(S) /\ m \in Nat
  BY FS_CardinalityType
<1>2. Len(src) = m /\ IsInjective(src) /\ Range(src) = S
  BY <1>1, ListsIs
<1>3. CASE n >= m
  <2>1. PickRandomSlices(src, n) = {src}
    BY <1>2, <1>3 DEF PickRandomSlices
  <2>2. PickRandom(S, n) = {R \in SUBSET S : Cardinality(R) = Cardinality(S)}
    BY <1>1, <1>3 DEF PickRandom
  <2>3. \A R \in PickRandom(S, n) : R = S
    BY <2>2, FS_Subset
  <2>4. S \in PickRandom(S, n)
    BY <2>2
  <2> QED BY <1>2, <2>1, <2>3, <2>4
<1>4. CASE n = 1 /\ m > 1
  <2>1. PickRandom(S, n) = {R \in SUBSET S : Cardinality(R) = 1}
    BY <1>1, <1>4 DEF PickRandom
  <2>2. /\ \A s \in PickRandomSlices(src, n) : Draws1(S, s)
        /\ \A x \in S : \E s \in PickRandomSlices(src, n) : Range(s) = {x}
    BY <1>1, <1>4, OneOfMany
  <2>3. \A R \in SUBSET S : Cardinality(R) = 1 <=> \E x \in S : R = {x}
    BY SmallSets
  <2>4. ASSUME NEW s \in PickRandomSlices(src, n)
        PROVE  IsInjective(s) /\ Range(s) \in PickRandom(S, n)
    <3>1. IsInjective(s) /\ \E x \in S : Range(s) = {x}
      BY <2>2 DEF Draws1
    <3>2. PICK R : R = Range(s)
      OBVIOUS
    <3>3. R \in SUBSET S /\ Cardinality(R) = 1
      BY <2>3, <3>1, <3>2
    <3> QED BY <2>1, <3>1, <3>2, <3>3
  <2>5. ASSUME NEW R \in PickRandom(S, n)
        PROVE  \E s \in PickRandomSlices(src, n) : Range(s) = R
    <3>1. PICK x \in S : R = {x}
      BY <2>1, <2>3
    <3> QED BY <2>2, <3>1
  <2> QED BY <2>4, <2>5
<1>5. CASE n = 2 /\ m > 2
  <2>1. PickRandom(S, n) = {R \in SUBSET S : Cardinality(R) = 2}
    BY <1>1, <1>5 DEF PickRandom
  <2>2. /\ \A s \in PickRandomSlices(src, n) : Draws2(S, s)
        /\ \A x, y \in S : x # y =>
             \E s \in PickRandomSlices(src, n) : Range(s) = {x, y}
    BY <1>1, <1>5, TwoOfMany
  <2>3. \A R \in SUBSET S :
          Cardinality(R) = 2 <=> \E x, y \in S : x # y /\ R = {x, y}
    BY SmallSets
  <2>4. ASSUME NEW s \in PickRandomSlices(src, n)
        PROVE  IsInjective(s) /\ Range(s) \in PickRandom(S, n)
    <3>1. IsInjective(s) /\ \E x, y \in S : x # y /\ Range(s) = {x, y}
      BY <2>2 DEF Draws2
    <3>2. PICK R : R = Range(s)
      OBVIOUS
    <3>3. R \in SUBSET S /\ Cardinality(R) = 2
      BY <2>3, <3>1, <3>2
    <3> QED BY <2>1, <3>1, <3>2, <3>3
  <2>5. ASSUME NEW R \in PickRandom(S, n)
        PROVE  \E s \in PickRandomSlices(src, n) : Range(s) = R
    <3>1. PICK x \in S, y \in S : x # y /\ R = {x, y}
      BY <2>1, <2>3
    <3> QED BY <2>2, <3>1
  <2> QED BY <2>4, <2>5
<1> QED
  BY <1>1, <1>3, <1>4, <1>5

\* A finite set has a list.
LEMMA SomeList ==
  ASSUME NEW S, IsFiniteSet(S)
  PROVE  \E src : Lists(src, S)
<1>1. PICK n : n = Cardinality(S) /\ n \in Nat /\ ExistsBijection(1..n, S)
  BY FS_CardinalityType
<1>2. PICK src : src \in Bijection(1..n, S)
  BY <1>1 DEF ExistsBijection
<1>3. src \in [1..n -> S] /\ IsInjective(src)
  BY <1>2 DEF Bijection, Injection
<1>4. Lists(src, S)
  BY <1>1, <1>3 DEF Lists, IsInjective
<1> QED
  BY <1>4

\* The lists of a set are what SetToSeqs has.
LEMMA ListsOf ==
  ASSUME NEW S, NEW src
  PROVE  src \in SetToSeqs(S) <=> Lists(src, S)
BY DEF SetToSeqs, Lists

\* What PickRandomIsTheLoop says of one draw.
LEMMA DrawIs ==
  ASSUME NEW S, IsFiniteSet(S), NEW n \in {1, 2}, NEW slices,
         slices = UNION {PickRandomSlices(src, n) : src \in SetToSeqs(S)}
  PROVE  /\ \A s \in slices : IsInjective(s)
         /\ {Range(s) : s \in slices} = PickRandom(S, n)
<1>1. ASSUME NEW s \in slices
      PROVE  IsInjective(s) /\ Range(s) \in PickRandom(S, n)
  <2>1. PICK src \in SetToSeqs(S) : s \in PickRandomSlices(src, n)
    BY <1>1
  <2>2. Lists(src, S)
    BY <2>1, ListsOf
  <2> QED BY <2>1, <2>2, LoopIs
<1>2. ASSUME NEW R \in PickRandom(S, n)
      PROVE  \E s \in slices : Range(s) = R
  <2>1. PICK src : Lists(src, S)
    BY SomeList
  <2>2. PICK s \in PickRandomSlices(src, n) : Range(s) = R
    BY <1>2, <2>1, LoopIs
  <2>3. src \in SetToSeqs(S)
    BY <2>1, ListsOf
  <2>4. s \in slices
    BY <2>2, <2>3
  <2> QED BY <2>2, <2>4
<1> QED
  BY <1>1, <1>2

\* The candidates of any draw are users, and one or two of them are drawn.
LEMMA DrawsAre ==
  ASSUME NEW c, NEW d \in Draws(c)
  PROVE  d.pool \in SUBSET User /\ d.n \in {1, 2}
<1>1. \A us, t, author : /\ TeamCandidates(us, t, author) \in SUBSET User
                        /\ OtherTeamCandidates(us, t, author) \in SUBSET User
  BY DEF TeamCandidates, OtherTeamCandidates, ActiveUsers
<1>2. PICK pool, n : /\ d = [pool |-> pool, n |-> n]
                     /\ pool \in SUBSET User /\ n \in {1, 2}
  <2>1. CASE tx[c].pc = "selectCandidatesQuery"
    BY <1>1, <2>1 DEF Draws
  <2>2. CASE tx[c].pc = "selectReplacementCandidatesQuery"
    BY <1>1, <2>2 DEF Draws
  <2>3. CASE tx[c].pc = "activeReplacementQuery"
    BY <1>1, <2>3 DEF Draws
  <2> QED BY <2>1, <2>2, <2>3 DEF Draws
<1> QED
  BY <1>2

\* In every state the transactions draw what the loop of pickRandom can
\* return: for any set of users, teams and PRs.
THEOREM DrawsAreTheLoop == Spec => []PickRandomIsTheLoop
<1>1. PickRandomIsTheLoop
  <2> SUFFICES ASSUME NEW c \in Client, NEW d \in Draws(c), NEW slices,
                      slices = UNION {PickRandomSlices(src, d.n) :
                                        src \in SetToSeqs(d.pool)}
               PROVE  /\ \A s \in slices : IsInjective(s)
                      /\ {Range(s) : s \in slices} = PickRandom(d.pool, d.n)
    BY DEF PickRandomIsTheLoop
  <2>1. PICK S, n : S = d.pool /\ n = d.n
    OBVIOUS
  <2>2. S \in SUBSET User /\ n \in {1, 2}
    BY <2>1, DrawsAre
  <2>3. IsFiniteSet(S)
    BY <2>2, UserAssumption, FS_Subset
  <2>4. slices = UNION {PickRandomSlices(src, n) : src \in SetToSeqs(S)}
    BY <2>1
  <2>5. /\ \A s \in slices : IsInjective(s)
        /\ {Range(s) : s \in slices} = PickRandom(S, n)
    BY <2>2, <2>3, <2>4, DrawIs
  <2> QED BY <2>1, <2>5
<1> QED
  BY <1>1, PTL DEF Spec

===============================================================================
