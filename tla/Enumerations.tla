---------------------------- MODULE Enumerations ----------------------------
(***************************************************************************)
(* Induction over data, in the form that the proofs about the publishers   *)
(* need: the smallest member of a set of numbers, induction over a set of  *)
(* numbers, the run of a recursive function over an interval and the       *)
(* enumeration of a finite set in a strict order.  The order and the steps *)
(* of a recursion are given as sets and functions, never as operators.     *)
(***************************************************************************)
EXTENDS Naturals, FiniteSets, Sums, FiniteSetTheorems, WellFoundedInduction, TLAPS

\* A set of naturals that is not empty has a least member.
LEMMA LeastNatural ==
    ASSUME NEW T \in SUBSET Nat, T # {}
    PROVE  \E x \in T : \A y \in T : x <= y
<1> DEFINE R == {r \in Nat \X Nat : r[1] < r[2]}
<1>1. IsWellFoundedOn(R, Nat)
  BY NatLessThanWellFounded DEF OpToRel
<1>2. PICK x \in T : \A y \in T : ~(<<y, x>> \in R)
  <2> HIDE DEF R
  <2>1. \E x \in T : \A y \in T : ~(<<y, x>> \in R)
    BY <1>1, WFMin
  <2>2. QED
    BY <2>1
<1>3. ASSUME NEW y \in T PROVE x <= y
  <2>1. x \in Nat /\ y \in Nat /\ ~(y < x)
    BY <1>2
  <2>2. QED
    BY <2>1
<1>4. QED
  BY <1>3

\* Induction: a set with 0 and with the successor of each of its naturals.
LEMMA SetInduction ==
    ASSUME NEW S, 0 \in S, \A n \in Nat : n \in S => n + 1 \in S
    PROVE  Nat \subseteq S
<1> SUFFICES ASSUME Nat \ S # {} PROVE FALSE
  OBVIOUS
<1>1. PICK x \in Nat \ S : \A y \in Nat \ S : x <= y
  BY LeastNatural
<1>2. x # 0 /\ x - 1 \in Nat /\ x - 1 \in S
  BY <1>1
<1>3. QED
  BY <1>1, <1>2

-----------------------------------------------------------------------------
\* Recursion over an interval

\* g starts with base and makes the steps f.
IsFold(g, n, base, f) == g[0] = base /\ \A i \in 1..n : g[i] = f[i][g[i - 1]]

\* Every sequence of steps within V can be made.
LEMMA FoldExists ==
    ASSUME NEW n \in Nat, NEW V, NEW base \in V, NEW f \in [1..n -> [V -> V]]
    PROVE  \E g \in [0..n -> V] : IsFold(g, n, base, f)
<1> DEFINE Good(m, g) == g[0] = base /\ \A i \in 1..m : g[i] = f[i][g[i - 1]]
           Done == {m \in Nat : m <= n => \E g \in [0..m -> V] : Good(m, g)}
<1>1. 0 \in Done
  <2>1. [i \in 0..0 |-> base] \in [0..0 -> V] /\ Good(0, [i \in 0..0 |-> base])
    OBVIOUS
  <2>2. QED
    BY <2>1
<1>2. ASSUME NEW m \in Nat, m \in Done PROVE m + 1 \in Done
  <2> SUFFICES ASSUME m + 1 <= n PROVE \E g \in [0..(m + 1) -> V] : Good(m + 1, g)
    OBVIOUS
  <2>1. PICK g \in [0..m -> V] : Good(m, g)
    BY <1>2
  <2> DEFINE h == [i \in 0..(m + 1) |-> IF i <= m THEN g[i] ELSE f[m + 1][g[m]]]
  <2>2. m + 1 \in 1..n /\ g[m] \in V
    OBVIOUS
  <2>3. f[m + 1][g[m]] \in V
    BY <2>2
  <2>4. h \in [0..(m + 1) -> V]
    BY <2>3
  <2>5. h[0] = base
    BY <2>1
  <2>6. ASSUME NEW i \in 1..(m + 1) PROVE h[i] = f[i][h[i - 1]]
    <3>1. CASE i <= m
      <4>1. h[i] = g[i] /\ h[i - 1] = g[i - 1] /\ i \in 1..m
        BY <3>1
      <4>2. QED
        BY <2>1, <4>1
    <3>2. CASE i = m + 1
      <4>1. h[i] = f[m + 1][g[m]] /\ h[i - 1] = g[m]
        BY <3>2
      <4>2. QED
        BY <3>2, <4>1
    <3>3. QED
      BY <3>1, <3>2
  <2>7. QED
    BY <2>4, <2>5, <2>6
<1>3. n \in Done
  <2> HIDE DEF Done
  <2> QED BY <1>1, <1>2, SetInduction
<1>4. PICK g \in [0..n -> V] : Good(n, g)
  BY <1>3
<1>5. QED
  BY <1>4 DEF IsFold

\* Two runs that start alike and make the same steps end alike.
LEMMA SameRun ==
    ASSUME NEW n \in Nat, NEW g, NEW h, h[0] = g[0],
           \A i \in 1..n : h[i - 1] = g[i - 1] => h[i] = g[i]
    PROVE  h[n] = g[n]
<1> DEFINE Done == {i \in Nat : i <= n => h[i] = g[i]}
<1>1. 0 \in Done
  OBVIOUS
<1>2. ASSUME NEW i \in Nat, i \in Done PROVE i + 1 \in Done
  <2> SUFFICES ASSUME i + 1 <= n PROVE h[i + 1] = g[i + 1]
    OBVIOUS
  <2>1. h[i] = g[i] /\ i + 1 \in 1..n /\ (i + 1) - 1 = i
    BY <1>2
  <2>2. QED
    BY <2>1
<1>3. n \in Done
  <2> HIDE DEF Done
  <2> QED BY <1>1, <1>2, SetInduction
<1>4. QED
  BY <1>3

-----------------------------------------------------------------------------
\* Enumeration in an order

\* R is a strict total order on S.
StrictOrder(R, S) ==
    /\ \A a \in S : <<a, a>> \notin R
    /\ \A a, b \in S : a # b => <<a, b>> \in R \/ <<b, a>> \in R
    /\ \A a, b, c \in S : <<a, b>> \in R /\ <<b, c>> \in R => <<a, c>> \in R

\* m comes last in S.
LastOf(m, S, R) == \A x \in S \ {m} : <<x, m>> \in R

\* s puts smaller members first.
SortedBy(s, R) == \A i, j \in DOMAIN s : i < j => <<s[i], s[j]>> \in R

\* A part of an ordered set is ordered.
LEMMA OrderOfPart ==
    ASSUME NEW R, NEW S, NEW T \in SUBSET S, StrictOrder(R, S)
    PROVE  StrictOrder(R, T)
  BY DEF StrictOrder

\* A finite ordered set that is not empty has a last member.
LEMMA LastExists ==
    ASSUME NEW R, NEW S, IsFiniteSet(S), S # {}, StrictOrder(R, S)
    PROVE  \E m \in S : LastOf(m, S, R)
<1> DEFINE P(T) == IsFiniteSet(T) /\ T # {} /\ StrictOrder(R, T) => \E m \in T : LastOf(m, T, R)
           Done == {n \in Nat : \A T : Cardinality(T) = n => P(T)}
<1>1. 0 \in Done
  BY FS_EmptySet
<1>2. ASSUME NEW n \in Nat, n \in Done PROVE n + 1 \in Done
  <2> SUFFICES ASSUME NEW T, Cardinality(T) = n + 1, IsFiniteSet(T), T # {}, StrictOrder(R, T)
               PROVE  \E m \in T : LastOf(m, T, R)
    OBVIOUS
  <2>1. PICK x \in T : TRUE
    OBVIOUS
  <2>2. IsFiniteSet(T \ {x}) /\ Cardinality(T \ {x}) = n
    <3>1. IsFiniteSet(T \ {x}) /\ Cardinality(T \ {x}) = Cardinality(T) - 1
      BY <2>1, FS_RemoveElement
    <3>2. QED
      BY <3>1
  <2>3. StrictOrder(R, T \ {x})
    BY OrderOfPart
  <2>4. CASE T \ {x} = {}
    BY <2>4 DEF LastOf
  <2>5. CASE T \ {x} # {}
    <3>1. PICK m \in T \ {x} : LastOf(m, T \ {x}, R)
      BY <1>2, <2>2, <2>3, <2>5
    <3>2. CASE <<m, x>> \in R
      <4>1. LastOf(x, T, R)
        BY <3>1, <3>2 DEF LastOf, StrictOrder
      <4>2. QED
        BY <4>1
    <3>3. CASE <<x, m>> \in R
      <4>1. LastOf(m, T, R)
        BY <3>1, <3>3 DEF LastOf
      <4>2. QED
        BY <4>1
    <3>4. QED
      BY <3>2, <3>3 DEF StrictOrder
  <2>6. QED
    BY <2>4, <2>5
<1>3. Nat \subseteq Done
  <2> HIDE DEF Done
  <2> QED BY <1>1, <1>2, SetInduction
<1>4. Cardinality(S) \in Nat
  BY FS_CardinalityType
<1>5. QED
  BY <1>3, <1>4

\* A finite ordered set can be enumerated in its order.
LEMMA SortExists ==
    ASSUME NEW R, NEW S, IsFiniteSet(S), StrictOrder(R, S)
    PROVE  \E s \in [1..Cardinality(S) -> S] : SortedBy(s, R)
<1> DEFINE P(T) == IsFiniteSet(T) /\ StrictOrder(R, T) =>
                      \E s \in [1..Cardinality(T) -> T] : SortedBy(s, R)
           Done == {n \in Nat : \A T : Cardinality(T) = n => P(T)}
<1>1. 0 \in Done
  <2> SUFFICES ASSUME NEW T, Cardinality(T) = 0, IsFiniteSet(T)
               PROVE  \E s \in [1..0 -> T] : SortedBy(s, R)
    OBVIOUS
  <2>1. PICK s : s = [i \in 1..0 |-> 0]
    OBVIOUS
  <2>2. s \in [1..0 -> T] /\ DOMAIN s = {}
    BY <2>1
  <2>3. QED
    BY <2>2 DEF SortedBy
<1>2. ASSUME NEW n \in Nat, n \in Done PROVE n + 1 \in Done
  <2> SUFFICES ASSUME NEW T, Cardinality(T) = n + 1, IsFiniteSet(T), StrictOrder(R, T)
               PROVE  \E s \in [1..(n + 1) -> T] : SortedBy(s, R)
    OBVIOUS
  <2>1. T # {}
    BY FS_EmptySet
  <2>2. PICK m \in T : LastOf(m, T, R)
    BY <2>1, LastExists
  <2>3. IsFiniteSet(T \ {m}) /\ Cardinality(T \ {m}) = n /\ StrictOrder(R, T \ {m})
    <3>1. IsFiniteSet(T \ {m}) /\ Cardinality(T \ {m}) = Cardinality(T) - 1
      BY FS_RemoveElement
    <3>2. StrictOrder(R, T \ {m})
      BY OrderOfPart
    <3>3. QED
      BY <3>1, <3>2
  <2>4. PICK s \in [1..n -> T \ {m}] : SortedBy(s, R)
    BY <1>2, <2>3
  <2>5. PICK r : r = [i \in 1..(n + 1) |-> IF i <= n THEN s[i] ELSE m]
    OBVIOUS
  <2>6. r \in [1..(n + 1) -> T] /\ DOMAIN r = 1..(n + 1)
    BY <2>5
  <2>7. ASSUME NEW i \in 1..(n + 1), NEW j \in 1..(n + 1), i < j PROVE <<r[i], r[j]>> \in R
    <3>1. i \in 1..n /\ r[i] = s[i] /\ s[i] \in T \ {m}
      BY <2>5, <2>7
    <3>2. CASE j <= n
      BY <2>4, <2>5, <2>7, <3>1, <3>2 DEF SortedBy
    <3>3. CASE j = n + 1
      BY <2>2, <2>5, <3>1, <3>3 DEF LastOf
    <3>4. QED
      BY <3>2, <3>3
  <2>8. SortedBy(r, R)
    BY <2>6, <2>7 DEF SortedBy
  <2>9. QED
    BY <2>6, <2>8
<1>3. Nat \subseteq Done
  <2> HIDE DEF Done
  <2> QED BY <1>1, <1>2, SetInduction
<1>4. Cardinality(S) \in Nat
  BY FS_CardinalityType
<1>5. QED
  BY <1>3, <1>4

\* Such an enumeration has every member, once.
LEMMA SortCovers ==
    ASSUME NEW R, NEW S, IsFiniteSet(S), StrictOrder(R, S),
           NEW s \in [1..Cardinality(S) -> S], SortedBy(s, R)
    PROVE  /\ \A x \in S : \E i \in 1..Cardinality(S) : s[i] = x
           /\ \A i, j \in 1..Cardinality(S) : s[i] = s[j] => i = j
<1>1. Cardinality(S) \in Nat
  BY FS_CardinalityType
<1>2. ASSUME NEW i \in 1..Cardinality(S), NEW j \in 1..Cardinality(S), s[i] = s[j]
      PROVE  i = j
  <2>1. ~(i < j) /\ ~(j < i)
    BY <1>2 DEF SortedBy, StrictOrder
  <2>2. QED
    BY <1>1, <2>1
<1>3. s \in Injection(1..Cardinality(S), S)
  BY <1>2 DEF Injection, IsInjective
<1>4. IsFiniteSet(1..Cardinality(S)) /\ Cardinality(1..Cardinality(S)) = Cardinality(S)
  BY <1>1, FS_Interval
<1>5. s \in Surjection(1..Cardinality(S), S)
  BY <1>3, <1>4, FS_Injection
<1>6. QED
  BY <1>2, <1>5 DEF Surjection

-----------------------------------------------------------------------------
\* Sums

\* The first n values of f can be added up.
Summable(f, n) == \A i \in 1..n : f[i] \in Nat

\* The sum, step by step.
LEMMA TotalRun ==
    ASSUME NEW n \in Nat, NEW f, Summable(f, n)
    PROVE  \E g \in [0..n -> Nat] :
              g[0] = 0 /\ Total(f, n) = g[n] /\ \A i \in 1..n : g[i] = g[i - 1] + f[i]
<1> DEFINE s == [i \in 1..n |-> [x \in Nat |-> x + f[i]]]
           F(g) == [i \in 0..n |-> IF i = 0 THEN 0 ELSE g[i - 1] + f[i]]
<1>1. s \in [1..n -> [Nat -> Nat]]
  BY DEF Summable
<1>2. PICK g \in [0..n -> Nat] : g[0] = 0 /\ \A i \in 1..n : g[i] = s[i][g[i - 1]]
  <2> HIDE DEF s
  <2>1. \E g \in [0..n -> Nat] : IsFold(g, n, 0, s)
    BY <1>1, FoldExists
  <2>2. QED
    BY <2>1 DEF IsFold
<1>3. ASSUME NEW i \in 1..n PROVE g[i] = g[i - 1] + f[i]
  <2>1. g[i - 1] \in Nat
    OBVIOUS
  <2>2. s[i][g[i - 1]] = g[i - 1] + f[i]
    BY <2>1
  <2>3. QED
    BY <1>2, <2>2
<1>4. PICK h : h = (CHOOSE x : x = F(x))
  OBVIOUS
<1>5. h = F(h)
  <2>1. PICK G : G = F(g)
    OBVIOUS
  <2>2. DOMAIN G = 0..n /\ G = [i \in DOMAIN G |-> G[i]] /\ \A i \in 0..n : G[i] = g[i]
    BY <1>2, <1>3, <2>1
  <2>3. g = F(g)
    BY <2>1, <2>2
  <2>4. QED
    BY <1>4, <2>3
<1>6. Total(f, n) = h[n]
  BY <1>4 DEF Total
<1>7. h[0] = 0 /\ \A i \in 1..n : h[i] = h[i - 1] + f[i]
  <2> HIDE DEF s
  <2>1. \A i \in 0..n : h[i] = IF i = 0 THEN 0 ELSE h[i - 1] + f[i]
    BY <1>5
  <2>2. QED
    BY <2>1
<1>8. h[n] = g[n]
  <2> HIDE DEF F, s
  <2>1. \A i \in 1..n : h[i - 1] = g[i - 1] => h[i] = g[i]
    BY <1>3, <1>7
  <2>2. h[0] = g[0]
    BY <1>2, <1>7
  <2>3. QED
    BY <2>1, <2>2, SameRun
<1>9. QED
  BY <1>2, <1>3, <1>6, <1>8

\* The empty sum.
LEMMA TotalOfNone == ASSUME NEW f PROVE Total(f, 0) = 0
<1>1. Summable(f, 0)
  BY DEF Summable
<1>2. QED
  BY <1>1, TotalRun

\* One summand more.
LEMMA TotalOfMore ==
    ASSUME NEW n \in Nat, NEW f, Summable(f, n + 1)
    PROVE  /\ Total(f, n) \in Nat /\ Total(f, n + 1) \in Nat
           /\ Total(f, n + 1) = Total(f, n) + f[n + 1]
<1>1. Summable(f, n)
  BY DEF Summable
<1>2. PICK g \in [0..n -> Nat] :
         g[0] = 0 /\ Total(f, n) = g[n] /\ \A i \in 1..n : g[i] = g[i - 1] + f[i]
  BY <1>1, TotalRun
<1>3. n + 1 \in Nat
  OBVIOUS
<1>4. PICK h \in [0..(n + 1) -> Nat] :
         /\ h[0] = 0 /\ Total(f, n + 1) = h[n + 1]
         /\ \A i \in 1..(n + 1) : h[i] = h[i - 1] + f[i]
  BY <1>3, TotalRun
<1>5. h[n] = g[n]
  <2>1. \A i \in 1..n : h[i - 1] = g[i - 1] => h[i] = g[i]
    BY <1>2, <1>4
  <2>2. h[0] = g[0]
    BY <1>2, <1>4
  <2>3. QED
    BY <2>1, <2>2, SameRun
<1>6. n + 1 \in 1..(n + 1) /\ (n + 1) - 1 = n
  OBVIOUS
<1>7. QED
  BY <1>2, <1>4, <1>5, <1>6

\* A sum is a natural number.
LEMMA TotalType == ASSUME NEW n \in Nat, NEW f, Summable(f, n) PROVE Total(f, n) \in Nat
  BY TotalRun

\* The first n values of f are those of g and h together.
Adds(f, g, h, n) == \A i \in 1..n : f[i] = g[i] + h[i]

\* Adding up two functions adds up their sums.
LEMMA TotalOfBoth ==
    ASSUME NEW n \in Nat, NEW f, NEW g, NEW h, Summable(g, n), Summable(h, n), Adds(f, g, h, n)
    PROVE  /\ Total(f, n) = Total(g, n) + Total(h, n)
           /\ Total(f, n) \in Nat /\ Total(g, n) \in Nat /\ Total(h, n) \in Nat
<1> DEFINE Done == {m \in Nat : m <= n => Total(f, m) = Total(g, m) + Total(h, m)}
<1>0. Summable(f, n)
  BY DEF Summable, Adds
<1>1. 0 \in Done
  BY TotalOfNone
<1>2. ASSUME NEW m \in Nat, m \in Done PROVE m + 1 \in Done
  <2> SUFFICES ASSUME m + 1 <= n
               PROVE  Total(f, m + 1) = Total(g, m + 1) + Total(h, m + 1)
    OBVIOUS
  <2>1. Summable(f, m + 1) /\ Summable(g, m + 1) /\ Summable(h, m + 1)
    BY <1>0 DEF Summable
  <2>2. Total(f, m) = Total(g, m) + Total(h, m)
    BY <1>2
  <2>3. f[m + 1] = g[m + 1] + h[m + 1] /\ g[m + 1] \in Nat /\ h[m + 1] \in Nat
    BY DEF Summable, Adds
  <2>4. /\ Total(f, m) \in Nat /\ Total(f, m + 1) = Total(f, m) + f[m + 1]
        /\ Total(g, m) \in Nat /\ Total(g, m + 1) = Total(g, m) + g[m + 1]
        /\ Total(h, m) \in Nat /\ Total(h, m + 1) = Total(h, m) + h[m + 1]
    BY <2>1, TotalOfMore
  <2>5. QED
    BY <2>2, <2>3, <2>4
<1>3. n \in Done
  <2> HIDE DEF Done
  <2> QED BY <1>1, <1>2, SetInduction
<1>4. QED
  BY <1>0, <1>3, TotalType

\* A sum of zeros.
LEMMA TotalOfZeros ==
    ASSUME NEW n \in Nat, NEW f, \A i \in 1..n : f[i] = 0
    PROVE  Total(f, n) = 0
<1>1. Summable(f, n)
  BY DEF Summable
<1>2. Adds(f, f, f, n)
  BY DEF Adds
<1>3. Total(f, n) = Total(f, n) + Total(f, n) /\ Total(f, n) \in Nat
  BY <1>1, <1>2, TotalOfBoth
<1>4. PICK x \in Nat : x = Total(f, n)
  BY <1>3
<1>5. x = x + x
  BY <1>3, <1>4
<1>6. \A y \in Nat : y = y + y => y = 0
  OBVIOUS
<1>7. x = 0
  BY <1>5, <1>6
<1>8. QED
  BY <1>4, <1>7

\* Equal summands, equal sums.
LEMMA TotalOfSame ==
    ASSUME NEW n \in Nat, NEW f, NEW g, Summable(g, n), \A i \in 1..n : f[i] = g[i]
    PROVE  Total(f, n) = Total(g, n)
<1>1. PICK z : z = [i \in 1..n |-> 0]
  OBVIOUS
<1>2. Summable(z, n) /\ \A i \in 1..n : z[i] = 0
  BY <1>1 DEF Summable
<1>3. Adds(f, g, z, n)
  BY <1>2 DEF Summable, Adds
<1>4. Total(f, n) = Total(g, n) + Total(z, n) /\ Total(g, n) \in Nat
  BY <1>2, <1>3, TotalOfBoth
<1>5. Total(z, n) = 0
  BY <1>2, TotalOfZeros
<1>6. QED
  BY <1>4, <1>5

\* Larger summands, larger sums.
LEMMA TotalOfLess ==
    ASSUME NEW n \in Nat, NEW f, NEW g, Summable(f, n), Summable(g, n),
           \A i \in 1..n : f[i] <= g[i]
    PROVE  Total(f, n) <= Total(g, n)
<1>1. PICK z : z = [i \in 1..n |-> g[i] - f[i]]
  OBVIOUS
<1>2. Summable(z, n) /\ Adds(g, f, z, n)
  BY <1>1 DEF Summable, Adds
<1>3. Total(g, n) = Total(f, n) + Total(z, n) /\ Total(f, n) \in Nat /\ Total(z, n) \in Nat
  BY <1>2, TotalOfBoth
<1>4. QED
  BY <1>3

\* n summands of one at least.
LEMMA TotalOfOnes ==
    ASSUME NEW n \in Nat, NEW f, Summable(f, n), \A i \in 1..n : f[i] >= 1
    PROVE  Total(f, n) >= n
<1> DEFINE Done == {m \in Nat : m <= n => Total(f, m) >= m}
<1>1. 0 \in Done
  BY TotalOfNone
<1>2. ASSUME NEW m \in Nat, m \in Done PROVE m + 1 \in Done
  <2> SUFFICES ASSUME m + 1 <= n PROVE Total(f, m + 1) >= m + 1
    OBVIOUS
  <2>1. Summable(f, m + 1) /\ f[m + 1] \in Nat /\ f[m + 1] >= 1
    BY DEF Summable
  <2>2. Total(f, m) \in Nat /\ Total(f, m + 1) = Total(f, m) + f[m + 1]
    BY <2>1, TotalOfMore
  <2>3. QED
    BY <1>2, <2>1, <2>2
<1>3. n \in Done
  <2> HIDE DEF Done
  <2> QED BY <1>1, <1>2, SetInduction
<1>4. QED
  BY <1>3

\* The sums of f and g differ as their values at a.
Exchange(f, g, n, a) ==
  /\ Total(g, n) \in Nat /\ Total(f, n) \in Nat
  /\ Total(g, n) + f[a] = Total(f, n) + g[a]

\* A sum in which one summand changes.
LEMMA TotalOfChange ==
    ASSUME NEW n \in Nat, NEW f, NEW g, NEW a \in 1..n, Summable(f, n), g[a] \in Nat,
           \A i \in 1..n : i # a => g[i] = f[i]
    PROVE  Exchange(f, g, n, a)
<1>1. PICK p, q, z : /\ p = [i \in 1..n |-> IF i = a THEN f[a] ELSE 0]
                     /\ q = [i \in 1..n |-> IF i = a THEN g[a] ELSE 0]
                     /\ z = [i \in 1..n |-> IF i = a THEN 0 ELSE f[i]]
  OBVIOUS
<1>2. Summable(p, n) /\ Summable(q, n) /\ Summable(z, n)
  BY <1>1 DEF Summable
<1>3. Adds(f, p, z, n) /\ Adds(g, q, z, n)
  BY <1>1 DEF Summable, Adds
<1>4. /\ Total(f, n) = Total(p, n) + Total(z, n) /\ Total(g, n) = Total(q, n) + Total(z, n)
      /\ Total(p, n) \in Nat /\ Total(q, n) \in Nat /\ Total(z, n) \in Nat
  BY <1>2, <1>3, TotalOfBoth
<1> DEFINE Single(v) == [i \in 1..n |-> IF i = a THEN v ELSE 0]
<1>5. ASSUME NEW v \in Nat PROVE Total(Single(v), n) = v
  <2> DEFINE Done == {m \in Nat : m <= n => Total(Single(v), m) = IF a <= m THEN v ELSE 0}
  <2>1. 0 \in Done
    <3>1. Total(Single(v), 0) = 0
      BY TotalOfNone
    <3>2. QED
      BY <3>1
  <2>2. ASSUME NEW m \in Nat, m \in Done PROVE m + 1 \in Done
    <3> SUFFICES ASSUME m + 1 <= n
                 PROVE  Total(Single(v), m + 1) = IF a <= m + 1 THEN v ELSE 0
      OBVIOUS
    <3>1. PICK t : t = Single(v)
      OBVIOUS
    <3>2. Summable(t, m + 1) /\ t[m + 1] = IF a = m + 1 THEN v ELSE 0
      BY <3>1 DEF Summable
    <3>3. Total(t, m + 1) = Total(t, m) + t[m + 1]
      BY <3>2, TotalOfMore
    <3>4. Total(t, m) = IF a <= m THEN v ELSE 0
      BY <2>2, <3>1
    <3>5. QED
      BY <3>1, <3>2, <3>3, <3>4
  <2>3. n \in Done
    <3> HIDE DEF Done
    <3> QED BY <2>1, <2>2, SetInduction
  <2>4. QED
    BY <2>3
<1>6. Total(p, n) = f[a] /\ Total(q, n) = g[a]
  BY <1>1, <1>5 DEF Summable
<1>7. f[a] \in Nat
  BY DEF Summable
<1>8. QED
  BY <1>4, <1>6, <1>7 DEF Exchange

\* h is f and then g.
Joins(h, f, g, n, m) == (\A i \in 1..n : h[i] = f[i]) /\ (\A j \in 1..m : h[n + j] = g[j])

\* A sum in two parts.
LEMMA TotalOfJoined ==
    ASSUME NEW n \in Nat, NEW m \in Nat, NEW f, NEW g, NEW h, Joins(h, f, g, n, m),
           Summable(f, n), Summable(g, m)
    PROVE  Total(h, n + m) = Total(f, n) + Total(g, m)
<1> DEFINE Done == {k \in Nat : k <= m => Total(h, n + k) = Total(f, n) + Total(g, k)}
<1>0. Total(f, n) \in Nat
  BY TotalType
<1>1. 0 \in Done
  <2>1. Total(h, n) = Total(f, n)
    BY TotalOfSame DEF Joins
  <2>2. Total(g, 0) = 0
    BY TotalOfNone
  <2>3. QED
    BY <1>0, <2>1, <2>2
<1>2. ASSUME NEW k \in Nat, k \in Done PROVE k + 1 \in Done
  <2> SUFFICES ASSUME k + 1 <= m PROVE Total(h, n + (k + 1)) = Total(f, n) + Total(g, k + 1)
    OBVIOUS
  <2>1. Summable(g, k + 1) /\ k + 1 \in 1..m /\ g[k + 1] \in Nat
    BY DEF Summable
  <2>2. Total(g, k + 1) = Total(g, k) + g[k + 1] /\ Total(g, k) \in Nat
    BY <2>1, TotalOfMore
  <2>3. PICK l : l = n + k /\ l \in Nat /\ n + (k + 1) = l + 1
    OBVIOUS
  <2>4. h[l + 1] = g[k + 1]
    BY <2>1, <2>3 DEF Joins
  <2>5. ASSUME NEW i \in 1..(l + 1) PROVE h[i] \in Nat
    <3>1. CASE i \in 1..n
      BY <3>1 DEF Joins, Summable
    <3>2. CASE i \notin 1..n
      <4>1. PICK j \in 1..m : i = n + j
        <5>1. i - n \in 1..m /\ n + (i - n) = i
          BY <2>3, <3>2
        <5>2. QED
          BY <5>1
      <4>2. QED
        BY <4>1 DEF Joins, Summable
    <3>3. QED
      BY <3>1, <3>2
  <2>6. Summable(h, l + 1)
    BY <2>5 DEF Summable
  <2>7. Total(h, l + 1) = Total(h, l) + h[l + 1]
    BY <2>3, <2>6, TotalOfMore
  <2>8. Total(h, l) = Total(f, n) + Total(g, k)
    BY <1>2, <2>3
  <2>9. QED
    BY <1>0, <2>1, <2>2, <2>3, <2>4, <2>7, <2>8
<1>3. m \in Done
  <2> HIDE DEF Done
  <2> QED BY <1>1, <1>2, SetInduction
<1>4. QED
  BY <1>3

=============================================================================
