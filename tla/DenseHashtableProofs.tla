------------------------ MODULE DenseHashtableProofs ------------------------
(***************************************************************************)
(* The hash table accounts for its buckets, finds what it stores, and      *)
(* implements a map, for every finite set of keys, every hash function,    *)
(* and tables of every size: whatever way probe sequences collide, entries *)
(* come and go, and tables grow, shrink and are copied.                    *)
(***************************************************************************)
EXTENDS DenseHashtable, FiniteSetTheorems, SequenceTheorems, WellFoundedInduction, TLAPS

-----------------------------------------------------------------------------
(* Induction.  The provers cannot instantiate a predicate, so what is      *)
(* proved by induction is that a set of numbers is everything.             *)

LEMMA Least ==
    ASSUME NEW T \in SUBSET Nat, T # {}
    PROVE  \E n \in T : \A m \in T : n <= m
<1> DEFINE R == OpToRel(<, Nat)
<1>1. IsWellFoundedOn(R, Nat)
  BY NatLessThanWellFounded
<1>2. \A x, y \in Nat : <<y, x>> \in R <=> y < x
  BY DEF OpToRel
<1> HIDE DEF R
<1>3. PICK n \in T : \A m \in T : <<m, n>> \notin R
  BY <1>1, WFMin
<1>4. \A m \in T : m \in Nat /\ n \in Nat /\ ~(m < n)
  BY <1>2, <1>3
<1>5. \A m \in T : n <= m
  BY <1>4
<1> QED BY <1>5

LEMMA Induct ==
    ASSUME NEW T \in SUBSET Nat, 0 \in T, \A n \in T : n + 1 \in T
    PROVE  T = Nat
<1> SUFFICES ASSUME T # Nat PROVE FALSE
  OBVIOUS
<1> DEFINE U == Nat \ T
<1>1. PICK n \in U : \A m \in U : n <= m
  BY Least
<1>2. n # 0 /\ n \in Nat
  BY <1>1
<1>3. n - 1 \in Nat /\ ~(n <= n - 1)
  BY <1>2
<1>4. n - 1 \in T
  BY <1>1, <1>3
<1>5. n - 1 + 1 = n
  BY <1>2
<1> QED BY <1>1, <1>4, <1>5

LEMMA InductUpTo ==
    ASSUME NEW n \in Nat, NEW T \in SUBSET (0..n), 0 \in T,
           \A i \in T : i < n => i + 1 \in T
    PROVE  T = 0..n
<1> DEFINE U == {i \in Nat : i <= n => i \in T}
<1>1. 0 \in U
  OBVIOUS
<1>2. \A i \in U : i + 1 \in U
  OBVIOUS
<1>3. U = Nat
  BY <1>1, <1>2, Induct
<1>4. \A i \in 0..n : i \in U /\ i \in Nat /\ i <= n
  BY <1>3
<1>5. \A i \in 0..n : i \in T
  BY <1>4
<1> QED BY <1>5

\* A function that applies one step after the other.
Stepwise(f, S, n, c, F) ==
    /\ f \in [0..n -> S] /\ f[0] = c
    /\ \A i \in 1..n : f[i] = F[i][f[i - 1]]

LEMMA StepsExist ==
    ASSUME NEW S, NEW n \in Nat, NEW c \in S, NEW F \in [1..n -> [S -> S]]
    PROVE  \E f : Stepwise(f, S, n, c, F)
<1> DEFINE Steps(f, m) == f[0] = c /\ \A i \in 1..m : f[i] = F[i][f[i - 1]]
           T == {m \in 0..n : \E f \in [0..m -> S] : Steps(f, m)}
<1>1. 0 \in T
  <2>1. [i \in 0..0 |-> c] \in [0..0 -> S] /\ [i \in 0..0 |-> c][0] = c
    OBVIOUS
  <2>2. Steps([i \in 0..0 |-> c], 0) /\ 0 \in 0..n
    BY <2>1
  <2> HIDE DEF Steps
  <2> QED BY <2>1, <2>2
<1>2. \A m \in T : m < n => m + 1 \in T
  <2> TAKE m \in T
  <2> HAVE m < n
  <2>1. PICK f \in [0..m -> S] : Steps(f, m)
    OBVIOUS
  <2>2. m \in 0..n /\ m + 1 \in 1..n /\ m \in 0..m
    OBVIOUS
  <2>3. F[m + 1][f[m]] \in S
    BY <2>1, <2>2
  <2>4. PICK s \in S : s = F[m + 1][f[m]]
    BY <2>3
  <2> DEFINE g == [i \in 0..m + 1 |-> IF i <= m THEN f[i] ELSE s]
  <2>5. g \in [0..m + 1 -> S] /\ g[0] = c /\ g[m + 1] = s
    BY <2>1, <2>2
  <2>6. \A i \in 1..m : g[i] = f[i] /\ g[i - 1] = f[i - 1]
    BY <2>2
  <2>7. g[m] = f[m] /\ m + 1 - 1 = m
    BY <2>2
  <2>8. \A i \in 1..m + 1 : i \in 1..m \/ i = m + 1
    BY <2>2
  <2> HIDE DEF g
  <2>9. \A i \in 1..m + 1 : g[i] = F[i][g[i - 1]]
    BY <2>1, <2>4, <2>5, <2>6, <2>7, <2>8
  <2>10. Steps(g, m + 1) /\ m + 1 \in 0..n
    BY <2>2, <2>5, <2>9
  <2> HIDE DEF Steps
  <2> QED BY <2>5, <2>10
<1> HIDE DEF T
<1>3. T = 0..n
  <2>1. T \in SUBSET (0..n)
    BY DEF T
  <2> QED BY <1>1, <1>2, <2>1, InductUpTo
<1>4. n \in T
  BY <1>3
<1> QED BY <1>4 DEF T, Stepwise

-----------------------------------------------------------------------------
(* The smallest and the largest number of a set.                           *)

LEMMA MinOf ==
    ASSUME NEW T \in SUBSET Nat, T # {}
    PROVE  Min(T) \in T /\ \A m \in T : Min(T) <= m
BY Least DEF Min

LEMMA MaxOf ==
    ASSUME NEW T \in SUBSET Nat, T # {}, NEW n \in Nat, \A m \in T : m <= n
    PROVE  Max(T) \in T /\ \A m \in T : Max(T) >= m
<1> DEFINE U == {i \in Nat : n - i \in T}
<1>1. PICK m \in T : TRUE
  OBVIOUS
<1>2. n - m \in Nat /\ n - (n - m) = m
  BY <1>1
<1>3. U # {} /\ U \in SUBSET Nat
  BY <1>2
<1>4. PICK i \in U : \A j \in U : i <= j
  BY <1>3, Least
<1>5. \A j \in T : n - j \in Nat /\ n - (n - j) = j
  OBVIOUS
<1>6. \A j \in T : n - j \in U
  BY <1>5
<1>7. \A j \in T : i <= n - j
  BY <1>4, <1>6
<1>8. n - i \in T /\ i \in Nat
  BY <1>4
<1>9. \A j \in T : n - i >= j
  BY <1>7, <1>8
<1> QED BY <1>8, <1>9 DEF Max

-----------------------------------------------------------------------------
(* The sizes of tables.                                                    *)

LEMMA DoubledSteps ==
    /\ Doubled \in [0..MaxDoublings -> Nat] /\ Doubled[0] = 4
    /\ \A i \in 1..MaxDoublings : Doubled[i] = 2 * Doubled[i - 1]
<1> DEFINE F == [i \in 1..MaxDoublings |-> [x \in Nat |-> 2 * x]]
<1>1. MaxDoublings \in Nat
  BY HashtableAssumption
<1>2. F \in [1..MaxDoublings -> [Nat -> Nat]]
  OBVIOUS
<1>3. PICK f : Stepwise(f, Nat, MaxDoublings, 4, F)
  <2>1. PICK c \in Nat : c = 4
    OBVIOUS
  <2> HIDE DEF F
  <2>2. \E f : Stepwise(f, Nat, MaxDoublings, c, F)
    BY <1>1, <1>2, StepsExist
  <2> QED BY <2>1, <2>2
<1>4. \A i \in 1..MaxDoublings : i - 1 \in 0..MaxDoublings /\ f[i] = 2 * f[i - 1]
  <2>1. \A i \in 1..MaxDoublings : i - 1 \in 0..MaxDoublings
    BY <1>1
  <2>2. \A i \in 1..MaxDoublings, x \in Nat : F[i][x] = 2 * x
    OBVIOUS
  <2> HIDE DEF F
  <2> QED BY <1>3, <2>1, <2>2 DEF Stepwise
<1>5. f = [i \in 0..MaxDoublings |-> IF i = 0 THEN HT_MIN_BUCKETS ELSE 2 * f[i - 1]]
  BY <1>1, <1>3, <1>4 DEF Stepwise, HT_MIN_BUCKETS
<1>6. Doubled = [i \in 0..MaxDoublings |-> IF i = 0 THEN HT_MIN_BUCKETS ELSE 2 * Doubled[i - 1]]
  BY <1>5 DEF Doubled
<1> DEFINE T == {i \in 0..MaxDoublings : Doubled[i] \in Nat}
<1>7. 0 \in T
  BY <1>1, <1>6 DEF HT_MIN_BUCKETS
<1>8. \A i \in T : i < MaxDoublings => i + 1 \in T
  <2> TAKE i \in T
  <2> HAVE i < MaxDoublings
  <2>1. i + 1 \in 0..MaxDoublings /\ i + 1 # 0 /\ i + 1 - 1 = i
    BY <1>1
  <2>2. Doubled[i + 1] = 2 * Doubled[i]
    BY <1>6, <2>1
  <2> QED BY <2>1, <2>2
<1>9. T = 0..MaxDoublings
  BY <1>1, <1>7, <1>8, InductUpTo
<1>10. \A i \in 0..MaxDoublings : Doubled[i] \in Nat
  BY <1>9
<1>11. Doubled \in [0..MaxDoublings -> Nat]
  BY <1>6, <1>10
<1>12. \A i \in 1..MaxDoublings : i \in 0..MaxDoublings /\ i # 0
  BY <1>1
<1>13. \A i \in 1..MaxDoublings : Doubled[i] = 2 * Doubled[i - 1]
  BY <1>6, <1>12
<1>14. Doubled[0] = 4
  BY <1>1, <1>6 DEF HT_MIN_BUCKETS
<1> QED BY <1>11, <1>13, <1>14

LEMMA DoubledGrows ==
    ASSUME NEW j \in 0..MaxDoublings
    PROVE  /\ Doubled[j] >= 4
           /\ \A i \in 0..j : Doubled[i] <= Doubled[j]
<1> DEFINE T == {m \in 0..MaxDoublings : /\ Doubled[m] >= 4
                                         /\ \A i \in 0..m : Doubled[i] <= Doubled[m]}
<1>1. MaxDoublings \in Nat
  BY HashtableAssumption
<1>2. 0 \in T
  BY <1>1, DoubledSteps
<1>3. \A m \in T : m < MaxDoublings => m + 1 \in T
  <2> TAKE m \in T
  <2> HAVE m < MaxDoublings
  <2>1. m + 1 \in 0..MaxDoublings /\ m + 1 \in 1..MaxDoublings /\ m + 1 - 1 = m
    BY <1>1
  <2>2. Doubled[m + 1] = 2 * Doubled[m] /\ Doubled[m] \in Nat /\ Doubled[m] >= 4
    BY <2>1, DoubledSteps
  <2>3. \A i \in 0..m + 1 : i \in 0..m \/ i = m + 1
    BY <2>1
  <2>4. \A i \in 0..m : Doubled[i] \in Nat /\ Doubled[i] <= Doubled[m]
    BY <1>1, DoubledSteps
  <2>5. \A i \in 0..m + 1 : Doubled[i] <= Doubled[m + 1]
    BY <2>2, <2>3, <2>4
  <2> QED BY <2>1, <2>2, <2>5
<1>4. T = 0..MaxDoublings
  BY <1>1, <1>2, <1>3, InductUpTo
<1> QED BY <1>4

Largest == Doubled[MaxDoublings]

LEMMA SizesAre ==
    /\ Sizes \subseteq Nat /\ Largest \in Sizes
    /\ \A sz \in Sizes : sz >= 4 /\ sz <= Largest
    /\ HT_MIN_BUCKETS \in Sizes /\ DefaultStartingBuckets \in Sizes
<1>1. MaxDoublings \in Nat /\ DefaultStartingBuckets \in Sizes
  BY HashtableAssumption
<1>2. \A i \in 0..MaxDoublings : Doubled[i] \in Nat /\ Doubled[i] >= 4 /\ Doubled[i] <= Largest
  BY <1>1, DoubledSteps, DoubledGrows DEF Largest
<1>3. 0 \in 0..MaxDoublings /\ MaxDoublings \in 0..MaxDoublings
  BY <1>1
<1> QED BY <1>1, <1>2, <1>3, DoubledSteps DEF Sizes, Largest, HT_MIN_BUCKETS

LEMMA MinSizeFits ==
    ASSUME NEW elts \in Nat, 2 * elts < Largest, NEW wanted \in Nat, wanted <= Largest
    PROVE  /\ MinSize(elts, wanted) \in Sizes
           /\ MinSize(elts, wanted) >= wanted /\ 2 * elts < MinSize(elts, wanted)
<1> DEFINE T == {sz \in Sizes : sz >= wanted /\ 2 * elts < sz}
<1>1. T \in SUBSET Nat /\ Largest \in T
  BY SizesAre
<1>2. Min(T) \in T
  BY <1>1, MinOf
<1> QED BY <1>2 DEF MinSize

\* A table larger than the default one has a size to shrink to.
LEMMA Halved ==
    ASSUME NEW n \in Sizes, n > DefaultStartingBuckets
    PROVE  DefaultStartingBuckets <= n \div 2
<1>1. MaxDoublings \in Nat
  BY HashtableAssumption
<1>2. PICK i \in 0..MaxDoublings, j \in 0..MaxDoublings :
        Doubled[i] = DefaultStartingBuckets /\ Doubled[j] = n
  BY SizesAre DEF Sizes
<1>3. ~(j <= i)
  <2> SUFFICES ASSUME j <= i PROVE FALSE
    OBVIOUS
  <2>1. j \in 0..i
    BY <1>1
  <2>2. Doubled[j] <= Doubled[i]
    BY <2>1, DoubledGrows
  <2> QED BY <1>2, <2>2, SizesAre
<1>4. j \in 1..MaxDoublings /\ j - 1 \in 0..MaxDoublings /\ i \in 0..j - 1
  BY <1>1, <1>3
<1>5. Doubled[i] <= Doubled[j - 1]
  BY <1>4, DoubledGrows
<1>6. n = 2 * Doubled[j - 1] /\ Doubled[j - 1] \in Nat
  BY <1>2, <1>4, DoubledSteps
<1> QED BY <1>2, <1>5, <1>6

-----------------------------------------------------------------------------
(* The probe sequence of a key meets every bucket: the triangular numbers  *)
(* up to a power of two are different modulo that power.                   *)

Odd(a) == \E c \in Int : a = 2 * c + 1

\* What divides a product with an odd number divides the other factor.
Dyadic == {d \in Nat : /\ d > 0
                       /\ \A a, b, q \in Int : Odd(a) /\ a * b = d * q => \E r \in Int : b = d * r}

LEMMA OneDyadic == 1 \in Dyadic
BY DEF Dyadic

LEMMA TwiceDyadic ==
    ASSUME NEW d \in Dyadic
    PROVE  2 * d \in Dyadic
<1>1. d \in Nat /\ d > 0
  BY DEF Dyadic
<1>2. SUFFICES ASSUME NEW a \in Int, NEW b \in Int, NEW q \in Int, Odd(a), a * b = 2 * d * q
               PROVE  \E r \in Int : b = 2 * d * r
  BY <1>1 DEF Dyadic
<1>3. PICK c \in Int : a = 2 * c + 1
  BY <1>2 DEF Odd
<1>4. PICK m \in Int : m = d * q
  BY <1>1
<1>5. a * b = 2 * m
  BY <1>1, <1>2, <1>4
<1>6. PICK e \in Int : e = c * b
  OBVIOUS
<1>7. a * b = 2 * e + b
  BY <1>3, <1>6
<1>8. b = 2 * (m - e) /\ m - e \in Int
  BY <1>5, <1>7
<1>9. PICK h \in Int : h = m - e
  BY <1>8
<1>10. b = 2 * h
  BY <1>8, <1>9
<1>11. PICK g \in Int : g = a * h
  OBVIOUS
<1>12. a * b = 2 * g
  BY <1>10, <1>11
<1>13. g = m
  BY <1>5, <1>12
<1>14. a * h = d * q
  BY <1>4, <1>11, <1>13
<1>15. PICK r \in Int : h = d * r
  BY <1>2, <1>14 DEF Dyadic
<1>16. b = 2 * d * r
  BY <1>1, <1>10, <1>15
<1> QED BY <1>16

LEMMA SizesDyadic ==
    ASSUME NEW n \in Sizes
    PROVE  2 * n \in Dyadic
<1> DEFINE T == {i \in 0..MaxDoublings : Doubled[i] \in Dyadic}
<1>1. MaxDoublings \in Nat
  BY HashtableAssumption
<1>2. 0 \in T
  <2>1. 2 * 1 \in Dyadic
    BY OneDyadic, TwiceDyadic
  <2>2. 2 * (2 * 1) \in Dyadic
    BY <2>1, TwiceDyadic
  <2>3. 2 * (2 * 1) = 4
    OBVIOUS
  <2> QED BY <1>1, <2>2, <2>3, DoubledSteps
<1>3. \A i \in T : i < MaxDoublings => i + 1 \in T
  <2> TAKE i \in T
  <2> HAVE i < MaxDoublings
  <2>1. i + 1 \in 0..MaxDoublings /\ i + 1 \in 1..MaxDoublings /\ i + 1 - 1 = i
    BY <1>1
  <2>2. Doubled[i + 1] = 2 * Doubled[i]
    BY <2>1, DoubledSteps
  <2>3. 2 * Doubled[i] \in Dyadic
    BY TwiceDyadic
  <2> QED BY <2>1, <2>2, <2>3
<1>4. T = 0..MaxDoublings
  BY <1>1, <1>2, <1>3, InductUpTo
<1>5. PICK i \in 0..MaxDoublings : n = Doubled[i]
  BY DEF Sizes
<1>6. n \in Dyadic
  BY <1>4, <1>5
<1> QED BY <1>6, TwiceDyadic

Triangular(i) == (i * (i + 1)) \div 2

LEMMA TwiceTriangular ==
    ASSUME NEW i \in Nat
    PROVE  Triangular(i) \in Nat /\ 2 * Triangular(i) = i * (i + 1)
<1>1. PICK p \in Nat : p = i * (i + 1)
  OBVIOUS
<1>2. \E c \in Nat : p = 2 * c
  <2>1. CASE \E c \in Nat : i = 2 * c
    <3>1. PICK c \in Nat : i = 2 * c
      BY <2>1
    <3>2. p = 2 * (c * (i + 1)) /\ c * (i + 1) \in Nat
      BY <1>1, <3>1
    <3> QED BY <3>2
  <2>2. CASE \E c \in Nat : i = 2 * c + 1
    <3>1. PICK c \in Nat : i = 2 * c + 1
      BY <2>2
    <3>2. p = 2 * (i * (c + 1)) /\ i * (c + 1) \in Nat
      BY <1>1, <3>1
    <3> QED BY <3>2
  <2>3. (\E c \in Nat : i = 2 * c) \/ (\E c \in Nat : i = 2 * c + 1)
    <3>1. i \div 2 \in Nat /\ (i = 2 * (i \div 2) \/ i = 2 * (i \div 2) + 1)
      OBVIOUS
    <3> QED BY <3>1
  <2> QED BY <2>1, <2>2, <2>3
<1>3. p \div 2 \in Nat /\ 2 * (p \div 2) = p
  BY <1>2
<1> QED BY <1>1, <1>3 DEF Triangular

LEMMA ProbesDiffer ==
    ASSUME NEW n \in Sizes, NEW h \in Nat, NEW i \in 0..n - 1, NEW j \in 0..n - 1, i < j,
           (h + Triangular(i)) % n = (h + Triangular(j)) % n
    PROVE  FALSE
<1>1. n \in Nat /\ n > 0 /\ i \in Nat /\ j \in Nat /\ j < n
  BY SizesAre
<1>2. PICK x \in Nat, y \in Nat : x = Triangular(i) /\ y = Triangular(j)
  BY <1>1, TwiceTriangular
<1>3. PICK p \in Int, q \in Int, w \in Int : h + x = n * p + w /\ h + y = n * q + w
  <2>1. PICK u \in Nat, v \in Nat : u = h + x /\ v = h + y
    OBVIOUS
  <2>2. u = n * (u \div n) + (u % n) /\ v = n * (v \div n) + (v % n)
    BY <1>1
  <2>3. u \div n \in Int /\ v \div n \in Int /\ u % n \in Int /\ u % n = v % n
    BY <1>1, <1>2, <2>1
  <2> QED BY <2>1, <2>2, <2>3
<1>4. y - x = n * (q - p) /\ q - p \in Int
  BY <1>1, <1>3
<1>5. PICK a \in Int, b \in Int, d \in Int : a = j - i /\ b = j + i + 1 /\ d = q - p
  BY <1>1, <1>4
<1>6. a * b = (2 * n) * d
  <2>1. 2 * x = i * (i + 1) /\ 2 * y = j * (j + 1)
    BY <1>1, <1>2, TwiceTriangular
  <2>2. a * b = j * (j + 1) - i * (i + 1)
    BY <1>1, <1>5
  <2>3. a * b = 2 * (y - x)
    BY <2>1, <2>2
  <2> QED BY <1>1, <1>4, <1>5, <2>3
<1>7. 0 < a /\ a < 2 * n /\ 0 < b /\ b < 2 * n
  BY <1>1, <1>5
<1>8. \A r \in Int : 0 < 2 * n * r => 2 * n * r >= 2 * n
  BY <1>1
<1>9. CASE Odd(a)
  <2>1. PICK r \in Int : b = 2 * n * r
    BY <1>6, <1>9, SizesDyadic DEF Dyadic
  <2> QED BY <1>1, <1>7, <1>8, <2>1
<1>10. CASE Odd(b)
  <2>1. b * a = (2 * n) * d
    BY <1>6
  <2>2. PICK r \in Int : a = 2 * n * r
    BY <1>10, <2>1, SizesDyadic DEF Dyadic
  <2> QED BY <1>1, <1>7, <1>8, <2>2
<1>11. Odd(a) \/ Odd(b)
  <2>1. a + b = 2 * j + 1
    BY <1>1, <1>5
  <2>2. (\E c \in Int : a = 2 * c) \/ (\E c \in Int : a = 2 * c + 1)
    <3>1. a \div 2 \in Int /\ (a = 2 * (a \div 2) \/ a = 2 * (a \div 2) + 1)
      OBVIOUS
    <3> QED BY <3>1
  <2>3. ASSUME NEW c \in Int, a = 2 * c
        PROVE  b = 2 * (j - c) + 1 /\ j - c \in Int
    BY <1>1, <2>1, <2>3
  <2> QED BY <2>2, <2>3 DEF Odd
<1> QED BY <1>9, <1>10, <1>11

LEMMA ProbesCover ==
    ASSUME NEW n \in Sizes, NEW h \in Nat, NEW b \in 0..n - 1
    PROVE  \E i \in 0..n - 1 : (h + Triangular(i)) % n = b
<1> DEFINE B == 0..n - 1
           f == [i \in B |-> (h + Triangular(i)) % n]
<1>1. n \in Nat /\ n > 0
  BY SizesAre
<1>2. \A i \in B : h + Triangular(i) \in Nat
  BY <1>1, TwiceTriangular
<1>3. \A u \in Nat : u % n \in B
  BY <1>1
<1>4. f \in [B -> B]
  BY <1>2, <1>3
<1>5. ASSUME NEW i \in B, NEW j \in B, f[i] = f[j]
      PROVE  i = j
  <2>1. (h + Triangular(i)) % n = (h + Triangular(j)) % n
    BY <1>5
  <2>2. i \in Nat /\ j \in Nat
    BY <1>1
  <2>3. ~(i < j) /\ ~(j < i)
    BY <2>1, ProbesDiffer
  <2> QED BY <2>2, <2>3
<1>6. IsFiniteSet(B)
  BY <1>1, FS_Interval
<1> HIDE DEF f
<1>7. f \in Injection(B, B)
  BY <1>4, <1>5 DEF Injection, IsInjective
<1>8. f \in Surjection(B, B)
  BY <1>6, <1>7, FS_Injection
<1>9. PICK i \in B : f[i] = b
  BY <1>8 DEF Surjection
<1> QED BY <1>9 DEF f

-----------------------------------------------------------------------------
(* The invariant of a table.                                               *)

ProbeAt(h, n, k, i) == (h[k] + Triangular(i)) % n

\* The search for a key that starts without an empty bucket gets to a bucket.
OnPath(h, t, k, b) ==
    \E i \in 0..t.n - 1 :
        /\ ProbeAt(h, t.n, k, i) = b
        /\ \A j \in 0..i - 1 : t.bucket[ProbeAt(h, t.n, k, j)].key # EmptyKey

Tombs(t) == {b \in UsedBuckets(t) : t.bucket[b].key = DeletedKey}
Held(t, k) == {b \in 0..t.n - 1 : t.bucket[b].key = k}

\* The counters are right and leave half of the buckets empty, deleted buckets
\* are only there when they are told from others, no key has two buckets, and
\* no empty bucket is on the way to a key.
TableInv(h, t) ==
    /\ t \in Table(t.n) /\ t.n \in Sizes
    /\ 2 * t.elements <= t.n
    /\ t.elements = Cardinality(UsedBuckets(t))
    /\ t.deleted = Cardinality(Tombs(t))
    /\ t.deleted > 0 => t.useDeleted
    /\ \A k \in Key : \A b, c \in Held(t, k) : b = c
    /\ \A k \in Key : \A b \in Held(t, k) : OnPath(h, t, k, b)

LEMMA TableIs ==
    ASSUME NEW h, NEW t, TableInv(h, t)
    PROVE  /\ t.n \in Nat /\ t.n >= 4 /\ t.n \in Sizes
           /\ t.bucket \in [0..t.n - 1 -> Entry]
           /\ t.elements \in Nat /\ t.deleted \in Nat
           /\ t.considerShrink \in BOOLEAN /\ t.useDeleted \in BOOLEAN
           /\ IsFiniteSet(0..t.n - 1) /\ Cardinality(0..t.n - 1) = t.n
           /\ \A b \in 0..t.n - 1 : /\ t.bucket[b].key \in Key \cup {EmptyKey, DeletedKey}
                                    /\ t.bucket[b].val \in Val
           /\ t = [n |-> t.n, bucket |-> t.bucket, elements |-> t.elements, deleted |-> t.deleted,
                   considerShrink |-> t.considerShrink, useDeleted |-> t.useDeleted]
<1>1. t.n \in Sizes /\ t \in Table(t.n)
  BY DEF TableInv
<1>2. t.n \in Nat /\ t.n >= 4
  BY <1>1, SizesAre
<1>3. /\ t.bucket \in [0..t.n - 1 -> Entry]
      /\ t.elements \in Nat /\ t.deleted \in Nat
      /\ t.considerShrink \in BOOLEAN /\ t.useDeleted \in BOOLEAN
  BY <1>1, <1>2 DEF Table
<1>4. t = [n |-> t.n, bucket |-> t.bucket, elements |-> t.elements, deleted |-> t.deleted,
           considerShrink |-> t.considerShrink, useDeleted |-> t.useDeleted]
  BY <1>1 DEF Table
<1>5. IsFiniteSet(0..t.n - 1) /\ Cardinality(0..t.n - 1) = t.n
  <2>1. 0 \in Int /\ t.n - 1 \in Int /\ t.n - 1 - 0 + 1 = t.n /\ ~(0 > t.n - 1)
    BY <1>2
  <2> QED BY <2>1, FS_Interval
<1>6. \A b \in 0..t.n - 1 : t.bucket[b] \in Entry
  BY <1>3
<1>7. \A b \in 0..t.n - 1 : /\ t.bucket[b].key \in Key \cup {EmptyKey, DeletedKey}
                            /\ t.bucket[b].val \in Val
  BY <1>6 DEF Entry
<1> QED BY <1>1, <1>2, <1>3, <1>4, <1>5, <1>7

LEMMA SubsetFinite ==
    ASSUME NEW n \in Nat, NEW B \in SUBSET (0..n - 1)
    PROVE  IsFiniteSet(B) /\ Cardinality(B) \in Nat /\ Cardinality(B) <= n
<1>1. IsFiniteSet(0..n - 1) /\ Cardinality(0..n - 1) = n
  BY FS_Interval
<1>2. IsFiniteSet(B) /\ Cardinality(B) <= Cardinality(0..n - 1)
  BY <1>1, FS_Subset
<1>3. Cardinality(B) \in Nat
  BY <1>2, FS_CardinalityType
<1> QED BY <1>1, <1>2, <1>3

\* A bucket is live when it holds a key, and deleted when it is marked so.
LEMMA LiveIs ==
    ASSUME NEW h, NEW t, TableInv(h, t), NEW b \in 0..t.n - 1
    PROVE  /\ Live(t, b) <=> t.bucket[b].key \in Key
           /\ TestDeleted(t, b) <=> t.bucket[b].key = DeletedKey
           /\ TestEmpty(t, b) <=> t.bucket[b].key = EmptyKey
<1>1. t.bucket[b].key \in Key \cup {EmptyKey, DeletedKey} /\ t.n \in Nat
  BY TableIs
<1>2. EmptyKey \notin Key /\ DeletedKey \notin Key /\ EmptyKey # DeletedKey
  BY HashtableAssumption
<1>3. ASSUME t.bucket[b].key = DeletedKey
      PROVE  t.useDeleted /\ t.deleted > 0
  <2>1. b \in Tombs(t) /\ Tombs(t) \in SUBSET (0..t.n - 1)
    BY <1>2, <1>3 DEF Tombs, UsedBuckets, TestEmpty
  <2>2. IsFiniteSet(Tombs(t)) /\ Cardinality(Tombs(t)) \in Nat
    BY <1>1, <2>1, SubsetFinite
  <2>3. Cardinality(Tombs(t)) # 0
    BY <2>1, <2>2, FS_EmptySet
  <2> QED BY <2>2, <2>3 DEF TableInv
<1> QED BY <1>1, <1>2, <1>3 DEF Live, LiveEntry, TestDeleted, DeletedEntry, TestEmpty

LEMMA HoldingIs ==
    ASSUME NEW h, NEW t, TableInv(h, t), NEW k \in Key
    PROVE  /\ Holding(t, k) = Held(t, k)
           /\ \A b \in Held(t, k) : Held(t, k) = {b} /\ Contents(t)[k] = t.bucket[b].val
           /\ Held(t, k) = {} => Contents(t)[k] = Nil
<1>1. Holding(t, k) = Held(t, k)
  BY LiveIs DEF Holding, Held
<1>2. ASSUME NEW b \in Held(t, k)
      PROVE  Held(t, k) = {b}
  BY DEF TableInv
<1>3. Contents(t)[k] = IF Holding(t, k) = {} THEN Nil
                       ELSE t.bucket[CHOOSE b \in Holding(t, k) : TRUE].val
  BY DEF Contents
<1>4. ASSUME NEW b \in Held(t, k)
      PROVE  Contents(t)[k] = t.bucket[b].val
  <2>1. Holding(t, k) = {b}
    BY <1>1, <1>2
  <2> QED BY <1>3, <2>1
<1> QED BY <1>1, <1>2, <1>3, <1>4

LEMMA ContentsIs ==
    ASSUME NEW h, NEW t, TableInv(h, t)
    PROVE  /\ Contents(t) \in [Key -> Val \cup {Nil}]
           /\ \A k \in Key : (Held(t, k) = {}) <=> (Contents(t)[k] = Nil)
<1>1. ASSUME NEW k \in Key
      PROVE  /\ Contents(t)[k] \in Val \cup {Nil}
             /\ (Held(t, k) = {}) <=> (Contents(t)[k] = Nil)
  <2>1. CASE Held(t, k) = {}
    BY <2>1, HoldingIs
  <2>2. ASSUME NEW b \in Held(t, k)
        PROVE  Contents(t)[k] \in Val /\ Held(t, k) # {}
    BY HoldingIs, TableIs DEF Held
  <2> QED BY <2>1, <2>2, HashtableAssumption
<1> QED BY <1>1 DEF Contents

\* Half of the buckets are empty.
LEMMA FreeIs ==
    ASSUME NEW h, NEW t, TableInv(h, t)
    PROVE  /\ Free(t) # {} /\ Free(t) \subseteq 0..t.n - 1
           /\ \A b \in 0..t.n - 1 : b \in Free(t) <=> t.bucket[b].key = EmptyKey
<1>1. \A b \in 0..t.n - 1 : b \in Free(t) \/ b \in UsedBuckets(t)
  BY DEF Free, UsedBuckets
<1>2. UsedBuckets(t) # 0..t.n - 1
  <2> SUFFICES ASSUME UsedBuckets(t) = 0..t.n - 1 PROVE FALSE
    OBVIOUS
  <2>1. t.elements = t.n /\ 2 * t.elements <= t.n
    BY TableIs DEF TableInv
  <2> QED BY <2>1, TableIs
<1>3. UsedBuckets(t) \subseteq 0..t.n - 1
  BY DEF UsedBuckets
<1> QED BY <1>1, <1>2, <1>3 DEF Free, TestEmpty

-----------------------------------------------------------------------------
(* Searching.                                                              *)

LEMMA FirstProbeIs ==
    ASSUME hash \in Hashes, NEW t, t.n \in Sizes, NEW k \in Key,
           NEW stops \in SUBSET (0..t.n - 1), stops # {}
    PROVE  /\ FirstProbe(t, k, stops) \in stops
           /\ \E i \in 0..t.n - 1 :
                 /\ ProbeAt(hash, t.n, k, i) = FirstProbe(t, k, stops)
                 /\ \A j \in 0..i - 1 : ProbeAt(hash, t.n, k, j) \notin stops
<1>1. t.n \in Nat /\ hash[k] \in Nat
  BY SizesAre, HashtableAssumption
<1>2. \A i \in Nat : Probe(t, k, i) = ProbeAt(hash, t.n, k, i)
  BY DEF Probe, ProbeAt, Triangular
<1> DEFINE T == {i \in 0..t.n - 1 : Probe(t, k, i) \in stops}
<1>3. PICK b \in 0..t.n - 1 : b \in stops
  OBVIOUS
<1>4. PICK i \in 0..t.n - 1 : ProbeAt(hash, t.n, k, i) = b
  BY <1>1, ProbesCover DEF ProbeAt
<1>5. i \in T /\ T \in SUBSET Nat
  BY <1>1, <1>2, <1>3, <1>4
<1>6. Min(T) \in T /\ \A j \in T : Min(T) <= j
  BY <1>5, MinOf
<1>7. PICK m \in T : m = Min(T) /\ \A j \in T : m <= j
  BY <1>6
<1>8. FirstProbe(t, k, stops) = Probe(t, k, m)
  BY <1>7 DEF FirstProbe
<1>9. \A j \in 0..m - 1 : j \in 0..t.n - 1 /\ j \in Nat /\ ~(m <= j)
  BY <1>1, <1>7
<1>10. \A j \in 0..m - 1 : j \notin T
  BY <1>7, <1>9
<1>11. m \in 0..t.n - 1 /\ m \in Nat /\ Probe(t, k, m) \in stops
  BY <1>1, <1>7
<1> HIDE DEF T
<1>12. \A j \in 0..m - 1 : ProbeAt(hash, t.n, k, j) \notin stops
  BY <1>2, <1>9, <1>10 DEF T
<1> QED BY <1>2, <1>8, <1>11, <1>12

\* A search gets to the bucket of its key or, when there is none, to an empty one.
LEMMA FoundAtIs ==
    ASSUME hash \in Hashes, NEW t, TableInv(hash, t), NEW k \in Key
    PROVE  /\ FoundAt(t, k) \in 0..t.n - 1
           /\ Held(t, k) # {} => Held(t, k) = {FoundAt(t, k)}
           /\ Held(t, k) = {} => FoundAt(t, k) \in Free(t)
           /\ IsThere(t, k) <=> Held(t, k) # {}
<1>1. Ends(t, k) = Free(t) \cup Held(t, k)
  BY HoldingIs DEF Ends, Holding
<1>2. t.n \in Sizes /\ Ends(t, k) \in SUBSET (0..t.n - 1) /\ Ends(t, k) # {}
  BY <1>1, FreeIs, TableIs DEF Held
<1>3. FoundAt(t, k) \in Ends(t, k)
  BY <1>2, FirstProbeIs DEF FoundAt
<1>4. PICK i \in 0..t.n - 1 : /\ ProbeAt(hash, t.n, k, i) = FoundAt(t, k)
                              /\ \A j \in 0..i - 1 : ProbeAt(hash, t.n, k, j) \notin Ends(t, k)
  BY <1>2, FirstProbeIs DEF FoundAt
<1>5. ASSUME NEW b \in Held(t, k), FoundAt(t, k) # b
      PROVE  FALSE
  <2>1. Held(t, k) = {b}
    BY HoldingIs
  <2>2. FoundAt(t, k) \in Free(t)
    BY <1>1, <1>3, <1>5, <2>1
  <2>3. PICK m \in 0..t.n - 1 :
          /\ ProbeAt(hash, t.n, k, m) = b
          /\ \A j \in 0..m - 1 : t.bucket[ProbeAt(hash, t.n, k, j)].key # EmptyKey
    BY DEF TableInv, OnPath
  <2>4. t.n \in Nat
    BY TableIs
  <2>5. i < m \/ m < i \/ i = m
    BY <2>4
  <2>6. CASE i < m
    <3>1. i \in 0..m - 1
      BY <2>4, <2>6
    <3> QED BY <1>4, <2>2, <2>3, <3>1, FreeIs
  <2>7. CASE m < i
    <3>1. m \in 0..i - 1
      BY <2>4, <2>7
    <3> QED BY <1>1, <1>4, <2>3, <3>1
  <2>8. CASE i = m
    BY <1>4, <1>5, <2>3, <2>8
  <2> QED BY <2>5, <2>6, <2>7, <2>8
<1>6. \A b \in Held(t, k) : Held(t, k) = {b} /\ FoundAt(t, k) = b
  BY <1>5, HoldingIs
<1>7. FoundAt(t, k) \in 0..t.n - 1
  BY <1>2, <1>3
<1>8. IsThere(t, k) <=> FoundAt(t, k) \notin Free(t)
  BY <1>7 DEF IsThere, Free
<1>9. \A b \in Held(t, k) : b \notin Free(t)
  BY FreeIs, HashtableAssumption DEF Held
<1> QED BY <1>1, <1>3, <1>6, <1>7, <1>8, <1>9

LEMMA InsertPosIs ==
    ASSUME hash \in Hashes, NEW t, TableInv(hash, t), NEW k \in Key, Held(t, k) = {}
    PROVE  /\ InsertPos(t, k) \in 0..t.n - 1
           /\ t.bucket[InsertPos(t, k)].key \in {EmptyKey, DeletedKey}
           /\ OnPath(hash, t, k, InsertPos(t, k))
<1> DEFINE S == Ends(t, k) \cup {b \in Dead(t) : TestDeleted(t, b)}
<1>1. Ends(t, k) = Free(t)
  BY HoldingIs DEF Ends, Holding
<1>2. S \subseteq 0..t.n - 1 /\ Free(t) \subseteq S /\ Free(t) # {}
  BY <1>1, FreeIs DEF Dead
<1>3. \A b \in S : b \in 0..t.n - 1 /\ t.bucket[b].key \in {EmptyKey, DeletedKey}
  BY <1>1, <1>2, FreeIs, LiveIs
<1>4. InsertPos(t, k) = FirstProbe(t, k, S)
  BY DEF InsertPos
<1> HIDE DEF S
<1>5. t.n \in Sizes /\ S \in SUBSET (0..t.n - 1) /\ S # {}
  BY <1>2, TableIs
<1>6. InsertPos(t, k) \in S
  BY <1>4, <1>5, FirstProbeIs
<1>7. PICK i \in 0..t.n - 1 : /\ ProbeAt(hash, t.n, k, i) = InsertPos(t, k)
                              /\ \A j \in 0..i - 1 : ProbeAt(hash, t.n, k, j) \notin S
  BY <1>4, <1>5, FirstProbeIs
<1>8. \A j \in 0..i - 1 : ProbeAt(hash, t.n, k, j) \in 0..t.n - 1
  <2>1. t.n \in Nat /\ t.n >= 4 /\ hash[k] \in Nat
    BY TableIs, HashtableAssumption
  <2>2. \A u \in Nat : u % t.n \in 0..t.n - 1
    BY <2>1
  <2>3. \A j \in 0..i - 1 : hash[k] + Triangular(j) \in Nat
    BY <2>1, TwiceTriangular
  <2> QED BY <2>2, <2>3 DEF ProbeAt
<1>9. \A j \in 0..i - 1 : t.bucket[ProbeAt(hash, t.n, k, j)].key # EmptyKey
  BY <1>2, <1>7, <1>8, FreeIs
<1> QED BY <1>3, <1>6, <1>7, <1>9 DEF OnPath

-----------------------------------------------------------------------------
(* One bucket changes.                                                     *)

LEMMA ProbeIn ==
    ASSUME NEW h \in Hashes, NEW n \in Sizes, NEW k \in Key, NEW i \in Nat
    PROVE  ProbeAt(h, n, k, i) \in 0..n - 1
<1>1. n \in Nat /\ n >= 4 /\ h[k] \in Nat
  BY SizesAre, HashtableAssumption
<1>2. \A u \in Nat : u % n \in 0..n - 1
  BY <1>1
<1>3. h[k] + Triangular(i) \in Nat
  BY <1>1, TwiceTriangular
<1> QED BY <1>2, <1>3 DEF ProbeAt

LEMMA PathKept ==
    ASSUME NEW h \in Hashes, NEW t, NEW u, t.n \in Sizes, u.n = t.n,
           \A c \in 0..t.n - 1 : t.bucket[c].key # EmptyKey => u.bucket[c].key # EmptyKey,
           NEW k \in Key, NEW b, OnPath(h, t, k, b)
    PROVE  OnPath(h, u, k, b)
<1>1. PICK i \in 0..t.n - 1 :
        /\ ProbeAt(h, t.n, k, i) = b
        /\ \A j \in 0..i - 1 : t.bucket[ProbeAt(h, t.n, k, j)].key # EmptyKey
  BY DEF OnPath
<1>2. i \in Nat
  BY <1>1, SizesAre
<1>3. \A j \in 0..i - 1 : j \in Nat
  BY <1>2
<1>4. \A j \in 0..i - 1 : u.bucket[ProbeAt(h, t.n, k, j)].key # EmptyKey
  BY <1>1, <1>3, ProbeIn
<1> QED BY <1>1, <1>4 DEF OnPath

\* What an insertion does to a table: an empty or a deleted bucket on the way
\* to its key gets the entry.
PutIn(t, e, b, u) ==
    \/ /\ t.bucket[b].key = EmptyKey /\ 2 * (t.elements + 1) <= t.n
       /\ u = [t EXCEPT !.bucket[b] = e, !.elements = @ + 1]
    \/ /\ t.bucket[b].key = DeletedKey
       /\ u = [t EXCEPT !.bucket[b] = e, !.deleted = @ - 1]

HasPut(t, e, b, u) ==
    /\ u.n = t.n /\ u.useDeleted = t.useDeleted /\ u.considerShrink = t.considerShrink
    /\ u.bucket \in [0..t.n - 1 -> Entry]
    /\ u.bucket[b] = e /\ \A c \in 0..t.n - 1 : c # b => u.bucket[c] = t.bucket[c]
    /\ \/ /\ t.bucket[b].key = EmptyKey /\ 2 * (t.elements + 1) <= t.n
          /\ u.elements = t.elements + 1 /\ u.deleted = t.deleted
       \/ /\ t.bucket[b].key = DeletedKey
          /\ u.elements = t.elements /\ u.deleted = t.deleted - 1

LEMMA PutFields ==
    ASSUME NEW h, NEW t, TableInv(h, t), NEW e \in Entry, e.key \in Key,
           NEW b \in 0..t.n - 1, NEW u, PutIn(t, e, b, u)
    PROVE  HasPut(t, e, b, u)
<1> DEFINE f == [t.bucket EXCEPT ![b] = e]
<1>1. t.bucket \in [0..t.n - 1 -> Entry]
  BY TableIs
<1>2. f \in [0..t.n - 1 -> Entry] /\ f[b] = e /\ \A c \in 0..t.n - 1 : c # b => f[c] = t.bucket[c]
  BY <1>1
<1>3. DOMAIN t = {"n", "bucket", "elements", "deleted", "considerShrink", "useDeleted"}
  BY TableIs
<1> HIDE DEF f
<1>7. CASE /\ t.bucket[b].key = EmptyKey /\ 2 * (t.elements + 1) <= t.n
           /\ u = [t EXCEPT !.bucket[b] = e, !.elements = @ + 1]
  <2>1. /\ u.n = t.n /\ u.useDeleted = t.useDeleted /\ u.considerShrink = t.considerShrink
        /\ u.bucket = f /\ u.elements = t.elements + 1 /\ u.deleted = t.deleted
    BY <1>3, <1>7 DEF f
  <2> QED BY <1>2, <1>7, <2>1 DEF f, HasPut
<1>8. CASE /\ t.bucket[b].key = DeletedKey
           /\ u = [t EXCEPT !.bucket[b] = e, !.deleted = @ - 1]
  <2>1. /\ u.n = t.n /\ u.useDeleted = t.useDeleted /\ u.considerShrink = t.considerShrink
        /\ u.bucket = f /\ u.elements = t.elements /\ u.deleted = t.deleted - 1
    BY <1>3, <1>8 DEF f
  <2> QED BY <1>2, <1>8, <2>1 DEF f, HasPut
<1> QED BY <1>7, <1>8 DEF PutIn, HasPut

LEMMA PutIs ==
    ASSUME NEW h \in Hashes, NEW t, TableInv(h, t), NEW e \in Entry, e.key \in Key,
           Held(t, e.key) = {}, NEW b \in 0..t.n - 1, OnPath(h, t, e.key, b),
           NEW u, PutIn(t, e, b, u)
    PROVE  /\ TableInv(h, u)
           /\ Contents(u) = [Contents(t) EXCEPT ![e.key] = e.val]
<1>0. HasPut(t, e, b, u)
  BY PutFields
<1>1. /\ u.n = t.n /\ u.useDeleted = t.useDeleted /\ u.considerShrink = t.considerShrink
      /\ u.bucket \in [0..t.n - 1 -> Entry]
      /\ u.bucket[b] = e /\ \A c \in 0..t.n - 1 : c # b => u.bucket[c] = t.bucket[c]
  BY <1>0 DEF HasPut
<1>2. /\ t.n \in Nat /\ t.n \in Sizes /\ t.elements \in Nat /\ t.deleted \in Nat
      /\ t.useDeleted \in BOOLEAN /\ t.considerShrink \in BOOLEAN
      /\ \A c \in 0..t.n - 1 : t.bucket[c].key \in Key \cup {EmptyKey, DeletedKey}
  BY TableIs
<1>3. EmptyKey \notin Key /\ DeletedKey \notin Key /\ EmptyKey # DeletedKey
  BY HashtableAssumption
<1>4. UsedBuckets(u) = UsedBuckets(t) \cup {b}
  BY <1>1, <1>3 DEF UsedBuckets, TestEmpty
<1>5. Tombs(u) = Tombs(t) \ {b}
  BY <1>1, <1>3, <1>4 DEF Tombs, UsedBuckets, TestEmpty
<1>6. UsedBuckets(t) \in SUBSET (0..t.n - 1) /\ Tombs(t) \in SUBSET (0..t.n - 1)
  BY DEF UsedBuckets, Tombs
<1>7. IsFiniteSet(UsedBuckets(t)) /\ IsFiniteSet(Tombs(t))
  BY <1>2, <1>6, SubsetFinite
<1>8. /\ u.elements = Cardinality(UsedBuckets(u)) /\ u.elements \in Nat
      /\ u.deleted = Cardinality(Tombs(u)) /\ u.deleted \in Nat
      /\ 2 * u.elements <= u.n /\ u.deleted <= t.deleted
  <2>1. t.elements = Cardinality(UsedBuckets(t)) /\ t.deleted = Cardinality(Tombs(t))
        /\ 2 * t.elements <= t.n
    BY DEF TableInv
  <2>2. /\ Cardinality(UsedBuckets(u)) = IF b \in UsedBuckets(t) THEN t.elements ELSE t.elements + 1
        /\ Cardinality(Tombs(u)) = IF b \in Tombs(t) THEN t.deleted - 1 ELSE t.deleted
    <3>1. PICK U, V : U = UsedBuckets(t) /\ V = Tombs(t)
      OBVIOUS
    <3>2. /\ Cardinality(U \cup {b}) = IF b \in U THEN Cardinality(U) ELSE Cardinality(U) + 1
          /\ Cardinality(V \ {b}) = IF b \in V THEN Cardinality(V) - 1 ELSE Cardinality(V)
      BY <1>7, <3>1, FS_AddElement, FS_RemoveElement
    <3> QED BY <1>4, <1>5, <2>1, <3>1, <3>2
  <2>3. b \in UsedBuckets(t) <=> t.bucket[b].key # EmptyKey
    BY DEF UsedBuckets, TestEmpty
  <2>4. b \in Tombs(t) <=> t.bucket[b].key = DeletedKey
    BY <1>3, <2>3 DEF Tombs
  <2>5. CASE /\ t.bucket[b].key = EmptyKey /\ 2 * (t.elements + 1) <= t.n
             /\ u.elements = t.elements + 1 /\ u.deleted = t.deleted
    BY <1>1, <1>2, <1>3, <2>2, <2>3, <2>4, <2>5
  <2>6. CASE /\ t.bucket[b].key = DeletedKey
             /\ u.elements = t.elements /\ u.deleted = t.deleted - 1
    <3>1. Cardinality(Tombs(u)) \in Nat
      BY <1>2, <1>5, <1>6, SubsetFinite
    <3> QED BY <1>1, <1>2, <1>3, <2>1, <2>2, <2>3, <2>4, <2>6, <3>1
  <2> QED BY <1>0, <2>5, <2>6 DEF HasPut
<1>9. \A k \in Key : Held(u, k) = IF k = e.key THEN {b} ELSE Held(t, k)
  <2>1. t.bucket[b].key \notin Key
    BY <1>0, <1>3 DEF HasPut
  <2> QED BY <1>1, <1>2, <2>1 DEF Held
<1>10. \A c \in 0..t.n - 1 : t.bucket[c].key # EmptyKey => u.bucket[c].key # EmptyKey
  BY <1>1, <1>3
<1>11. ASSUME NEW k \in Key, NEW c \in Held(u, k)
       PROVE  OnPath(h, u, k, c)
  <2>1. OnPath(h, t, k, c)
    BY <1>9, <1>11 DEF TableInv
  <2> QED BY <1>1, <1>2, <1>10, <2>1, PathKept
<1>12. u \in Table(u.n)
  <2>1. u.elements \in 0..u.n /\ u.deleted \in 0..u.n
    <3>1. Tombs(u) \subseteq UsedBuckets(u) /\ IsFiniteSet(UsedBuckets(u))
      BY <1>4, <1>7, FS_AddElement DEF Tombs
    <3>2. u.deleted <= u.elements
      BY <1>8, <3>1, FS_Subset
    <3> QED BY <1>1, <1>2, <1>8, <3>2
  <2>2. DOMAIN u = DOMAIN t /\ u = [x \in DOMAIN t |-> u[x]]
    BY TableIs DEF PutIn
  <2>3. u = [n |-> u.n, bucket |-> u.bucket, elements |-> u.elements, deleted |-> u.deleted,
             considerShrink |-> u.considerShrink, useDeleted |-> u.useDeleted]
    <3>1. DOMAIN t = {"n", "bucket", "elements", "deleted", "considerShrink", "useDeleted"}
      BY TableIs
    <3> QED BY <2>2, <3>1
  <2> QED BY <1>1, <1>2, <2>1, <2>3 DEF Table
<1>13. TableInv(h, u)
  <2>1. u.deleted > 0 => u.useDeleted
    BY <1>1, <1>2, <1>8 DEF TableInv
  <2>2. \A k \in Key : \A c, d \in Held(u, k) : c = d
    BY <1>9 DEF TableInv
  <2> QED BY <1>1, <1>2, <1>8, <1>11, <1>12, <2>1, <2>2 DEF TableInv
<1>14. ASSUME NEW k \in Key
       PROVE  Contents(u)[k] = [Contents(t) EXCEPT ![e.key] = e.val][k]
  <2>1. DOMAIN Contents(t) = Key
    BY DEF Contents
  <2>2. CASE k = e.key
    <3>1. b \in Held(u, k)
      BY <1>9, <2>2
    <3>2. Contents(u)[k] = e.val
      BY <1>1, <1>13, <3>1, HoldingIs
    <3> QED BY <2>1, <2>2, <3>2
  <2>3. CASE k # e.key
    <3>1. Held(u, k) = Held(t, k) /\ b \notin Held(t, k)
      <4>1. t.bucket[b].key # k
        BY <1>0, <1>3 DEF HasPut
      <4> QED BY <1>9, <2>3, <4>1 DEF Held
    <3>2. Contents(u)[k] = Contents(t)[k]
      <4>1. CASE Held(t, k) = {}
        BY <1>13, <3>1, <4>1, HoldingIs
      <4>2. ASSUME NEW c \in Held(t, k)
            PROVE  Contents(u)[k] = Contents(t)[k]
        <5>1. c \in 0..t.n - 1 /\ c # b /\ c \in Held(u, k)
          BY <3>1 DEF Held
        <5> QED BY <1>1, <1>13, <5>1, HoldingIs
      <4> QED BY <4>1, <4>2
    <3> QED BY <2>1, <2>3, <3>2
  <2> QED BY <2>2, <2>3
<1>15. Contents(u) = [Contents(t) EXCEPT ![e.key] = e.val]
  <2>1. PICK f, g : f = Contents(u) /\ g = Contents(t)
    OBVIOUS
  <2>2. f = [k \in Key |-> f[k]] /\ g = [k \in Key |-> g[k]]
    BY <2>1 DEF Contents
  <2>3. \A k \in Key : f[k] = [g EXCEPT ![e.key] = e.val][k]
    BY <1>14, <2>1
  <2>4. f = [g EXCEPT ![e.key] = e.val]
    BY <2>2, <2>3
  <2> QED BY <2>1, <2>4
<1> QED BY <1>13, <1>15

-----------------------------------------------------------------------------
(* Erasing.                                                                *)

LiveBuckets(t) == {b \in 0..t.n - 1 : t.bucket[b].key \in Key}

LEMMA SizeIs ==
    ASSUME NEW h, NEW t, TableInv(h, t)
    PROVE  /\ Size(t) = Cardinality(LiveBuckets(t)) /\ Size(t) \in Nat /\ Size(t) <= t.elements
           /\ IsFiniteSet(LiveBuckets(t))
<1>1. t.n \in Nat /\ t.elements \in Nat /\ t.deleted \in Nat
      /\ \A c \in 0..t.n - 1 : t.bucket[c].key \in Key \cup {EmptyKey, DeletedKey}
  BY TableIs
<1>2. EmptyKey \notin Key /\ DeletedKey \notin Key /\ EmptyKey # DeletedKey
  BY HashtableAssumption
<1>3. /\ LiveBuckets(t) = UsedBuckets(t) \ Tombs(t) /\ UsedBuckets(t) \cap Tombs(t) = Tombs(t)
      /\ UsedBuckets(t) \in SUBSET (0..t.n - 1) /\ LiveBuckets(t) \in SUBSET (0..t.n - 1)
  BY <1>1, <1>2 DEF LiveBuckets, Tombs, UsedBuckets, TestEmpty
<1>4. IsFiniteSet(UsedBuckets(t)) /\ IsFiniteSet(LiveBuckets(t)) /\ Cardinality(LiveBuckets(t)) \in Nat
  BY <1>1, <1>3, SubsetFinite
<1>5. PICK U, V : U = UsedBuckets(t) /\ V = Tombs(t)
  OBVIOUS
<1>6. Cardinality(U \ V) = Cardinality(U) - Cardinality(U \cap V)
  BY <1>4, <1>5, FS_Difference
<1>7. Cardinality(LiveBuckets(t)) = t.elements - t.deleted
  BY <1>3, <1>5, <1>6 DEF TableInv
<1> QED BY <1>1, <1>4, <1>7 DEF Size

\* The entries in the buckets of G are gone, and no bucket becomes empty.
HasErased(h, t, G, u) ==
    /\ TableInv(h, u) /\ u.n = t.n /\ u.elements = t.elements /\ u.useDeleted = t.useDeleted
    /\ \A k \in Key : Held(u, k) = Held(t, k) \ G
    /\ \A k \in Key : Contents(u)[k] = IF Held(t, k) \subseteq G THEN Nil ELSE Contents(t)[k]
    /\ \A c \in 0..t.n - 1 : t.bucket[c].key # EmptyKey => u.bucket[c].key # EmptyKey

LEMMA NothingErased ==
    ASSUME NEW h, NEW t, TableInv(h, t), NEW G, \A k \in Key : Held(t, k) \cap G = {}
    PROVE  HasErased(h, t, G, t)
<1>1. ASSUME NEW k \in Key
      PROVE  /\ Held(t, k) = Held(t, k) \ G
             /\ Contents(t)[k] = IF Held(t, k) \subseteq G THEN Nil ELSE Contents(t)[k]
  <2>1. Held(t, k) \cap G = {}
    OBVIOUS
  <2>2. Held(t, k) \subseteq G => Held(t, k) = {}
    BY <2>1
  <2> QED BY <2>1, <2>2, HoldingIs
<1> QED BY <1>1 DEF HasErased

Killed(t, G, u) ==
    /\ u.n = t.n /\ u.useDeleted = t.useDeleted /\ u.considerShrink \in BOOLEAN
    /\ u.elements = t.elements /\ u.deleted = t.deleted + Cardinality(G)
    /\ u.bucket = [c \in 0..t.n - 1 |-> IF c \in G THEN DeletedVal ELSE t.bucket[c]]
    /\ DOMAIN u = DOMAIN t /\ u = [x \in DOMAIN t |-> u[x]]

LEMMA KilledIs ==
    ASSUME NEW h \in Hashes, NEW t, TableInv(h, t), t.useDeleted,
           NEW G \in SUBSET LiveBuckets(t), NEW u, Killed(t, G, u)
    PROVE  HasErased(h, t, G, u)
<1>1. /\ t.n \in Nat /\ t.n \in Sizes /\ t.elements \in Nat /\ t.deleted \in Nat
      /\ t.bucket \in [0..t.n - 1 -> Entry]
      /\ \A c \in 0..t.n - 1 : t.bucket[c].key \in Key \cup {EmptyKey, DeletedKey}
  BY TableIs
<1>2. EmptyKey \notin Key /\ DeletedKey \notin Key /\ EmptyKey # DeletedKey /\ DefaultVal \in Val
  BY HashtableAssumption
<1>3. DeletedVal \in Entry /\ DeletedVal.key = DeletedKey
  BY <1>2 DEF DeletedVal, Entry
<1>4. /\ u.bucket \in [0..t.n - 1 -> Entry] /\ u.n = t.n
      /\ \A c \in 0..t.n - 1 : u.bucket[c] = IF c \in G THEN DeletedVal ELSE t.bucket[c]
  BY <1>1, <1>3 DEF Killed
<1>5. G \in SUBSET (0..t.n - 1) /\ \A c \in G : t.bucket[c].key \in Key
  BY DEF LiveBuckets
<1>6. \A c \in 0..t.n - 1 : t.bucket[c].key # EmptyKey <=> u.bucket[c].key # EmptyKey
  BY <1>2, <1>3, <1>4, <1>5
<1>7. UsedBuckets(u) = UsedBuckets(t)
  BY <1>4, <1>6 DEF UsedBuckets, TestEmpty
<1>8. Tombs(u) = Tombs(t) \cup G /\ Tombs(t) \cap G = {}
  BY <1>2, <1>3, <1>4, <1>5, <1>7 DEF Tombs, UsedBuckets, TestEmpty
<1>9. Tombs(t) \in SUBSET (0..t.n - 1) /\ Tombs(u) \in SUBSET (0..t.n - 1)
      /\ UsedBuckets(u) \in SUBSET (0..t.n - 1) /\ Tombs(u) \subseteq UsedBuckets(u)
  BY <1>4 DEF UsedBuckets, Tombs
<1>10. /\ IsFiniteSet(Tombs(t)) /\ IsFiniteSet(G) /\ IsFiniteSet(UsedBuckets(u))
       /\ Cardinality(Tombs(u)) \in Nat
  BY <1>1, <1>5, <1>9, SubsetFinite
<1>11. Cardinality(Tombs(u)) = Cardinality(Tombs(t)) + Cardinality(G)
  <2>1. PICK V : V = Tombs(t)
    OBVIOUS
  <2>2. Cardinality(V \cup G) = Cardinality(V) + Cardinality(G) - Cardinality(V \cap G)
    BY <1>10, <2>1, FS_Union
  <2>3. Cardinality(V \cap G) = 0
    BY <1>8, <2>1, FS_EmptySet
  <2>4. Cardinality(V) \in Nat /\ Cardinality(G) \in Nat
    BY <1>1, <1>5, <1>9, <2>1, SubsetFinite
  <2> QED BY <1>8, <2>1, <2>2, <2>3, <2>4
<1>12. u.deleted = Cardinality(Tombs(u)) /\ u.deleted \in Nat
  BY <1>10, <1>11 DEF Killed, TableInv
<1>13. u.elements = Cardinality(UsedBuckets(u)) /\ 2 * u.elements <= u.n
       /\ u.elements \in Nat
  BY <1>1, <1>7 DEF Killed, TableInv
<1>14. u.deleted <= u.elements
  BY <1>9, <1>10, <1>12, <1>13, FS_Subset
<1>15. u \in Table(u.n)
  <2>1. u.elements \in 0..u.n /\ u.deleted \in 0..u.n
    BY <1>1, <1>4, <1>12, <1>13, <1>14
  <2>2. u.useDeleted \in BOOLEAN
    BY TableIs DEF Killed
  <2>3. DOMAIN u = {"n", "bucket", "elements", "deleted", "considerShrink", "useDeleted"}
    BY TableIs DEF Killed
  <2>4. u = [n |-> u.n, bucket |-> u.bucket, elements |-> u.elements, deleted |-> u.deleted,
             considerShrink |-> u.considerShrink, useDeleted |-> u.useDeleted]
    BY <2>3 DEF Killed
  <2>5. u.considerShrink \in BOOLEAN
    BY DEF Killed
  <2> QED BY <1>4, <2>1, <2>2, <2>4, <2>5 DEF Table
<1>16. \A k \in Key : Held(u, k) = Held(t, k) \ G
  BY <1>2, <1>3, <1>4, <1>5 DEF Held
<1>17. ASSUME NEW k \in Key, NEW c \in Held(u, k)
       PROVE  OnPath(h, u, k, c)
  <2>1. OnPath(h, t, k, c)
    BY <1>16, <1>17 DEF TableInv
  <2> QED BY <1>1, <1>4, <1>6, <2>1, PathKept
<1>18. TableInv(h, u)
  <2>1. u.useDeleted
    BY DEF Killed
  <2>2. \A k \in Key : \A c, d \in Held(u, k) : c = d
    BY <1>16 DEF TableInv
  <2> QED BY <1>1, <1>4, <1>12, <1>13, <1>15, <1>17, <2>1, <2>2 DEF TableInv
<1>19. ASSUME NEW k \in Key
       PROVE  Contents(u)[k] = IF Held(t, k) \subseteq G THEN Nil ELSE Contents(t)[k]
  <2>1. CASE Held(t, k) \subseteq G
    <3>1. Held(u, k) = {}
      BY <1>16, <2>1
    <3> QED BY <1>18, <2>1, <3>1, HoldingIs
  <2>2. ASSUME NEW c \in Held(t, k), c \notin G
        PROVE  Contents(u)[k] = Contents(t)[k]
    <3>1. c \in Held(u, k) /\ u.bucket[c] = t.bucket[c]
      BY <1>4, <1>16, <2>2 DEF Held
    <3> QED BY <1>18, <3>1, HoldingIs
  <2> QED BY <2>1, <2>2
<1> QED BY <1>6, <1>16, <1>18, <1>19 DEF HasErased, Killed

LEMMA SetDeletedIs ==
    ASSUME NEW h \in Hashes, NEW t, TableInv(h, t), t.useDeleted,
           NEW b \in 0..t.n - 1, t.bucket[b].key # EmptyKey
    PROVE  HasErased(h, t, {b}, SetDeleted(t, b))
<1>1. CASE TestDeleted(t, b)
  <2>1. t.bucket[b].key = DeletedKey /\ DeletedKey \notin Key
    BY <1>1, LiveIs, HashtableAssumption
  <2>2. \A k \in Key : Held(t, k) \cap {b} = {}
    BY <2>1 DEF Held
  <2> QED BY <1>1, <2>2, NothingErased DEF SetDeleted
<1>2. CASE ~TestDeleted(t, b)
  <2>1. t.bucket[b].key \in Key
    BY <1>2, LiveIs, TableIs
  <2>2. {b} \in SUBSET LiveBuckets(t)
    BY <2>1 DEF LiveBuckets
  <2> DEFINE u == [t EXCEPT !.bucket[b] = DeletedVal, !.deleted = @ + 1, !.considerShrink = TRUE]
  <2>3. /\ DOMAIN t = {"n", "bucket", "elements", "deleted", "considerShrink", "useDeleted"}
        /\ t.bucket \in [0..t.n - 1 -> Entry]
    BY TableIs
  <2>4. /\ u.n = t.n /\ u.useDeleted = t.useDeleted /\ u.considerShrink = TRUE
        /\ u.elements = t.elements /\ u.deleted = t.deleted + 1
        /\ u.bucket = [t.bucket EXCEPT ![b] = DeletedVal]
    BY <2>3
  <2>5. DOMAIN u = DOMAIN t /\ u = [x \in DOMAIN t |-> u[x]]
    BY <2>3
  <2>6. [t.bucket EXCEPT ![b] = DeletedVal]
        = [c \in 0..t.n - 1 |-> IF c \in {b} THEN DeletedVal ELSE t.bucket[c]]
    BY <2>3
  <2>7. Cardinality({b}) = 1
    BY FS_Singleton
  <2>8. SetDeleted(t, b) = u
    BY <1>2 DEF SetDeleted
  <2> HIDE DEF u
  <2>9. Killed(t, {b}, u)
    BY <2>4, <2>5, <2>6, <2>7 DEF Killed
  <2> QED BY <2>2, <2>8, <2>9, KilledIs
<1> QED BY <1>1, <1>2

LEMMA ErasedIs ==
    ASSUME hash \in Hashes, NEW t, TableInv(hash, t), t.useDeleted, NEW k \in Key
    PROVE  HasErased(hash, t, Held(t, k), Erased(t, k))
<1>1. CASE Held(t, k) = {}
  <2>1. Erased(t, k) = t
    BY <1>1, FoundAtIs DEF Erased
  <2> QED BY <1>1, <2>1, NothingErased
<1>2. CASE Held(t, k) # {}
  <2>1. Held(t, k) = {FoundAt(t, k)} /\ IsThere(t, k) /\ FoundAt(t, k) \in 0..t.n - 1
    BY <1>2, FoundAtIs
  <2>2. Size(t) # 0
    <3>1. FoundAt(t, k) \in LiveBuckets(t)
      BY <2>1 DEF Held, LiveBuckets
    <3> QED BY <3>1, SizeIs, FS_EmptySet
  <2>3. t.bucket[FoundAt(t, k)].key # EmptyKey
    BY <2>1, HashtableAssumption DEF Held
  <2>4. HasErased(hash, t, {FoundAt(t, k)}, SetDeleted(t, FoundAt(t, k)))
    BY <2>1, <2>3, SetDeletedIs
  <2>5. Erased(t, k) = SetDeleted(t, FoundAt(t, k))
    BY <2>1, <2>2 DEF Erased
  <2> QED BY <2>1, <2>4, <2>5
<1> QED BY <1>1, <1>2

LEMMA ErasedFromIs ==
    ASSUME hash \in Hashes, NEW t, TableInv(hash, t), t.useDeleted, NEW b \in 0..t.n
    PROVE  HasErased(hash, t, {c \in b..t.n - 1 : t.bucket[c].key \in Key}, ErasedFrom(t, b))
<1> DEFINE G == {c \in b..t.n - 1 : t.bucket[c].key \in Key}
           u == [t EXCEPT !.bucket = [c \in DOMAIN t.bucket |-> IF c \in G THEN DeletedVal ELSE t.bucket[c]],
                          !.deleted = @ + Cardinality(G), !.considerShrink = TRUE]
<1>1. /\ DOMAIN t = {"n", "bucket", "elements", "deleted", "considerShrink", "useDeleted"}
      /\ t.bucket \in [0..t.n - 1 -> Entry] /\ t.n \in Nat
  BY TableIs
<1>2. \A c \in b..t.n - 1 : c \in 0..t.n - 1
  BY <1>1
<1>3. G = {c \in b..t.n - 1 : Live(t, c)}
  BY <1>2, LiveIs
<1>4. ErasedFrom(t, b) = u
  BY <1>3 DEF ErasedFrom
<1>5. G \in SUBSET LiveBuckets(t)
  BY <1>2 DEF LiveBuckets
<1> HIDE DEF G
<1>6. /\ u.n = t.n /\ u.useDeleted = t.useDeleted /\ u.considerShrink = TRUE
      /\ u.elements = t.elements /\ u.deleted = t.deleted + Cardinality(G)
      /\ u.bucket = [c \in DOMAIN t.bucket |-> IF c \in G THEN DeletedVal ELSE t.bucket[c]]
  BY <1>1
<1>7. DOMAIN u = DOMAIN t /\ u = [x \in DOMAIN t |-> u[x]]
  BY <1>1
<1>8. DOMAIN t.bucket = 0..t.n - 1
  BY <1>1
<1> HIDE DEF u
<1>9. Killed(t, G, u)
  BY <1>6, <1>7, <1>8 DEF Killed
<1>10. HasErased(hash, t, G, u)
  BY <1>5, <1>9, KilledIs
<1> QED BY <1>4, <1>10 DEF G

-----------------------------------------------------------------------------
(* Inserting.                                                              *)

LEMMA KeepsAll ==
    ASSUME NEW h, NEW g, NEW t, NEW u, TableInv(h, t), TableInv(g, u),
           \A k \in Key : Contents(u)[k] = Contents(t)[k]
    PROVE  Contents(u) = Contents(t)
<1>1. PICK f, e : f = Contents(u) /\ e = Contents(t)
  OBVIOUS
<1>2. f \in [Key -> Val \cup {Nil}] /\ e \in [Key -> Val \cup {Nil}]
  BY <1>1, ContentsIs
<1>3. \A k \in Key : f[k] = e[k]
  BY <1>1
<1>4. f = e
  BY <1>2, <1>3
<1> QED BY <1>1, <1>4

\* Only the flags differ.
LEMMA FlagsIs ==
    ASSUME NEW h, NEW t, TableInv(h, t), NEW u, u \in Table(u.n), u.n = t.n, u.bucket = t.bucket,
           u.elements = t.elements, u.deleted = t.deleted, u.deleted > 0 => u.useDeleted
    PROVE  TableInv(h, u) /\ Contents(u) = Contents(t)
<1>1. UsedBuckets(u) = UsedBuckets(t) /\ Tombs(u) = Tombs(t)
  BY DEF UsedBuckets, Tombs, TestEmpty
<1>2. \A k \in Key : Held(u, k) = Held(t, k)
  BY DEF Held
<1>3. \A k \in Key : \A b \in Held(t, k) : OnPath(h, u, k, b)
  BY DEF TableInv, OnPath
<1>4. TableInv(h, u)
  BY <1>1, <1>2, <1>3 DEF TableInv
<1>5. ASSUME NEW k \in Key
      PROVE  Contents(u)[k] = Contents(t)[k]
  <2>1. CASE Held(t, k) = {}
    BY <1>2, <1>4, <2>1, HoldingIs
  <2>2. ASSUME NEW b \in Held(t, k)
        PROVE  Contents(u)[k] = Contents(t)[k]
    BY <1>2, <1>4, HoldingIs
  <2> QED BY <2>1, <2>2
<1> QED BY <1>4, <1>5, KeepsAll

LEMMA EmptyTableIs ==
    ASSUME NEW h, NEW n \in Sizes, NEW d \in BOOLEAN, NEW u,
           u = [n |-> n, bucket |-> [b \in 0..n - 1 |-> EmptyVal], elements |-> 0, deleted |-> 0,
                considerShrink |-> FALSE, useDeleted |-> d]
    PROVE  /\ TableInv(h, u)
           /\ \A k \in Key : Contents(u)[k] = Nil
<1>1. n \in Nat /\ n >= 4
  BY SizesAre
<1>2. EmptyVal \in Entry /\ EmptyVal.key = EmptyKey /\ EmptyKey \notin Key
  BY HashtableAssumption DEF EmptyVal, Entry
<1>3. \A b \in 0..n - 1 : u.bucket[b] = EmptyVal
  OBVIOUS
<1>4. u \in Table(n) /\ u.n = n
  BY <1>1, <1>2 DEF Table
<1>5. UsedBuckets(u) = {} /\ Tombs(u) = {}
  BY <1>2, <1>3 DEF UsedBuckets, Tombs, TestEmpty
<1>6. \A k \in Key : Held(u, k) = {}
  BY <1>2, <1>3 DEF Held
<1>7. TableInv(h, u)
  <2>1. u.elements = 0 /\ u.deleted = 0 /\ 2 * u.elements <= u.n
    BY <1>1, <1>4
  <2>2. Cardinality(UsedBuckets(u)) = 0 /\ Cardinality(Tombs(u)) = 0
    BY <1>5, FS_EmptySet
  <2>3. ~(u.deleted > 0)
    BY <2>1
  <2> QED BY <1>4, <1>6, <2>1, <2>2, <2>3 DEF TableInv
<1> QED BY <1>6, <1>7, HoldingIs

LEMMA ClearedIs ==
    ASSUME NEW h, NEW t, TableInv(h, t), NEW n \in Sizes
    PROVE  /\ TableInv(h, Cleared(t, n)) /\ Cleared(t, n).n = n
           /\ Cleared(t, n).elements = 0 /\ Cleared(t, n).deleted = 0
           /\ Cleared(t, n).useDeleted = t.useDeleted
           /\ \A k \in Key : Contents(Cleared(t, n))[k] = Nil
<1>1. /\ DOMAIN t = {"n", "bucket", "elements", "deleted", "considerShrink", "useDeleted"}
      /\ t.useDeleted \in BOOLEAN
  BY TableIs
<1>2. PICK f : f = [b \in 0..n - 1 |-> EmptyVal]
  OBVIOUS
<1>3. PICK u : u = [t EXCEPT !.n = n, !.bucket = f,
                             !.elements = 0, !.deleted = 0, !.considerShrink = FALSE]
  OBVIOUS
<1>4. u = Cleared(t, n)
  BY <1>2, <1>3 DEF Cleared
<1>5. /\ u.n = n /\ u.bucket = f /\ u.elements = 0 /\ u.deleted = 0
      /\ u.considerShrink = FALSE /\ u.useDeleted = t.useDeleted
  BY <1>1, <1>3
<1>6. DOMAIN u = DOMAIN t /\ u = [x \in DOMAIN t |-> u[x]]
  BY <1>3
<1>7. u = [n |-> u.n, bucket |-> u.bucket, elements |-> u.elements, deleted |-> u.deleted,
           considerShrink |-> u.considerShrink, useDeleted |-> u.useDeleted]
  BY <1>1, <1>6
<1>8. u = [n |-> n, bucket |-> [b \in 0..n - 1 |-> EmptyVal], elements |-> 0, deleted |-> 0,
           considerShrink |-> FALSE, useDeleted |-> t.useDeleted]
  BY <1>2, <1>5, <1>7
<1>9. TableInv(h, u) /\ \A k \in Key : Contents(u)[k] = Nil
  BY <1>1, <1>8, EmptyTableIs
<1> QED BY <1>4, <1>5, <1>9

\* The entry is there unless its key has one already.
HasInserted(t, e, u) ==
    /\ TableInv(hash, u) /\ u.n = t.n /\ u.useDeleted = t.useDeleted
    /\ u.elements \in {t.elements, t.elements + 1}
    /\ Contents(u) = IF Contents(t)[e.key] = Nil THEN [Contents(t) EXCEPT ![e.key] = e.val]
                     ELSE Contents(t)

LEMMA InsertNoResizeIs ==
    ASSUME hash \in Hashes, NEW t, TableInv(hash, t), 2 * (t.elements + 1) <= t.n,
           NEW e \in Entry, e.key \in Key
    PROVE  HasInserted(t, e, InsertNoResize(t, e))
<1>1. PICK b : b = InsertPos(t, e.key)
  OBVIOUS
<1>2. CASE Held(t, e.key) # {}
  <2>1. InsertNoResize(t, e) = t
    BY <1>2, FoundAtIs DEF InsertNoResize
  <2>2. Contents(t)[e.key] # Nil
    BY <1>2, ContentsIs
  <2> QED BY <2>1, <2>2 DEF HasInserted
<1>3. CASE Held(t, e.key) = {}
  <2>1. /\ b \in 0..t.n - 1 /\ t.bucket[b].key \in {EmptyKey, DeletedKey}
        /\ OnPath(hash, t, e.key, b)
    BY <1>1, <1>3, InsertPosIs
  <2>2. ~IsThere(t, e.key)
    BY <1>3, FoundAtIs
  <2>3. PICK u : u = InsertNoResize(t, e)
    OBVIOUS
  <2>4. TestDeleted(t, b) <=> t.bucket[b].key = DeletedKey
    BY <2>1, LiveIs
  <2>5. u = IF t.bucket[b].key = DeletedKey
            THEN [t EXCEPT !.bucket[b] = e, !.deleted = @ - 1]
            ELSE [t EXCEPT !.bucket[b] = e, !.elements = @ + 1]
    BY <1>1, <2>2, <2>3, <2>4 DEF InsertNoResize
  <2>6. PutIn(t, e, b, u)
    BY <2>1, <2>5 DEF PutIn
  <2>7. TableInv(hash, u) /\ Contents(u) = [Contents(t) EXCEPT ![e.key] = e.val]
    BY <1>3, <2>1, <2>6, PutIs
  <2>8. HasPut(t, e, b, u)
    BY <2>1, <2>6, PutFields
  <2>9. Contents(t)[e.key] = Nil
    BY <1>3, HoldingIs
  <2> QED BY <2>3, <2>7, <2>8, <2>9 DEF HasInserted, HasPut
<1> QED BY <1>2, <1>3

LEMMA PutFirstEmptyIs ==
    ASSUME hash \in Hashes, NEW t, TableInv(hash, t), 2 * (t.elements + 1) <= t.n,
           NEW e \in Entry, e.key \in Key, Contents(t)[e.key] = Nil,
           NEW u, u = PutFirstEmpty(t, e)
    PROVE  /\ TableInv(hash, u) /\ u.n = t.n /\ u.useDeleted = t.useDeleted
           /\ u.elements = t.elements + 1 /\ u.deleted = t.deleted
           /\ Contents(u) = [Contents(t) EXCEPT ![e.key] = e.val]
<1>1. PICK b : b = FirstProbe(t, e.key, Free(t))
  OBVIOUS
<1>2. t.n \in Sizes /\ Free(t) \in SUBSET (0..t.n - 1) /\ Free(t) # {}
  BY FreeIs, TableIs
<1>3. b \in Free(t)
  BY <1>1, <1>2, FirstProbeIs
<1>4. PICK i \in 0..t.n - 1 :
        /\ ProbeAt(hash, t.n, e.key, i) = b
        /\ \A j \in 0..i - 1 : ProbeAt(hash, t.n, e.key, j) \notin Free(t)
  BY <1>1, <1>2, FirstProbeIs
<1>5. b \in 0..t.n - 1 /\ t.bucket[b].key = EmptyKey
  BY <1>2, <1>3, FreeIs
<1>6. \A j \in 0..i - 1 : ProbeAt(hash, t.n, e.key, j) \in 0..t.n - 1
  <2>1. \A j \in 0..i - 1 : j \in Nat
    BY <1>2, SizesAre
  <2> QED BY <1>2, <2>1, ProbeIn
<1>7. OnPath(hash, t, e.key, b)
  BY <1>4, <1>6, FreeIs DEF OnPath
<1>8. u = [t EXCEPT !.bucket[b] = e, !.elements = @ + 1]
  BY <1>1 DEF PutFirstEmpty
<1>9. PutIn(t, e, b, u)
  BY <1>5, <1>8 DEF PutIn
<1>10. Held(t, e.key) = {}
  BY ContentsIs
<1>11. TableInv(hash, u) /\ Contents(u) = [Contents(t) EXCEPT ![e.key] = e.val]
  BY <1>5, <1>7, <1>9, <1>10, PutIs
<1>12. HasPut(t, e, b, u)
  BY <1>5, <1>9, PutFields
<1>13. EmptyKey # DeletedKey
  BY HashtableAssumption
<1> QED BY <1>5, <1>11, <1>12, <1>13 DEF HasPut

-----------------------------------------------------------------------------
(* Copying.                                                                *)

\* What the tables of a copy in progress are, whatever they hold.
CopyType(n) ==
    [n : {n}, bucket : [0..n - 1 -> Entry], elements : Int, deleted : Int,
     considerShrink : BOOLEAN, useDeleted : BOOLEAN]

LEMMA ExceptType ==
    ASSUME NEW D, NEW S, NEW f \in [D -> S], NEW p, NEW e \in S
    PROVE  [f EXCEPT ![p] = e] \in [D -> S]
OBVIOUS

LEMMA PutFirstEmptyType ==
    ASSUME NEW n, NEW u \in CopyType(n), NEW e \in Entry
    PROVE  PutFirstEmpty(u, e) \in CopyType(n)
<1>1. PICK p : p = FirstProbe(u, e.key, Free(u))
  OBVIOUS
<1>2. u.bucket \in [0..n - 1 -> Entry] /\ u.elements \in Int
  BY DEF CopyType
<1>3. PICK f : f = [u.bucket EXCEPT ![p] = e]
  OBVIOUS
<1>4. f \in [0..n - 1 -> Entry] /\ u.elements + 1 \in Int
  <2>1. PICK D : D = 0..n - 1
    OBVIOUS
  <2>2. u.bucket \in [D -> Entry]
    BY <1>2, <2>1
  <2>3. f \in [D -> Entry]
    BY <1>3, <2>2, ExceptType
  <2> QED BY <1>2, <2>1, <2>3
<1>5. PutFirstEmpty(u, e) = [u EXCEPT !.bucket = f, !.elements = u.elements + 1]
  BY <1>1, <1>3 DEF PutFirstEmpty
<1>6. PICK m \in Int : m = u.elements + 1
  BY <1>4
<1>7. [u EXCEPT !.bucket = f, !.elements = m] \in CopyType(n)
  BY <1>4, <1>6 DEF CopyType
<1> QED BY <1>5, <1>6, <1>7

CopyStep(t, b, u) == IF Live(t, b - 1) THEN PutFirstEmpty(u, t.bucket[b - 1]) ELSE u

LEMMA CopyStepsAre ==
    ASSUME NEW h, NEW t, TableInv(h, t), NEW wanted, MinSize(Size(t), wanted) \in Sizes
    PROVE  \E f : /\ f[0] = Cleared(t, MinSize(Size(t), wanted))
                  /\ \A b \in 1..t.n : f[b] = CopyStep(t, b, f[b - 1])
                  /\ CopyOf(t, wanted) = f[t.n]
<1> DEFINE G(f) == [b \in 0..t.n |->
                       IF b = 0 THEN Cleared(t, MinSize(Size(t), wanted))
                       ELSE IF Live(t, b - 1) THEN PutFirstEmpty(f[b - 1], t.bucket[b - 1])
                       ELSE f[b - 1]]
           c == CHOOSE f : f = G(f)
<1>1. PICK n \in Sizes : n = MinSize(Size(t), wanted)
  OBVIOUS
<1>2. t.n \in Nat /\ t.bucket \in [0..t.n - 1 -> Entry]
  BY TableIs
<1>3. PICK S : S = CopyType(n)
  OBVIOUS
<1>4. Cleared(t, n) \in S
  <2>1. TableInv(h, Cleared(t, n)) /\ Cleared(t, n).n = n
    BY ClearedIs
  <2>2. Cleared(t, n) \in Table(n)
    BY <2>1 DEF TableInv
  <2>3. \A u \in Table(n) : u \in CopyType(n)
    BY DEF Table, CopyType
  <2> QED BY <1>3, <2>2, <2>3
<1> DEFINE F == [b \in 1..t.n |-> [u \in S |-> CopyStep(t, b, u)]]
<1>5. F \in [1..t.n -> [S -> S]]
  <2>1. ASSUME NEW b \in 1..t.n, NEW u \in S
        PROVE  CopyStep(t, b, u) \in S
    <3>1. t.bucket[b - 1] \in Entry
      <4>1. b - 1 \in 0..t.n - 1
        BY <1>2
      <4> QED BY <1>2, <4>1
    <3> QED BY <1>3, <3>1, PutFirstEmptyType DEF CopyStep
  <2> QED BY <2>1
<1>6. PICK d : d = Cleared(t, n)
  OBVIOUS
<1>7. PICK f : Stepwise(f, S, t.n, d, F)
  <2> HIDE DEF F
  <2> QED BY <1>2, <1>4, <1>5, <1>6, StepsExist
<1>8. /\ f \in [0..t.n -> S] /\ f[0] = d
      /\ \A b \in 1..t.n : f[b] = F[b][f[b - 1]]
  BY <1>7 DEF Stepwise
<1>9. ASSUME NEW b \in 1..t.n
      PROVE  f[b] = CopyStep(t, b, f[b - 1])
  <2>1. b - 1 \in 0..t.n
    BY <1>2
  <2>2. f[b - 1] \in S
    BY <1>8, <2>1
  <2> QED BY <1>8, <2>2
<1> HIDE DEF F
<1>10. f = G(f)
  <2>1. \A b \in 0..t.n : b = 0 \/ b \in 1..t.n
    BY <1>2
  <2>2. \A b \in 0..t.n : f[b] = G(f)[b]
    BY <1>1, <1>6, <1>8, <1>9, <2>1 DEF CopyStep
  <2>3. f = [b \in 0..t.n |-> f[b]] /\ G(f) = [b \in 0..t.n |-> G(f)[b]]
    BY <1>8
  <2> HIDE DEF G
  <2>4. [b \in 0..t.n |-> f[b]] = [b \in 0..t.n |-> G(f)[b]]
    BY <2>2
  <2> QED BY <2>3, <2>4
<1>11. c = G(c)
  <2> HIDE DEF G
  <2> QED BY <1>10
<1>12. CopyOf(t, wanted) = c[t.n]
  BY DEF CopyOf
<1> HIDE DEF c
<1>13. c[0] = Cleared(t, MinSize(Size(t), wanted))
  <2>1. 0 \in 0..t.n
    BY <1>2
  <2>2. G(c)[0] = Cleared(t, MinSize(Size(t), wanted))
    BY <2>1
  <2> HIDE DEF G
  <2> QED BY <1>11, <2>2
<1>14. ASSUME NEW b \in 1..t.n
       PROVE  c[b] = CopyStep(t, b, c[b - 1])
  <2>1. b \in 0..t.n /\ b # 0
    BY <1>2
  <2>2. G(c)[b] = CopyStep(t, b, c[b - 1])
    BY <2>1 DEF CopyStep
  <2> HIDE DEF G
  <2> QED BY <1>11, <2>2
<1> QED BY <1>12, <1>13, <1>14

\* The same entries, wherever they are now.
HasMoved(t, u) ==
    /\ TableInv(hash, u) /\ Contents(u) = Contents(t)
    /\ u.useDeleted = t.useDeleted /\ u.elements <= t.elements

\* The copy c has the entries of the first b buckets of t.
CopiedUpTo(t, n, b, c) ==
    /\ TableInv(hash, c) /\ c.n = n /\ c.deleted = 0 /\ c.useDeleted = t.useDeleted
    /\ c.elements = Cardinality({x \in 0..b - 1 : t.bucket[x].key \in Key})
    /\ \A k \in Key : Contents(c)[k] = IF Held(t, k) \subseteq 0..b - 1 THEN Contents(t)[k] ELSE Nil

LEMMA CopyStepIs ==
    ASSUME hash \in Hashes, NEW t, TableInv(hash, t), NEW n \in Sizes, 2 * Size(t) < n,
           NEW b \in 1..t.n, NEW c, CopiedUpTo(t, n, b - 1, c), NEW u, u = CopyStep(t, b, c)
    PROVE  CopiedUpTo(t, n, b, u)
<1> DEFINE L(m) == {x \in 0..m - 1 : t.bucket[x].key \in Key}
           a == b - 1
<1>1. /\ t.n \in Nat /\ a \in 0..t.n - 1 /\ a \in Nat /\ a + 1 = b
      /\ \A x \in 0..t.n - 1 : /\ t.bucket[x] \in Entry
                               /\ t.bucket[x].key \in Key \cup {EmptyKey, DeletedKey}
  BY TableIs
<1>2. /\ TableInv(hash, c) /\ c.n = n /\ c.deleted = 0 /\ c.useDeleted = t.useDeleted
      /\ c.elements = Cardinality(L(a))
      /\ \A k \in Key : Contents(c)[k] = IF Held(t, k) \subseteq 0..a - 1 THEN Contents(t)[k] ELSE Nil
  BY DEF CopiedUpTo
<1>3. 0..b - 1 = (0..a - 1) \cup {a} /\ a \notin 0..a - 1
  BY <1>1
<1>4. Live(t, a) <=> t.bucket[a].key \in Key
  BY <1>1, LiveIs
<1>5. CASE t.bucket[a].key \notin Key
  <2>1. u = c
    BY <1>4, <1>5 DEF CopyStep
  <2>2. L(b) = L(a)
    BY <1>3, <1>5
  <2>3. \A k \in Key : Held(t, k) \subseteq 0..b - 1 <=> Held(t, k) \subseteq 0..a - 1
    BY <1>3, <1>5 DEF Held
  <2> QED BY <1>2, <2>1, <2>2, <2>3 DEF CopiedUpTo
<1>6. CASE t.bucket[a].key \in Key
  <2>1. PICK e \in Entry : e = t.bucket[a] /\ e.key \in Key
    BY <1>1, <1>6
  <2>2. u = PutFirstEmpty(c, e)
    BY <1>4, <1>6, <2>1 DEF CopyStep
  <2>3. L(b) = L(a) \cup {a} /\ a \notin L(a)
    BY <1>3, <1>6
  <2>4. L(b) \in SUBSET LiveBuckets(t) /\ L(a) \in SUBSET LiveBuckets(t)
    <3>1. \A x \in 0..b - 1 : x \in 0..t.n - 1
      BY <1>1
    <3>2. \A x \in L(b) : x \in LiveBuckets(t)
      BY <3>1 DEF LiveBuckets
    <3>3. L(b) \in SUBSET LiveBuckets(t)
      BY <3>2
    <3> HIDE DEF L
    <3> QED BY <2>3, <3>3
  <2>5. /\ IsFiniteSet(L(a)) /\ Cardinality(L(b)) = Cardinality(L(a)) + 1
        /\ Cardinality(L(b)) <= Size(t) /\ Cardinality(L(b)) \in Nat /\ Cardinality(L(a)) \in Nat
    <3> HIDE DEF L
    <3>1. IsFiniteSet(L(a)) /\ IsFiniteSet(L(b)) /\ Cardinality(L(b)) <= Size(t)
      BY <2>4, SizeIs, FS_Subset
    <3>2. Cardinality(L(b)) \in Nat /\ Cardinality(L(a)) \in Nat
      BY <3>1, FS_CardinalityType
    <3>3. Cardinality(L(b)) = Cardinality(L(a)) + 1
      BY <2>3, <3>1, FS_AddElement
    <3> QED BY <3>1, <3>2, <3>3
  <2>6. 2 * (c.elements + 1) <= c.n
    <3>1. Size(t) \in Nat /\ n \in Nat
      BY SizeIs, SizesAre
    <3> HIDE DEF L
    <3> QED BY <1>2, <2>5, <3>1
  <2>7. a \in Held(t, e.key) /\ Held(t, e.key) = {a}
    <3>1. a \in Held(t, e.key)
      BY <1>1, <2>1 DEF Held
    <3> QED BY <2>1, <3>1, HoldingIs
  <2>8. Contents(c)[e.key] = Nil
    BY <1>2, <1>3, <2>1, <2>7
  <2>9. /\ TableInv(hash, u) /\ u.n = n /\ u.useDeleted = t.useDeleted
        /\ u.elements = Cardinality(L(b)) /\ u.deleted = 0
        /\ Contents(u) = [Contents(c) EXCEPT ![e.key] = e.val]
    <3>1. /\ TableInv(hash, u) /\ u.n = c.n /\ u.useDeleted = c.useDeleted
          /\ u.elements = c.elements + 1 /\ u.deleted = c.deleted
          /\ Contents(u) = [Contents(c) EXCEPT ![e.key] = e.val]
      BY <1>2, <2>1, <2>2, <2>6, <2>8, PutFirstEmptyIs
    <3> HIDE DEF L
    <3> QED BY <1>2, <2>5, <3>1
  <2>10. ASSUME NEW k \in Key
         PROVE  Contents(u)[k] = IF Held(t, k) \subseteq 0..b - 1 THEN Contents(t)[k] ELSE Nil
    <3>1. DOMAIN Contents(c) = Key
      BY DEF Contents
    <3>2. CASE k = e.key
      <4>1. Contents(u)[k] = e.val
        BY <2>9, <3>1, <3>2
      <4>2. Contents(t)[k] = e.val
        BY <2>1, <2>7, <3>2, HoldingIs
      <4> QED BY <1>3, <2>7, <3>2, <4>1, <4>2
    <3>3. CASE k # e.key
      <4>1. Contents(u)[k] = Contents(c)[k]
        BY <2>9, <3>1, <3>3
      <4>2. a \notin Held(t, k)
        BY <2>1, <3>3 DEF Held
      <4>3. Held(t, k) \subseteq 0..b - 1 <=> Held(t, k) \subseteq 0..a - 1
        BY <1>3, <4>2
      <4> QED BY <1>2, <4>1, <4>3
    <3> QED BY <3>2, <3>3
  <2> QED BY <2>9, <2>10 DEF CopiedUpTo
<1> QED BY <1>5, <1>6

LEMMA CopyOfIs ==
    ASSUME hash \in Hashes, NEW t, TableInv(hash, t), 2 * Size(t) < Largest,
           NEW wanted \in Sizes
    PROVE  /\ HasMoved(t, CopyOf(t, wanted))
           /\ CopyOf(t, wanted).n = MinSize(Size(t), wanted)
           /\ CopyOf(t, wanted).deleted = 0 /\ CopyOf(t, wanted).elements = Size(t)
<1>1. PICK n \in Sizes : n = MinSize(Size(t), wanted) /\ 2 * Size(t) < n
  <2>1. Size(t) \in Nat /\ wanted \in Nat /\ wanted <= Largest
    BY SizeIs, SizesAre
  <2> QED BY <2>1, MinSizeFits
<1>2. PICK f : /\ f[0] = Cleared(t, n)
               /\ \A b \in 1..t.n : f[b] = CopyStep(t, b, f[b - 1])
               /\ CopyOf(t, wanted) = f[t.n]
  BY <1>1, CopyStepsAre
<1>3. t.n \in Nat
  BY TableIs
<1> DEFINE T == {b \in 0..t.n : CopiedUpTo(t, n, b, f[b])}
<1>4. 0 \in T
  <2>1. /\ TableInv(hash, f[0]) /\ f[0].n = n /\ f[0].deleted = 0 /\ f[0].elements = 0
        /\ f[0].useDeleted = t.useDeleted /\ \A k \in Key : Contents(f[0])[k] = Nil
    BY <1>2, ClearedIs
  <2>2. 0..0 - 1 = {} /\ 0 \in 0..t.n
    BY <1>3
  <2>3. {x \in 0..0 - 1 : t.bucket[x].key \in Key} = {}
    BY <2>2
  <2>4. \A k \in Key : Held(t, k) \subseteq 0..0 - 1 => Contents(t)[k] = Nil
    BY <2>2, HoldingIs
  <2>5. CopiedUpTo(t, n, 0, f[0])
    BY <2>1, <2>3, <2>4, FS_EmptySet DEF CopiedUpTo
  <2> QED BY <2>2, <2>5
<1>5. \A b \in T : b < t.n => b + 1 \in T
  <2> TAKE b \in T
  <2> HAVE b < t.n
  <2>1. b + 1 \in 1..t.n /\ b + 1 \in 0..t.n /\ b + 1 - 1 = b
    BY <1>3
  <2>2. PICK d \in 1..t.n : d = b + 1 /\ d - 1 = b
    BY <2>1
  <2>3. f[d] = CopyStep(t, d, f[b]) /\ CopiedUpTo(t, n, d - 1, f[b])
    BY <1>2, <2>2
  <2>4. CopiedUpTo(t, n, d, f[d])
    BY <1>1, <2>3, CopyStepIs
  <2> QED BY <2>1, <2>2, <2>4
<1>6. T = 0..t.n
  BY <1>3, <1>4, <1>5, InductUpTo
<1>7. CopiedUpTo(t, n, t.n, f[t.n])
  <2>1. t.n \in 0..t.n
    BY <1>3
  <2> QED BY <1>6, <2>1
<1>8. PICK u : u = CopyOf(t, wanted) /\ CopiedUpTo(t, n, t.n, u)
  BY <1>2, <1>7
<1>9. {x \in 0..t.n - 1 : t.bucket[x].key \in Key} = LiveBuckets(t)
  BY DEF LiveBuckets
<1>10. u.elements = Size(t) /\ u.elements <= t.elements
  <2>1. u.elements = Cardinality({x \in 0..t.n - 1 : t.bucket[x].key \in Key})
    BY <1>8 DEF CopiedUpTo
  <2>2. u.elements = Cardinality(LiveBuckets(t))
    BY <1>9, <2>1
  <2> QED BY <2>2, SizeIs
<1>11. \A k \in Key : Held(t, k) \subseteq 0..t.n - 1
  BY DEF Held
<1>12. Contents(u) = Contents(t)
  BY <1>8, <1>11, KeepsAll DEF CopiedUpTo
<1> QED BY <1>1, <1>8, <1>10, <1>12 DEF CopiedUpTo, HasMoved

-----------------------------------------------------------------------------
(* Growing and shrinking.                                                  *)

LEMMA MovedTwice ==
    ASSUME NEW t, NEW s, NEW u, t.elements \in Nat, s.elements \in Nat,
           HasMoved(t, s), HasMoved(s, u)
    PROVE  HasMoved(t, u)
<1>1. u.elements \in Nat
  BY TableIs DEF HasMoved
<1> QED BY <1>1 DEF HasMoved

LEMMA SizeSmall ==
    ASSUME NEW h, NEW t, TableInv(h, t), 2 * t.elements < Largest
    PROVE  2 * Size(t) < Largest
<1>1. Size(t) \in Nat /\ t.elements \in Nat /\ Size(t) <= t.elements /\ Largest \in Nat
  BY SizeIs, TableIs, SizesAre
<1> QED BY <1>1

LEMMA SquashDeletedIs ==
    ASSUME hash \in Hashes, NEW t, TableInv(hash, t), 2 * t.elements < Largest
    PROVE  HasMoved(t, SquashDeleted(t)) /\ SquashDeleted(t).deleted = 0
<1>1. CASE t.deleted > 0
  BY <1>1, SizeSmall, SizesAre, CopyOfIs DEF SquashDeleted
<1>2. CASE ~(t.deleted > 0)
  <2>1. SquashDeleted(t) = t /\ t.deleted = 0 /\ t.elements <= t.elements
    BY <1>2, TableIs DEF SquashDeleted
  <2> QED BY <2>1 DEF HasMoved
<1> QED BY <1>1, <1>2

LEMMA ShrunkSizeIs ==
    ASSUME NEW h, NEW t, TableInv(h, t), t.n > DefaultStartingBuckets
    PROVE  ShrunkSize(t) \in Sizes
<1> DEFINE T == {sz \in Sizes : sz <= t.n \div 2 /\ (sz <= DefaultStartingBuckets \/ 5 * Size(t) >= sz)}
<1>1. t.n \in Nat /\ t.n \in Sizes /\ t.n \div 2 \in Nat /\ DefaultStartingBuckets \in Nat
  BY TableIs, SizesAre
<1>2. DefaultStartingBuckets <= t.n \div 2
  BY <1>1, Halved
<1>3. DefaultStartingBuckets \in T /\ T \in SUBSET Nat /\ \A sz \in T : sz <= t.n \div 2
  <2>1. DefaultStartingBuckets <= DefaultStartingBuckets
    BY <1>1
  <2>2. DefaultStartingBuckets \in T
    BY <1>2, <2>1, SizesAre
  <2>3. T \in SUBSET Nat
    BY SizesAre
  <2> QED BY <2>2, <2>3
<1>4. ShrunkSize(t) = Max(T)
  BY DEF ShrunkSize
<1> HIDE DEF T
<1>5. Max(T) \in T
  BY <1>1, <1>3, MaxOf
<1> QED BY <1>4, <1>5 DEF T

LEMMA MaybeShrinkIs ==
    ASSUME hash \in Hashes, NEW t, TableInv(hash, t), 2 * t.elements < Largest
    PROVE  HasMoved(t, MaybeShrink(t))
<1>1. CASE ShrinkThreshold(t) > 0 /\ Size(t) < ShrinkThreshold(t) /\ t.n > DefaultStartingBuckets
  <2>1. ShrunkSize(t) \in Sizes /\ 2 * Size(t) < Largest
    BY <1>1, ShrunkSizeIs, SizeSmall
  <2> QED BY <1>1, <2>1, CopyOfIs DEF MaybeShrink
<1>2. CASE ~(ShrinkThreshold(t) > 0 /\ Size(t) < ShrinkThreshold(t) /\ t.n > DefaultStartingBuckets)
  <2>1. PICK u : u = [t EXCEPT !.considerShrink = FALSE]
    OBVIOUS
  <2>2. DOMAIN t = {"n", "bucket", "elements", "deleted", "considerShrink", "useDeleted"}
    BY TableIs
  <2>3. /\ u.n = t.n /\ u.bucket = t.bucket /\ u.elements = t.elements /\ u.deleted = t.deleted
        /\ u.useDeleted = t.useDeleted
    BY <2>1, <2>2
  <2>4. u \in Table(u.n)
    BY <2>1 DEF TableInv, Table
  <2>5. TableInv(hash, u) /\ Contents(u) = Contents(t)
    BY <2>3, <2>4, FlagsIs DEF TableInv
  <2>6. u.elements <= t.elements
    BY <2>3, TableIs
  <2> QED BY <1>2, <2>1, <2>3, <2>5, <2>6 DEF MaybeShrink, HasMoved
<1> QED BY <1>1, <1>2

LEMMA MaybeMaybeShrink ==
    ASSUME hash \in Hashes, NEW t, TableInv(hash, t), 2 * t.elements < Largest,
           NEW s, s = t \/ s = MaybeShrink(t)
    PROVE  HasMoved(t, s) /\ s.elements \in Nat
<1>1. HasMoved(t, t)
  BY TableIs DEF HasMoved
<1>2. HasMoved(t, s)
  BY <1>1, MaybeShrinkIs
<1> QED BY <1>2, TableIs DEF HasMoved

LEMMA ResizeDeltaIs ==
    ASSUME hash \in Hashes, NEW t, TableInv(hash, t), NEW delta \in Nat,
           2 * (t.elements + delta) < Largest
    PROVE  /\ HasMoved(t, ResizeDelta(t, delta))
           /\ 2 * (ResizeDelta(t, delta).elements + delta) <= ResizeDelta(t, delta).n
<1>1. t.elements \in Nat /\ Largest \in Nat
  BY TableIs, SizesAre
<1>2. PICK s : s = IF t.considerShrink THEN MaybeShrink(t) ELSE t
  OBVIOUS
<1>3. 2 * t.elements < Largest
  BY <1>1
<1>4. HasMoved(t, s) /\ s.elements \in Nat
  BY <1>2, <1>3, MaybeMaybeShrink
<1>5. /\ TableInv(hash, s) /\ s.elements <= t.elements
      /\ s.n \in Nat /\ Size(s) \in Nat /\ Size(s) <= s.elements
  BY <1>4, TableIs, SizeIs DEF HasMoved
<1>6. 2 * (s.elements + delta) < Largest /\ 2 * (Size(s) + delta) < Largest
      /\ s.elements + delta \in Nat /\ Size(s) + delta \in Nat /\ 2 * s.elements < Largest
  BY <1>1, <1>4, <1>5
<1>7. PICK m \in Sizes, w \in Sizes :
        /\ m = MinSize(s.elements + delta, 0) /\ 2 * (s.elements + delta) < m
        /\ w = MinSize(Size(s) + delta, 0) /\ 2 * (Size(s) + delta) < w
  <2>1. 0 \in Nat /\ 0 <= Largest
    BY <1>1
  <2> QED BY <1>6, <2>1, MinSizeFits
<1>8. m \in Nat /\ w \in Nat
  BY SizesAre
<1>9. PICK r : r = ResizeDelta(t, delta)
  OBVIOUS
<1> DEFINE roomy == s.n > HT_MIN_BUCKETS /\ s.elements + delta <= EnlargeThreshold(s)
<1>10. r = IF roomy \/ m <= s.n THEN s ELSE CopyOf(s, w)
  BY <1>2, <1>7, <1>9 DEF ResizeDelta
<1>11. CASE roomy \/ m <= s.n
  <2>1. r = s
    BY <1>10, <1>11
  <2>2. 2 * (s.elements + delta) <= s.n
    <3>1. CASE s.elements + delta <= s.n \div 2
      BY <1>4, <1>5, <3>1
    <3>2. CASE m <= s.n
      BY <1>4, <1>5, <1>7, <1>8, <3>2
    <3> QED BY <1>11, <3>1, <3>2 DEF EnlargeThreshold
  <2> QED BY <1>4, <1>9, <2>1, <2>2
<1>12. CASE ~(roomy \/ m <= s.n)
  <2>1. r = CopyOf(s, w)
    BY <1>10, <1>12
  <2>2. 2 * Size(s) < Largest
    BY <1>5, <1>6, SizeSmall
  <2>3. HasMoved(s, r) /\ r.n = MinSize(Size(s), w) /\ r.elements = Size(s)
    BY <1>5, <2>1, <2>2, CopyOfIs
  <2>4. r.n >= w /\ r.n \in Nat
    BY <1>5, <1>8, <2>2, <2>3, MinSizeFits, SizesAre
  <2>5. 2 * (r.elements + delta) <= r.n
    BY <1>5, <1>7, <1>8, <2>3, <2>4
  <2>6. HasMoved(t, r)
    BY <1>1, <1>4, <2>3, MovedTwice
  <2> QED BY <1>9, <2>5, <2>6
<1> QED BY <1>11, <1>12

LEMMA ResizedIs ==
    ASSUME hash \in Hashes, NEW t, TableInv(hash, t), 2 * t.elements < Largest,
           NEW req \in Nat, 2 * req < Largest
    PROVE  HasMoved(t, Resized(t, req))
<1>1. t.elements \in Nat
  BY TableIs
<1>2. PICK s : s = IF t.considerShrink \/ req = 0 THEN MaybeShrink(t) ELSE t
  OBVIOUS
<1>3. HasMoved(t, s) /\ s.elements \in Nat
  BY <1>2, MaybeMaybeShrink
<1>4. Resized(t, req) = IF req > s.elements THEN ResizeDelta(s, req - s.elements) ELSE s
  BY <1>2 DEF Resized
<1>5. CASE req > s.elements
  <2>1. PICK delta \in Nat : delta = req - s.elements /\ 2 * (s.elements + delta) < Largest
    BY <1>3, <1>5
  <2>2. HasMoved(s, ResizeDelta(s, delta))
    BY <1>3, <2>1, ResizeDeltaIs DEF HasMoved
  <2> QED BY <1>1, <1>3, <1>4, <1>5, <2>1, <2>2, MovedTwice
<1> QED BY <1>3, <1>4, <1>5

LEMMA InsertedIs ==
    ASSUME hash \in Hashes, NEW t, TableInv(hash, t), 2 * (t.elements + 1) < Largest,
           NEW e \in Entry, e.key \in Key
    PROVE  /\ TableInv(hash, Inserted(t, e)) /\ Inserted(t, e).useDeleted = t.useDeleted
           /\ Contents(Inserted(t, e)) =
                  IF Contents(t)[e.key] = Nil THEN [Contents(t) EXCEPT ![e.key] = e.val]
                  ELSE Contents(t)
<1>1. PICK s : s = ResizeDelta(t, 1)
  OBVIOUS
<1>2. HasMoved(t, s) /\ 2 * (s.elements + 1) <= s.n
  <2>1. 1 \in Nat
    OBVIOUS
  <2> QED BY <1>1, <2>1, ResizeDeltaIs
<1>3. HasInserted(s, e, InsertNoResize(s, e))
  BY <1>2, InsertNoResizeIs DEF HasMoved
<1>4. Inserted(t, e) = InsertNoResize(s, e)
  BY <1>1 DEF Inserted
<1> QED BY <1>2, <1>3, <1>4 DEF HasMoved, HasInserted

LEMMA FindIs ==
    ASSUME hash \in Hashes, NEW t, TableInv(hash, t), NEW k \in Key
    PROVE  Find(t, k) = Contents(t)[k]
<1>1. CASE Held(t, k) = {}
  <2>1. ~IsThere(t, k)
    BY <1>1, FoundAtIs
  <2>2. Contents(t)[k] = Nil
    BY <1>1, HoldingIs
  <2> QED BY <2>1, <2>2 DEF Find
<1>2. CASE Held(t, k) # {}
  <2>1. Held(t, k) = {FoundAt(t, k)} /\ IsThere(t, k)
    BY <1>2, FoundAtIs
  <2>2. Contents(t)[k] = t.bucket[FoundAt(t, k)].val
    BY <2>1, HoldingIs
  <2>3. FoundAt(t, k) \in LiveBuckets(t)
    BY <2>1 DEF Held, LiveBuckets
  <2>4. Size(t) # 0
    BY <2>3, SizeIs, FS_EmptySet
  <2> QED BY <2>1, <2>2, <2>4 DEF Find
<1> QED BY <1>1, <1>2

LEMMA IndexedIs ==
    ASSUME hash \in Hashes, NEW t, TableInv(hash, t), 2 * (t.elements + 1) < Largest, NEW k \in Key
    PROVE  /\ TableInv(hash, Indexed(t, k)) /\ Indexed(t, k).useDeleted = t.useDeleted
           /\ Contents(Indexed(t, k)) =
                  IF Contents(t)[k] = Nil THEN [Contents(t) EXCEPT ![k] = DefaultVal]
                  ELSE Contents(t)
<1>1. PICK e \in Entry : e = [key |-> k, val |-> DefaultVal] /\ e.key = k /\ e.val = DefaultVal
  <2>1. [key |-> k, val |-> DefaultVal] \in Entry
    BY HashtableAssumption DEF Entry
  <2> QED BY <2>1
<1>2. Find(t, k) = Contents(t)[k]
  BY FindIs
<1>3. CASE Contents(t)[k] # Nil
  BY <1>2, <1>3 DEF Indexed
<1>4. CASE Contents(t)[k] = Nil
  <2>1. Indexed(t, k) = Inserted(t, e)
    BY <1>1, <1>2, <1>4 DEF Indexed
  <2> QED BY <1>1, <1>4, <2>1, InsertedIs
<1> QED BY <1>3, <1>4

-----------------------------------------------------------------------------
(* Inserting the entries of another container.                             *)

LEMMA InsertNoResizeType ==
    ASSUME NEW n, NEW u \in CopyType(n), NEW e \in Entry
    PROVE  InsertNoResize(u, e) \in CopyType(n)
<1>1. PICK b : b = InsertPos(u, e.key)
  OBVIOUS
<1>2. u.bucket \in [0..n - 1 -> Entry] /\ u.elements \in Int /\ u.deleted \in Int
  BY DEF CopyType
<1>3. PICK f : f = [u.bucket EXCEPT ![b] = e]
  OBVIOUS
<1>4. f \in [0..n - 1 -> Entry]
  <2>1. PICK D : D = 0..n - 1
    OBVIOUS
  <2>2. u.bucket \in [D -> Entry]
    BY <1>2, <2>1
  <2>3. f \in [D -> Entry]
    BY <1>3, <2>2, ExceptType
  <2> QED BY <2>1, <2>3
<1>5. PICK m \in Int, d \in Int : m = u.elements + 1 /\ d = u.deleted - 1
  BY <1>2
<1>6. \/ InsertNoResize(u, e) = u
      \/ InsertNoResize(u, e) = [u EXCEPT !.bucket = f, !.deleted = d]
      \/ InsertNoResize(u, e) = [u EXCEPT !.bucket = f, !.elements = m]
  BY <1>1, <1>3, <1>5 DEF InsertNoResize
<1>7. /\ [u EXCEPT !.bucket = f, !.elements = m] \in CopyType(n)
      /\ [u EXCEPT !.bucket = f, !.deleted = d] \in CopyType(n)
  BY <1>4, <1>5 DEF CopyType
<1> QED BY <1>6, <1>7

LEMMA InsertStepsAre ==
    ASSUME NEW h, NEW t, NEW m \in Nat, NEW entries, Len(entries) = m,
           \A i \in 1..m : entries[i] \in Entry, TableInv(h, ResizeDelta(t, m))
    PROVE  \E f : /\ f[0] = ResizeDelta(t, m)
                  /\ \A i \in 1..m : f[i] = InsertNoResize(f[i - 1], entries[i])
                  /\ InsertedAll(t, entries) = f[m]
<1> DEFINE G(f) == [i \in 0..m |->
                       IF i = 0 THEN ResizeDelta(t, m) ELSE InsertNoResize(f[i - 1], entries[i])]
           c == CHOOSE f : f = G(f)
<1>1. PICK s, S : s = ResizeDelta(t, m) /\ S = CopyType(s.n)
  OBVIOUS
<1>2. s \in S
  <2>1. s \in Table(s.n) /\ s.n \in Nat
    BY <1>1, TableIs DEF TableInv
  <2>2. \A u \in Table(s.n) : u \in CopyType(s.n)
    BY <2>1 DEF Table, CopyType
  <2> QED BY <1>1, <2>1, <2>2
<1> DEFINE F == [i \in 1..m |-> [u \in S |-> InsertNoResize(u, entries[i])]]
<1>3. F \in [1..m -> [S -> S]]
  <2>1. \A i \in 1..m, u \in S : InsertNoResize(u, entries[i]) \in S
    BY <1>1, InsertNoResizeType
  <2> QED BY <2>1
<1>4. PICK f : Stepwise(f, S, m, s, F)
  <2> HIDE DEF F
  <2> QED BY <1>2, <1>3, StepsExist
<1>5. /\ f \in [0..m -> S] /\ f[0] = s
      /\ \A i \in 1..m : f[i] = F[i][f[i - 1]]
  BY <1>4 DEF Stepwise
<1>6. ASSUME NEW i \in 1..m
      PROVE  f[i] = InsertNoResize(f[i - 1], entries[i])
  <2>1. i - 1 \in 0..m
    OBVIOUS
  <2>2. f[i - 1] \in S
    BY <1>5, <2>1
  <2> QED BY <1>5, <2>2
<1> HIDE DEF F
<1>7. f = G(f)
  <2>1. \A i \in 0..m : i = 0 \/ i \in 1..m
    OBVIOUS
  <2>2. \A i \in 0..m : f[i] = G(f)[i]
    BY <1>1, <1>5, <1>6, <2>1
  <2>3. f = [i \in 0..m |-> f[i]] /\ G(f) = [i \in 0..m |-> G(f)[i]]
    BY <1>5
  <2> HIDE DEF G
  <2>4. [i \in 0..m |-> f[i]] = [i \in 0..m |-> G(f)[i]]
    BY <2>2
  <2> QED BY <2>3, <2>4
<1>8. c = G(c)
  <2> HIDE DEF G
  <2> QED BY <1>7
<1>9. InsertedAll(t, entries) = c[m]
  BY DEF InsertedAll
<1> HIDE DEF c
<1>10. c[0] = ResizeDelta(t, m)
  <2>1. G(c)[0] = ResizeDelta(t, m)
    OBVIOUS
  <2> HIDE DEF G
  <2> QED BY <1>8, <2>1
<1>11. ASSUME NEW i \in 1..m
       PROVE  c[i] = InsertNoResize(c[i - 1], entries[i])
  <2>1. i \in 0..m /\ i # 0
    OBVIOUS
  <2>2. G(c)[i] = InsertNoResize(c[i - 1], entries[i])
    BY <2>1
  <2> HIDE DEF G
  <2> QED BY <1>8, <2>2
<1> QED BY <1>9, <1>10, <1>11

\* Entries are added, and those that are there stay.
HasGrown(t, u) ==
    /\ TableInv(hash, u) /\ u.useDeleted = t.useDeleted
    /\ \A k \in Key : Contents(t)[k] # Nil => Contents(u)[k] = Contents(t)[k]

LEMMA InsertedAllIs ==
    ASSUME hash \in Hashes, NEW t, TableInv(hash, t), NEW m \in Nat, NEW entries, Len(entries) = m,
           \A i \in 1..m : entries[i] \in Entry /\ entries[i].key \in Key,
           2 * (t.elements + m) < Largest
    PROVE  HasGrown(t, InsertedAll(t, entries))
<1>1. PICK s : s = ResizeDelta(t, m)
  OBVIOUS
<1>2. HasMoved(t, s) /\ 2 * (s.elements + m) <= s.n
  BY <1>1, ResizeDeltaIs
<1>3. PICK f : /\ f[0] = s
               /\ \A i \in 1..m : f[i] = InsertNoResize(f[i - 1], entries[i])
               /\ InsertedAll(t, entries) = f[m]
  BY <1>1, <1>2, InsertStepsAre DEF HasMoved
<1>4. TableInv(hash, s) /\ s.elements \in Nat /\ s.n \in Nat
  BY <1>2, TableIs DEF HasMoved
<1> DEFINE T == {i \in 0..m : HasGrown(s, f[i]) /\ f[i].n = s.n /\ f[i].elements <= s.elements + i}
<1>5. 0 \in T
  BY <1>3, <1>4 DEF HasGrown
<1>6. \A i \in T : i < m => i + 1 \in T
  <2> TAKE i \in T
  <2> HAVE i < m
  <2>1. PICK j \in 1..m : j = i + 1 /\ j - 1 = i /\ j \in 0..m
    OBVIOUS
  <2>2. PICK u, w, e : u = f[i] /\ w = f[j] /\ e = entries[j]
    OBVIOUS
  <2>3. /\ HasGrown(s, u) /\ u.n = s.n /\ u.elements <= s.elements + i /\ u.elements \in Nat
        /\ TableInv(hash, u)
    BY <2>2, TableIs DEF HasGrown
  <2>4. 2 * (u.elements + 1) <= u.n
    BY <1>2, <1>4, <2>3
  <2>5. w = InsertNoResize(u, e) /\ e \in Entry /\ e.key \in Key
    BY <1>3, <2>1, <2>2
  <2>6. HasInserted(u, e, w)
    BY <2>3, <2>4, <2>5, InsertNoResizeIs
  <2>7. w.n = s.n /\ w.elements <= s.elements + j
    BY <1>4, <2>1, <2>3, <2>6 DEF HasInserted
  <2>8. \A k \in Key : Contents(s)[k] # Nil => Contents(w)[k] = Contents(s)[k]
    <3> TAKE k \in Key
    <3> HAVE Contents(s)[k] # Nil
    <3>1. Contents(u)[k] = Contents(s)[k]
      BY <2>3 DEF HasGrown
    <3>2. DOMAIN Contents(u) = Key
      BY DEF Contents
    <3>3. Contents(w)[k] = Contents(u)[k]
      BY <2>6, <3>1, <3>2 DEF HasInserted
    <3> QED BY <3>1, <3>3
  <2>9. HasGrown(s, w)
    BY <2>3, <2>6, <2>8 DEF HasGrown, HasInserted
  <2> QED BY <2>1, <2>2, <2>7, <2>9
<1>7. T = 0..m
  BY <1>5, <1>6, InductUpTo
<1>8. HasGrown(s, f[m])
  <2>1. m \in 0..m
    OBVIOUS
  <2> QED BY <1>7, <2>1
<1> QED BY <1>2, <1>3, <1>8 DEF HasGrown, HasMoved

LEMMA EntriesAre ==
    ASSUME NEW K \in SUBSET Key, NEW v \in Val, NEW entries,
           entries = SetToSeq({[key |-> k, val |-> v] : k \in K})
    PROVE  \E m \in Nat : /\ Len(entries) = m /\ m <= Cardinality(Key)
                          /\ \A i \in 1..m : entries[i] \in Entry /\ entries[i].key \in Key
<1>1. PICK E : E = {[key |-> k, val |-> v] : k \in K}
  OBVIOUS
<1>2. IsFiniteSet(Key)
  BY HashtableAssumption
<1>3. IsFiniteSet(K) /\ Cardinality(K) <= Cardinality(Key)
  BY <1>2, FS_Subset
<1> DEFINE f == [k \in K |-> [key |-> k, val |-> v]]
<1>4. f \in Surjection(K, E)
  <2>1. f \in [K -> E]
    BY <1>1
  <2>2. \A e \in E : \E k \in K : f[k] = e
    BY <1>1
  <2> HIDE DEF f
  <2> QED BY <2>1, <2>2 DEF Surjection
<1>5. IsFiniteSet(E) /\ Cardinality(E) <= Cardinality(K)
  <2> HIDE DEF f
  <2> QED BY <1>3, <1>4, FS_Surjection
<1>6. PICK m : m = Cardinality(E)
  OBVIOUS
<1>7. m \in Nat /\ ExistsBijection(1..m, E)
  BY <1>5, <1>6, FS_CardinalityType
<1>8. m <= Cardinality(Key)
  BY <1>2, <1>3, <1>5, <1>6, <1>7, FS_CardinalityType
<1>9. \E g \in [1..m -> E] : IsInjective(g)
  BY <1>7 DEF ExistsBijection, Bijection, Injection, IsInjective
<1>10. entries \in [1..m -> E]
  BY <1>1, <1>6, <1>9 DEF SetToSeq
<1>11. Len(entries) = m
  BY <1>7, <1>10, LenProperties
<1>12. \A i \in 1..m : entries[i] \in Entry /\ entries[i].key \in Key
  <2>1. \A e \in E : e \in Entry /\ e.key \in Key
    BY <1>1 DEF Entry
  <2> QED BY <1>10, <2>1
<1> QED BY <1>7, <1>8, <1>11, <1>12

-----------------------------------------------------------------------------
(* The inductive invariant of the specification.                           *)

\* The table is right and has room to grow, and an iterator is at its end or at
\* a bucket that is in use.
TableSound ==
    /\ hash \in Hashes
    /\ TableInv(hash, table)
    /\ table.elements <= MaxUsed
    /\ pos \in {NoPos} \cup 0..table.n
    /\ pos \in 0..table.n - 1 => table.bucket[pos].key # EmptyKey

LEMMA Room ==
    ASSUME TableSound
    PROVE  /\ 2 * table.elements < Largest /\ 2 * (table.elements + Cardinality(Key)) < Largest
           /\ \A k \in Key : 2 * (table.elements + 1) < Largest
<1>1. /\ MaxUsed \in Nat /\ IsFiniteSet(Key) /\ 2 * (MaxUsed + Cardinality(Key)) < Largest
  BY HashtableAssumption DEF Largest
<1>2. Cardinality(Key) \in Nat
  BY <1>1, FS_CardinalityType
<1>3. \A k \in Key : Cardinality(Key) # 0
  BY <1>1, FS_EmptySet
<1>4. table.elements \in Nat /\ table.elements <= MaxUsed /\ Largest \in Nat
  BY TableIs, SizesAre DEF TableSound
<1> QED BY <1>1, <1>2, <1>3, <1>4

LEMMA ConstructedIs ==
    ASSUME NEW h, NEW hint \in Hints
    PROVE  /\ TableInv(h, Constructed(hint)) /\ Constructed(hint).elements = 0
           /\ \A k \in Key : Contents(Constructed(hint))[k] = Nil
<1>1. PICK n : n = IF hint = 0 THEN DefaultStartingBuckets ELSE MinSize(hint, 0)
  OBVIOUS
<1>2. n \in Sizes
  <2>1. hint \in Nat /\ 2 * hint < Largest /\ 0 \in Nat /\ 0 <= Largest
    <3>1. hint \in Nat /\ 2 * hint < Doubled[MaxDoublings]
      BY HashtableAssumption
    <3>2. Largest \in Nat
      BY SizesAre
    <3> QED BY <3>1, <3>2 DEF Largest
  <2> QED BY <1>1, <2>1, MinSizeFits, SizesAre
<1>3. Constructed(hint) = [n |-> n, bucket |-> [b \in 0..n - 1 |-> EmptyVal], elements |-> 0,
                           deleted |-> 0, considerShrink |-> FALSE, useDeleted |-> FALSE]
  BY <1>1 DEF Constructed
<1>4. PICK u : u = Constructed(hint)
  OBVIOUS
<1>5. TableInv(h, u) /\ \A k \in Key : Contents(u)[k] = Nil
  BY <1>2, <1>3, <1>4, EmptyTableIs
<1>6. u.elements = 0
  BY <1>3, <1>4
<1> QED BY <1>4, <1>5, <1>6

LEMMA PendingIs ==
    ASSUME TableSound
    PROVE  Pending = IF pos = NoPos THEN {} ELSE {k \in Key : \E b \in Held(table, k) : b >= pos}
<1>1. \A k \in Key : Holding(table, k) = Held(table, k)
  BY HoldingIs DEF TableSound
<1>2. CASE pos = NoPos
  BY <1>2 DEF Pending
<1>3. CASE pos # NoPos
  <2>1. Pending = {k \in Key : \E b \in Holding(table, k) : b >= pos}
    BY <1>3 DEF Pending
  <2> QED BY <1>1, <1>3, <2>1
<1> QED BY <1>2, <1>3

\* An operation that keeps every entry and ends the traversal.
LEMMA GrowingStep ==
    ASSUME TableSound, NEW t, TableInv(hash, t), Becomes(t),
           \A k \in Key : Contents(table)[k] # Nil => Contents(t)[k] = Contents(table)[k]
    PROVE  TableSound' /\ Map!Insert
<1>1. table' = t /\ pos' = NoPos /\ hash' = hash /\ t.elements <= MaxUsed
  BY DEF Becomes
<1>2. TableSound'
  <2>1. hash' \in Hashes /\ TableInv(hash', table')
    BY <1>1 DEF TableSound
  <2>2. table'.elements <= MaxUsed /\ pos' \in {NoPos} \cup 0..table'.n
    BY <1>1
  <2>3. pos' \notin 0..table'.n - 1
    BY <1>1, TableIs DEF NoPos
  <2> QED BY <2>1, <2>2, <2>3 DEF TableSound
<1>3. Contents(t) \in [Key -> Val \cup {Nil}]
  BY ContentsIs
<1>4. Pending' = {}
  BY <1>1 DEF Pending
<1>5. Contents(table)' = Contents(t)
  BY <1>1 DEF Contents, Holding, Live, LiveEntry, DeletedEntry
<1> QED BY <1>2, <1>3, <1>4, <1>5 DEF Map!Insert, Map!Domain

\* An operation that erases the entries of some buckets and moves nothing.
LEMMA ErasingStep ==
    ASSUME TableSound, NEW G, NEW t, HasErased(hash, table, G, t),
           table' = t, UNCHANGED <<pos, hash>>
    PROVE  TableSound' /\ Map!Erase
<1>1. /\ TableInv(hash, t) /\ t.n = table.n /\ t.elements = table.elements
      /\ \A k \in Key : Held(t, k) = Held(table, k) \ G
      /\ \A k \in Key : Contents(t)[k] = IF Held(table, k) \subseteq G THEN Nil ELSE Contents(table)[k]
      /\ \A c \in 0..table.n - 1 : table.bucket[c].key # EmptyKey => t.bucket[c].key # EmptyKey
  BY DEF HasErased
<1>2. TableSound'
  BY <1>1 DEF TableSound
<1> DEFINE K == {k \in Map!Domain : Held(table, k) \subseteq G}
<1>3. K \in SUBSET Map!Domain
  OBVIOUS
<1>4. Contents(t) = [k \in Key |-> IF k \in K THEN Nil ELSE Contents(table)[k]]
  <2>1. PICK f, g : f = Contents(t) /\ g = Contents(table)
    OBVIOUS
  <2>2. \A k \in Key : f[k] = IF Held(table, k) \subseteq G THEN Nil ELSE g[k]
    BY <1>1, <2>1
  <2>3. \A k \in Key : k \in K <=> g[k] # Nil /\ Held(table, k) \subseteq G
    BY <2>1 DEF Map!Domain
  <2>4. \A k \in Key : f[k] = IF k \in K THEN Nil ELSE g[k]
    BY <2>2, <2>3
  <2>5. f = [k \in Key |-> f[k]]
    BY <2>1 DEF Contents
  <2> HIDE DEF K
  <2>6. f = [k \in Key |-> IF k \in K THEN Nil ELSE g[k]]
    BY <2>4, <2>5
  <2> QED BY <2>1, <2>6
<1>5. Contents(table)' = Contents(t)
  BY DEF Contents, Holding, Live, LiveEntry, DeletedEntry
<1>6. Pending' = IF pos = NoPos THEN {} ELSE {k \in Key : \E b \in Held(t, k) : b >= pos}
  <2>1. \A k \in Key : Holding(t, k) = Held(t, k)
    BY <1>1, HoldingIs
  <2>2. Pending' = IF pos = NoPos THEN {} ELSE {k \in Key : \E b \in Holding(t, k) : b >= pos}
    BY DEF Pending, Holding, Live, LiveEntry, DeletedEntry
  <2> QED BY <2>1, <2>2
<1>7. Pending' = Pending \ K
  <2>1. CASE pos = NoPos
    BY <1>6, <2>1, PendingIs
  <2>2. CASE pos # NoPos
    <3>1. ASSUME NEW k \in Key, NEW b \in Held(table, k)
          PROVE  Held(table, k) = {b} /\ (k \in K <=> b \in G)
      <4>1. Held(table, k) = {b}
        BY HoldingIs DEF TableSound
      <4>2. Contents(table)[k] # Nil
        BY <4>1, ContentsIs DEF TableSound
      <4> QED BY <4>1, <4>2 DEF Map!Domain
    <3> HIDE DEF K
    <3>2. Pending = {k \in Key : \E b \in Held(table, k) : b >= pos}
      BY <2>2, PendingIs
    <3>3. Pending' = {k \in Key : \E b \in Held(table, k) \ G : b >= pos}
      BY <1>1, <1>6, <2>2
    <3> QED BY <3>1, <3>2, <3>3
  <2> QED BY <2>1, <2>2
<1> QED BY <1>2, <1>3, <1>4, <1>5, <1>7 DEF Map!Erase

LEMMA SkipDeadIs ==
    ASSUME NEW h, NEW t, TableInv(h, t), NEW b \in 0..t.n
    PROVE  /\ SkipDead(t, b) \in b..t.n
           /\ SkipDead(t, b) \in 0..t.n - 1 => t.bucket[SkipDead(t, b)].key \in Key
           /\ \A c \in 0..t.n - 1 : t.bucket[c].key \in Key => (c >= b <=> c >= SkipDead(t, b))
<1> DEFINE L == {t.n} \cup {c \in b..t.n - 1 : Live(t, c)}
<1>1. t.n \in Nat /\ b \in Nat /\ b <= t.n
  BY TableIs
<1>2. \A c \in b..t.n - 1 : c \in 0..t.n - 1 /\ c \in Nat
  BY <1>1
<1>3. L \in SUBSET Nat /\ t.n \in L
  BY <1>1, <1>2
<1>4. PICK p \in L : p = Min(L) /\ \A c \in L : p <= c
  BY <1>3, MinOf
<1>5. p = SkipDead(t, b)
  BY <1>4 DEF SkipDead
<1>6. p \in b..t.n
  BY <1>1, <1>4
<1>7. p \in 0..t.n - 1 => t.bucket[p].key \in Key
  <2>1. p \in 0..t.n - 1 => p # t.n
    BY <1>1
  <2> QED BY <1>4, <2>1, LiveIs
<1>8. ASSUME NEW c \in 0..t.n - 1, t.bucket[c].key \in Key
      PROVE  c >= b <=> c >= p
  <2>1. c >= b => c \in L
    BY <1>1, <1>8, LiveIs
  <2> QED BY <1>1, <1>4, <1>6, <2>1
<1> QED BY <1>5, <1>6, <1>7, <1>8

LEMMA BeginStep ==
    ASSUME TableSound, Begin
    PROVE  TableSound' /\ Map!Begin
<1>1. table' = table /\ hash' = hash /\ pos' = SkipDead(table, 0)
  BY DEF Begin
<1>2. TableInv(hash, table) /\ table.n \in Nat /\ 0 \in 0..table.n /\ EmptyKey \notin Key
  BY TableIs, HashtableAssumption DEF TableSound
<1>3. PICK p : p = SkipDead(table, 0)
  OBVIOUS
<1>4. /\ p \in 0..table.n
      /\ p \in 0..table.n - 1 => table.bucket[p].key \in Key
      /\ \A c \in 0..table.n - 1 : table.bucket[c].key \in Key => (c >= 0 <=> c >= p)
  BY <1>2, <1>3, SkipDeadIs
<1>5. pos' = p /\ p \in Nat /\ p # NoPos
  BY <1>1, <1>2, <1>3, <1>4 DEF NoPos
<1>6. TableSound'
  <2>1. hash \in Hashes /\ table.elements <= MaxUsed
    BY DEF TableSound
  <2>2. p \in 0..table.n - 1 => table.bucket[p].key # EmptyKey
    BY <1>2, <1>4
  <2> QED BY <1>1, <1>2, <1>4, <1>5, <2>1, <2>2 DEF TableSound
<1>7. Pending' = {k \in Key : \E b \in Held(table, k) : b >= p}
  <2>1. Pending' = {k \in Key : \E b \in Holding(table, k) : b >= p}
    BY <1>1, <1>5 DEF Pending, Holding, Live, LiveEntry, DeletedEntry
  <2> QED BY <1>2, <2>1, HoldingIs
<1>8. \A k \in Key : \A b \in Held(table, k) : b >= p
  BY <1>2, <1>4 DEF Held
<1>9. Pending' = Map!Domain
  BY <1>2, <1>7, <1>8, ContentsIs DEF Map!Domain
<1>10. Contents(table)' = Contents(table)
  BY <1>1 DEF Contents, Holding, Live, LiveEntry, DeletedEntry
<1> QED BY <1>6, <1>9, <1>10 DEF Map!Begin

LEMMA AdvanceStep ==
    ASSUME TableSound, Advance
    PROVE  /\ TableSound'
           /\ (\E k \in Key : Map!Visit(k)) \/ UNCHANGED <<Contents(table), Pending>>
<1>1. table' = table /\ hash' = hash /\ pos' = SkipDead(table, pos + 1) /\ pos \in 0..table.n - 1
  BY DEF Advance
<1>2. TableInv(hash, table) /\ table.n \in Nat /\ pos + 1 \in 0..table.n /\ EmptyKey \notin Key
      /\ pos \in Nat
  BY <1>1, TableIs, HashtableAssumption DEF TableSound
<1>3. PICK p, q : p = SkipDead(table, pos + 1) /\ q = pos + 1
  OBVIOUS
<1>4. /\ p \in q..table.n
      /\ p \in 0..table.n - 1 => table.bucket[p].key \in Key
      /\ \A c \in 0..table.n - 1 : table.bucket[c].key \in Key => (c >= q <=> c >= p)
  BY <1>2, <1>3, SkipDeadIs
<1>5. p \in 0..table.n /\ p \in Nat /\ p > pos
  <2>1. p \in Int /\ p >= pos + 1 /\ p <= table.n
    BY <1>2, <1>3, <1>4
  <2> QED BY <1>2, <2>1
<1>6. TableSound'
  BY <1>1, <1>2, <1>3, <1>4, <1>5 DEF TableSound
<1>7. pos' = p /\ p # NoPos /\ pos # NoPos
  BY <1>1, <1>2, <1>3, <1>5 DEF NoPos
<1>8. Pending' = {k \in Key : \E b \in Held(table, k) : b >= p}
  <2>1. Pending' = {k \in Key : \E b \in Holding(table, k) : b >= p}
    BY <1>1, <1>7 DEF Pending, Holding, Live, LiveEntry, DeletedEntry
  <2> QED BY <1>2, <2>1, HoldingIs
<1>9. Pending = {k \in Key : \E b \in Held(table, k) : b >= pos}
  BY <1>7, PendingIs
<1>10. Contents(table)' = Contents(table)
  BY <1>1 DEF Contents, Holding, Live, LiveEntry, DeletedEntry
<1>11. ASSUME NEW k \in Key, NEW b \in Held(table, k)
       PROVE  /\ b \in 0..table.n - 1 /\ Held(table, k) = {b}
              /\ b >= p <=> b >= pos /\ b # pos
  <2>1. b \in 0..table.n - 1 /\ table.bucket[b].key \in Key
    BY DEF Held
  <2>2. b >= q <=> b >= p
    BY <1>4, <2>1
  <2>3. b >= q <=> b >= pos /\ b # pos
    BY <1>2, <1>3, <2>1
  <2>4. Held(table, k) = {b}
    BY <1>2, HoldingIs
  <2> QED BY <2>1, <2>2, <2>3, <2>4
<1>12. CASE table.bucket[pos].key \in Key
  <2>1. PICK k \in Key : k = table.bucket[pos].key
    BY <1>12
  <2>2. pos \in Held(table, k) /\ \A l \in Key : pos \in Held(table, l) => l = k
    BY <1>1, <2>1 DEF Held
  <2>3. Pending' = Pending \ {k}
    BY <1>8, <1>9, <1>11, <2>2
  <2>4. k \in Pending
    BY <1>2, <1>9, <2>2
  <2>5. Map!Visit(k)
    BY <1>10, <2>3, <2>4 DEF Map!Visit
  <2> QED BY <1>6, <2>5
<1>13. CASE table.bucket[pos].key \notin Key
  <2>1. \A k \in Key : pos \notin Held(table, k)
    BY <1>13 DEF Held
  <2>2. Pending' = Pending
    BY <1>8, <1>9, <1>11, <2>1
  <2> QED BY <1>6, <1>10, <2>2
<1> QED BY <1>12, <1>13

-----------------------------------------------------------------------------
(* Every operation.                                                        *)

MapStep == Map!Next \/ UNCHANGED <<Contents(table), Pending>>

LEMMA DeletedKeyStep ==
    ASSUME TableSound, NEW d \in BOOLEAN, Becomes([SquashDeleted(table) EXCEPT !.useDeleted = d])
    PROVE  TableSound' /\ MapStep
<1>1. HasMoved(table, SquashDeleted(table)) /\ SquashDeleted(table).deleted = 0
  BY Room, SquashDeletedIs DEF TableSound
<1>2. PICK s : s = SquashDeleted(table)
  OBVIOUS
<1>3. PICK u : u = [s EXCEPT !.useDeleted = d]
  OBVIOUS
<1>4. TableInv(hash, s) /\ Contents(s) = Contents(table) /\ s.deleted = 0
  BY <1>1, <1>2 DEF HasMoved
<1>5. DOMAIN s = {"n", "bucket", "elements", "deleted", "considerShrink", "useDeleted"}
  BY <1>4, TableIs
<1>6. /\ u.n = s.n /\ u.bucket = s.bucket /\ u.elements = s.elements /\ u.deleted = s.deleted
      /\ ~(u.deleted > 0)
  BY <1>3, <1>4, <1>5
<1>7. u \in Table(u.n)
  BY <1>3, <1>4 DEF TableInv, Table
<1>8. TableInv(hash, u) /\ Contents(u) = Contents(table)
  BY <1>4, <1>6, <1>7, FlagsIs
<1>9. Becomes(u)
  BY <1>2, <1>3
<1> QED BY <1>8, <1>9, GrowingStep DEF MapStep, Map!Next

LEMMA MovingStep ==
    ASSUME TableSound, NEW t, HasMoved(table, t), Becomes(t)
    PROVE  TableSound' /\ MapStep
BY GrowingStep DEF HasMoved, MapStep, Map!Next

LEMMA InsertingStep ==
    ASSUME TableSound,
           \/ \E k \in Key : Index(k) \/ \E v \in Val : Insert(k, v)
           \/ \E K \in SUBSET Key, v \in Val : InsertRange(K, v)
    PROVE  TableSound' /\ MapStep
<1>1. hash \in Hashes /\ TableInv(hash, table) /\ DOMAIN Contents(table) = Key
  BY DEF TableSound, Contents
<1>2. ASSUME NEW k \in Key, Index(k)
      PROVE  TableSound' /\ MapStep
  <2>1. PICK t : t = Indexed(table, k)
    OBVIOUS
  <2>2. /\ TableInv(hash, t)
        /\ Contents(t) = IF Contents(table)[k] = Nil THEN [Contents(table) EXCEPT ![k] = DefaultVal]
                         ELSE Contents(table)
    BY <1>1, <2>1, Room, IndexedIs
  <2>3. \A l \in Key : Contents(table)[l] # Nil => Contents(t)[l] = Contents(table)[l]
    BY <1>1, <2>2
  <2>4. Becomes(t)
    BY <1>2, <2>1 DEF Index
  <2> QED BY <2>2, <2>3, <2>4, GrowingStep DEF MapStep, Map!Next
<1>3. ASSUME NEW k \in Key, NEW v \in Val, Insert(k, v)
      PROVE  TableSound' /\ MapStep
  <2>1. PICK e \in Entry : e = [key |-> k, val |-> v] /\ e.key = k /\ e.val = v
    <3>1. [key |-> k, val |-> v] \in Entry
      BY DEF Entry
    <3> QED BY <3>1
  <2>2. PICK t : t = Inserted(table, e)
    OBVIOUS
  <2>3. /\ TableInv(hash, t)
        /\ Contents(t) = IF Contents(table)[k] = Nil THEN [Contents(table) EXCEPT ![k] = v]
                         ELSE Contents(table)
    BY <1>1, <2>1, <2>2, Room, InsertedIs
  <2>4. \A l \in Key : Contents(table)[l] # Nil => Contents(t)[l] = Contents(table)[l]
    BY <1>1, <2>3
  <2>5. Becomes(t)
    BY <1>3, <2>1, <2>2 DEF Insert
  <2> QED BY <2>3, <2>4, <2>5, GrowingStep DEF MapStep, Map!Next
<1>4. ASSUME NEW K \in SUBSET Key, NEW v \in Val, InsertRange(K, v)
      PROVE  TableSound' /\ MapStep
  <2>1. PICK entries : entries = SetToSeq({[key |-> k, val |-> v] : k \in K})
    OBVIOUS
  <2>2. PICK m \in Nat : /\ Len(entries) = m /\ m <= Cardinality(Key)
                         /\ \A i \in 1..m : entries[i] \in Entry /\ entries[i].key \in Key
    BY <2>1, EntriesAre
  <2>3. 2 * (table.elements + m) < Largest
    <3>1. Cardinality(Key) \in Nat
      BY HashtableAssumption, FS_CardinalityType
    <3>2. table.elements \in Nat /\ Largest \in Nat
      BY <1>1, TableIs, SizesAre
    <3> QED BY <2>2, <3>1, <3>2, Room
  <2>4. PICK t : t = InsertedAll(table, entries)
    OBVIOUS
  <2>5. HasGrown(table, t)
    BY <1>1, <2>2, <2>3, <2>4, InsertedAllIs
  <2>6. Becomes(t)
    BY <1>4, <2>1, <2>4 DEF InsertRange
  <2> QED BY <2>5, <2>6, GrowingStep DEF HasGrown, MapStep, Map!Next
<1> QED BY <1>2, <1>3, <1>4

LEMMA ClearingStep ==
    ASSUME TableSound, NEW n \in Sizes, Becomes(Cleared(table, n))
    PROVE  TableSound' /\ MapStep
<1>1. PICK t : t = Cleared(table, n)
  OBVIOUS
<1>2. TableInv(hash, t) /\ \A k \in Key : Contents(t)[k] = Nil
  BY <1>1, ClearedIs DEF TableSound
<1>3. table' = t /\ pos' = NoPos /\ hash' = hash /\ t.elements <= MaxUsed
  BY <1>1 DEF Becomes
<1>4. TableSound'
  <2>1. hash' \in Hashes /\ TableInv(hash', table') /\ table'.elements <= MaxUsed
    BY <1>2, <1>3 DEF TableSound
  <2>2. pos' \notin 0..table'.n - 1 /\ pos' \in {NoPos} \cup 0..table'.n
    BY <1>2, <1>3, TableIs DEF NoPos
  <2> QED BY <2>1, <2>2 DEF TableSound
<1>5. Contents(t) = [k \in Key |-> Nil]
  <2>1. PICK f : f = Contents(t)
    OBVIOUS
  <2>2. f = [k \in Key |-> f[k]] /\ \A k \in Key : f[k] = Nil
    BY <1>2, <2>1 DEF Contents
  <2>3. f = [k \in Key |-> Nil]
    BY <2>2
  <2> QED BY <2>1, <2>3
<1>6. Contents(table)' = Contents(t) /\ Pending' = {}
  BY <1>3 DEF Pending, Contents, Holding, Live, LiveEntry, DeletedEntry
<1>7. Map!Clear
  BY <1>5, <1>6 DEF Map!Clear, Map!EmptyMap
<1> QED BY <1>4, <1>7 DEF MapStep, Map!Next

LEMMA EveryStep ==
    ASSUME TableSound, [Next]_tableVars
    PROVE  TableSound' /\ MapStep
<1>1. hash \in Hashes /\ TableInv(hash, table) /\ 2 * table.elements < Largest
  BY Room DEF TableSound
<1>2. CASE SetDeletedKey
  BY <1>2, DeletedKeyStep DEF SetDeletedKey
<1>3. CASE ClearDeletedKey
  BY <1>3, DeletedKeyStep DEF ClearDeletedKey
<1>4. ASSUME NEW k \in Key, Erase(k)
      PROVE  TableSound' /\ MapStep
  <2>1. table.useDeleted /\ table' = Erased(table, k) /\ UNCHANGED <<pos, hash>>
    BY <1>4 DEF Erase
  <2>2. HasErased(hash, table, Held(table, k), Erased(table, k))
    BY <1>1, <2>1, ErasedIs
  <2> QED BY <2>1, <2>2, ErasingStep DEF MapStep, Map!Next
<1>5. CASE \/ \E k \in Key : Index(k) \/ \E v \in Val : Insert(k, v)
           \/ \E K \in SUBSET Key, v \in Val : InsertRange(K, v)
  BY <1>5, InsertingStep
<1>6. ASSUME NEW req \in Hints, Resize(req)
      PROVE  TableSound' /\ MapStep
  <2>1. req \in Nat /\ 2 * req < Largest
    BY HashtableAssumption DEF Largest
  <2>2. HasMoved(table, Resized(table, req))
    BY <1>1, <2>1, ResizedIs
  <2> QED BY <1>6, <2>2, MovingStep DEF Resize
<1>7. CASE Clear
  BY <1>7, SizesAre, ClearingStep DEF Clear
<1>8. CASE ClearNoResize
  <2>1. table.n \in Sizes
    BY <1>1, TableIs
  <2> QED BY <1>8, <2>1, ClearingStep DEF ClearNoResize
<1>9. CASE EraseAt
  <2>1. /\ table.useDeleted /\ pos \in 0..table.n - 1 /\ table' = SetDeleted(table, pos)
        /\ UNCHANGED <<pos, hash>>
    BY <1>9 DEF EraseAt
  <2>2. table.bucket[pos].key # EmptyKey
    BY <2>1 DEF TableSound
  <2>3. HasErased(hash, table, {pos}, SetDeleted(table, pos))
    BY <1>1, <2>1, <2>2, SetDeletedIs
  <2> QED BY <2>1, <2>3, ErasingStep DEF MapStep, Map!Next
<1>10. CASE EraseRange
  <2>1. /\ table.useDeleted /\ pos \in 0..table.n /\ table' = ErasedFrom(table, pos)
        /\ UNCHANGED <<pos, hash>>
    BY <1>10 DEF EraseRange, TableSound
  <2>2. PICK G : HasErased(hash, table, G, ErasedFrom(table, pos))
    BY <1>1, <2>1, ErasedFromIs
  <2> QED BY <2>1, <2>2, ErasingStep DEF MapStep, Map!Next
<1>11. CASE Begin
  BY <1>11, BeginStep DEF MapStep, Map!Next
<1>12. CASE Advance
  BY <1>12, AdvanceStep DEF MapStep, Map!Next
<1>13. CASE CopyConstruct
  <2>1. HasMoved(table, CopyOf(table, DefaultStartingBuckets))
    BY <1>1, SizeSmall, SizesAre, CopyOfIs
  <2> QED BY <1>13, <2>1, MovingStep DEF CopyConstruct
<1>14. CASE CopyAssign
  <2>1. HasMoved(table, CopyOf(table, HT_MIN_BUCKETS))
    BY <1>1, SizeSmall, SizesAre, CopyOfIs
  <2> QED BY <1>14, <2>1, MovingStep DEF CopyAssign
<1>15. CASE UNCHANGED tableVars
  <2>1. table' = table /\ pos' = pos /\ hash' = hash
    BY <1>15 DEF tableVars
  <2>2. TableSound'
    BY <2>1 DEF TableSound
  <2>3. Contents(table)' = Contents(table) /\ Pending' = Pending
    BY <2>1 DEF Pending, Contents, Holding, Live, LiveEntry, DeletedEntry
  <2> QED BY <2>2, <2>3 DEF MapStep
<1> QED BY <1>2, <1>3, <1>4, <1>5, <1>6, <1>7, <1>8, <1>9, <1>10, <1>11, <1>12, <1>13, <1>14, <1>15
        DEF Next

LEMMA InitSound == Init => TableSound /\ Map!Init
<1> SUFFICES ASSUME Init PROVE TableSound /\ Map!Init
  OBVIOUS
<1>1. PICK hint \in Hints : table = Constructed(hint) /\ hash \in Hashes /\ pos = NoPos
  BY DEF Init
<1>2. TableInv(hash, table) /\ table.elements = 0 /\ \A k \in Key : Contents(table)[k] = Nil
  BY <1>1, ConstructedIs
<1>3. TableSound
  <2>1. 0 <= MaxUsed
    BY HashtableAssumption
  <2>2. pos \notin 0..table.n - 1
    BY <1>1, <1>2, TableIs DEF NoPos
  <2> QED BY <1>1, <1>2, <2>1, <2>2 DEF TableSound
<1>4. Contents(table) = [k \in Key |-> Nil]
  <2>1. PICK f : f = Contents(table)
    OBVIOUS
  <2>2. f = [k \in Key |-> f[k]] /\ \A k \in Key : f[k] = Nil
    BY <1>2, <2>1 DEF Contents
  <2>3. f = [k \in Key |-> Nil]
    BY <2>2
  <2> QED BY <2>1, <2>3
<1>5. Pending = {}
  BY <1>1 DEF Pending
<1> QED BY <1>3, <1>4, <1>5 DEF Map!Init, Map!EmptyMap

LEMMA AlwaysSound == Spec => []TableSound
<1>1. Init => TableSound
  BY InitSound
<1>2. TableSound /\ [Next]_tableVars => TableSound'
  BY EveryStep
<1> QED BY <1>1, <1>2, PTL DEF Spec

-----------------------------------------------------------------------------
(* The theorems.                                                           *)

LEMMA SoundAccounted == TableSound => Accounted
<1> SUFFICES ASSUME TableSound PROVE Accounted
  OBVIOUS
<1>1. hash \in Hashes /\ TableInv(hash, table)
  BY DEF TableSound
<1>2. TypeOK
  BY <1>1 DEF TypeOK, TableInv, TableSound
<1>3. ASSUME NEW k \in Key
      PROVE  \E i \in 0..table.n - 1 : TestEmpty(table, Probe(table, k, i))
  <2>1. PICK b \in 0..table.n - 1 : table.bucket[b].key = EmptyKey
    BY <1>1, FreeIs
  <2>2. hash[k] \in Nat /\ table.n \in Sizes
    BY <1>1, HashtableAssumption, TableIs
  <2>3. PICK i \in 0..table.n - 1 : (hash[k] + Triangular(i)) % table.n = b
    BY <2>2, ProbesCover
  <2>4. Probe(table, k, i) = b
    BY <2>3 DEF Probe, Triangular
  <2> QED BY <2>1, <2>4 DEF TestEmpty
<1> QED BY <1>1, <1>2, <1>3 DEF Accounted, TableInv, Tombs

LEMMA SoundLookup == TableSound => LookupAgrees
<1> SUFFICES ASSUME TableSound PROVE LookupAgrees
  OBVIOUS
<1>1. hash \in Hashes /\ TableInv(hash, table)
  BY DEF TableSound
<1> DEFINE L == LiveBuckets(table)
           K == {k \in Key : Count(table, k) = 1}
           f == [b \in L |-> table.bucket[b].key]
<1>2. \A k \in Key : Count(table, k) = 1 <=> Held(table, k) # {}
  BY <1>1, FoundAtIs DEF Count
<1>3. f \in [L -> K]
  <2>1. \A b \in L : table.bucket[b].key \in Key /\ b \in Held(table, table.bucket[b].key)
    BY DEF LiveBuckets, Held
  <2> QED BY <1>2, <2>1
<1>4. \A b, c \in L : f[b] = f[c] => b = c
  <2> SUFFICES ASSUME NEW b \in L, NEW c \in L, f[b] = f[c] PROVE b = c
    OBVIOUS
  <2>1. PICK k \in Key : k = table.bucket[b].key
    BY DEF LiveBuckets
  <2>2. b \in Held(table, k) /\ c \in Held(table, k)
    BY <2>1 DEF LiveBuckets, Held
  <2> QED BY <1>1, <2>2 DEF TableInv
<1>5. \A k \in K : \E b \in L : f[b] = k
  <2> TAKE k \in K
  <2>1. PICK b \in Held(table, k) : TRUE
    BY <1>2
  <2>2. b \in L /\ table.bucket[b].key = k
    BY <2>1 DEF Held, LiveBuckets
  <2> QED BY <2>2
<1>6. IsFiniteSet(L) /\ Size(table) = Cardinality(L)
  BY <1>1, SizeIs
<1>7. Cardinality(K) = Cardinality(L)
  <2> HIDE DEF f, K, L
  <2>1. f \in Bijection(L, K)
    BY <1>3, <1>4, <1>5 DEF Bijection, Injection, Surjection, IsInjective
  <2> QED BY <1>6, <2>1, FS_Bijection DEF ExistsBijection
<1>8. ASSUME NEW k \in Key
      PROVE  /\ Holding(table, k) = IF Count(table, k) = 1 THEN {Bucket(table, k)} ELSE {}
             /\ Find(table, k) = Contents(table)[k]
  <2>1. Holding(table, k) = Held(table, k)
    BY <1>1, HoldingIs
  <2>2. CASE Held(table, k) = {}
    BY <1>1, <1>2, <2>1, <2>2, FindIs
  <2>3. CASE Held(table, k) # {}
    <3>1. Held(table, k) = {FoundAt(table, k)} /\ IsThere(table, k)
      BY <1>1, <2>3, FoundAtIs
    <3> QED BY <1>1, <1>2, <2>1, <3>1, FindIs DEF Bucket
  <2> QED BY <2>2, <2>3
<1> QED BY <1>6, <1>7, <1>8 DEF LookupAgrees

LEMMA SoundExact == TableSound => OperationsExact
<1> SUFFICES ASSUME TableSound PROVE OperationsExact
  OBVIOUS
<1>1. hash \in Hashes /\ TableInv(hash, table) /\ DOMAIN Contents(table) = Key
  BY DEF TableSound, Contents
<1>2. ASSUME NEW k \in Key, table.useDeleted
      PROVE  Contents(Erased(table, k)) = [Contents(table) EXCEPT ![k] = Nil]
  <2>1. HasErased(hash, table, Held(table, k), Erased(table, k))
    BY <1>1, <1>2, ErasedIs
  <2>2. PICK f, g : f = Contents(Erased(table, k)) /\ g = Contents(table)
    OBVIOUS
  <2>3. \A l \in Key : f[l] = IF Held(table, l) \subseteq Held(table, k) THEN Nil ELSE g[l]
    BY <2>1, <2>2 DEF HasErased
  <2>4. ASSUME NEW l \in Key, l # k, Held(table, l) \subseteq Held(table, k)
        PROVE  g[l] = Nil
    <3>1. Held(table, l) = {}
      BY <2>4 DEF Held
    <3> QED BY <1>1, <2>2, <3>1, HoldingIs
  <2>5. \A l \in Key : f[l] = IF l = k THEN Nil ELSE g[l]
    BY <2>3, <2>4
  <2>6. f = [l \in Key |-> f[l]] /\ g = [l \in Key |-> g[l]]
    BY <2>2 DEF Contents
  <2>7. f = [g EXCEPT ![k] = Nil]
    BY <2>5, <2>6
  <2> QED BY <2>2, <2>7
<1>3. ASSUME NEW k \in Key, NEW v \in Val
      PROVE  Contents(Inserted(table, [key |-> k, val |-> v])) =
                 IF Contents(table)[k] = Nil THEN [Contents(table) EXCEPT ![k] = v]
                 ELSE Contents(table)
  <2>1. PICK e \in Entry : e = [key |-> k, val |-> v] /\ e.key = k /\ e.val = v
    <3>1. [key |-> k, val |-> v] \in Entry
      BY DEF Entry
    <3> QED BY <3>1
  <2>2. Contents(Inserted(table, e)) =
            IF Contents(table)[k] = Nil THEN [Contents(table) EXCEPT ![k] = v] ELSE Contents(table)
    BY <1>1, <2>1, Room, InsertedIs
  <2> QED BY <2>1, <2>2
<1>4. ASSUME NEW k \in Key
      PROVE  Contents(Indexed(table, k)) =
                 IF Contents(table)[k] = Nil THEN [Contents(table) EXCEPT ![k] = DefaultVal]
                 ELSE Contents(table)
  BY <1>1, Room, IndexedIs
<1> QED BY <1>2, <1>3, <1>4 DEF OperationsExact

\* The counters of dense_hashtable say what its buckets hold, at most half of
\* them are in use, and every search meets an empty bucket and ends, whatever
\* the hash function and whatever was inserted, erased, resized and copied.
THEOREM AlwaysAccounted == Spec => []Accounted
BY AlwaysSound, SoundAccounted, PTL

\* find, count and bucket of dense_hashtable lead to the one bucket of a key
\* that is there, across deleted buckets and colliding probe sequences, and
\* size() is the number of those keys.
THEOREM AlwaysFound == Spec => []LookupAgrees
BY AlwaysSound, SoundLookup, PTL

\* insert, erase and operator[] of dense_hash_map change the entry of their key
\* alone, although the table is resized and its entries are copied on the way.
THEOREM AlwaysExact == Spec => []OperationsExact
BY AlwaysSound, SoundExact, PTL

\* dense_hash_map implements the finite map, and a traversal that erasures
\* overtake still shows every entry that stays, once: every operation of the
\* table is a step of the map or changes nothing of it.
THEOREM TableImplementsMap == Spec => ImplementsMap
<1>1. Init => Map!Init
  BY InitSound
<1>2. TableSound /\ [Next]_tableVars => [Map!Next]_(Map!mapVars)
  BY EveryStep DEF MapStep, Map!mapVars
<1> QED BY <1>1, <1>2, AlwaysSound, PTL DEF Spec, ImplementsMap, Map!Spec
=============================================================================
