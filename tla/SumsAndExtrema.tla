--------------------------- MODULE SumsAndExtrema ---------------------------
(***************************************************************************)
(* What the proofs about the components need of data: the least and the    *)
(* greatest of a finite set (Min and Max of FiniteSetsExt), rankings       *)
(* without ties, sums over sequences and how they change, and the FIFO     *)
(* inventory: what a purchase adds to it and a sale takes from it.         *)
(***************************************************************************)
EXTENDS FifoInventory, FiniteSetTheorems, FunctionTheorems, SequenceTheorems, TLAPS

\* A function of a finite set has a least value on it.
LEMMA LeastOf ==
  ASSUME NEW S, IsFiniteSet(S), S # {}, NEW f, \A x \in S : f[x] \in Int
  PROVE  \E x \in S : \A y \in S : f[x] <= f[y]
<1> DEFINE below(i) == {j \in S : f[j] < f[i]}
           all == {below(i) : i \in S}
<1>1. \A i \in S : below(i) \in SUBSET S /\ IsFiniteSet(below(i))
  <2> TAKE i \in S
  <2>1. below(i) \in SUBSET S OBVIOUS
  <2> QED BY <2>1, FS_Subset
<1>2. all \subseteq FiniteSubsetsOf(S)
  <2> HIDE DEF below
  <2> QED BY <1>1 DEF FiniteSubsetsOf
<1>3. IsWellFoundedOn(StrictSubsetOrdering(S), FiniteSubsetsOf(S)) BY FS_StrictSubsetOrderingWellFounded
<1>4. \E x \in all : \A y \in all : ~ (<<y, x>> \in StrictSubsetOrdering(S))
  <2>1. all # {} OBVIOUS
  <2> HIDE DEF all
  <2> QED BY <1>2, <1>3, <2>1, WFMin
<1>5. PICK i \in S : \A j \in S : ~ (<<below(j), below(i)>> \in StrictSubsetOrdering(S)) BY <1>4
<1>6. ASSUME NEW j \in S, f[j] < f[i] PROVE FALSE
  <2>1. f[i] \in Int /\ f[j] \in Int OBVIOUS
  <2>2. \A k \in below(j) : k \in below(i)
    <3> TAKE k \in below(j)
    <3>1. k \in S /\ f[k] \in Int /\ f[k] < f[j] OBVIOUS
    <3> QED BY <1>6, <2>1, <3>1
  <2>3. j \in below(i) /\ j \notin below(j) BY <1>6, <2>1
  <2>4. below(i) \in SUBSET S /\ below(j) \in SUBSET S OBVIOUS
  <2>5. <<below(j), below(i)>> \in StrictSubsetOrdering(S)
    <3> HIDE DEF below
    <3> QED BY <2>2, <2>3, <2>4 DEF StrictSubsetOrdering
  <2> QED BY <1>5, <2>5
<1>7. ASSUME NEW y \in S PROVE f[i] <= f[y]
  <2>1. f[i] \in Int /\ f[y] \in Int /\ ~ (f[y] < f[i]) BY <1>6
  <2> QED BY <2>1
<1> QED BY <1>7

\* The least of a finite set of numbers.
LEMMA MinIsLeast ==
  ASSUME NEW S \in SUBSET Int, IsFiniteSet(S), S # {}
  PROVE  Min(S) \in S /\ \A y \in S : Min(S) <= y
<1> DEFINE f == [x \in S |-> x]
<1>1. \A x \in S : f[x] \in Int OBVIOUS
<1>2. PICK x \in S : \A y \in S : f[x] <= f[y]
  <2> HIDE DEF f
  <2> QED BY <1>1, LeastOf
<1>3. \A y \in S : x <= y BY <1>2
<1> QED BY <1>3 DEF Min

\* The greatest of a finite set of numbers.
LEMMA MaxIsGreatest ==
  ASSUME NEW S \in SUBSET Int, IsFiniteSet(S), S # {}
  PROVE  Max(S) \in S /\ \A y \in S : Max(S) >= y
<1> DEFINE f == [x \in S |-> - x]
<1>1. \A x \in S : f[x] \in Int OBVIOUS
<1>2. PICK x \in S : \A y \in S : f[x] <= f[y]
  <2> HIDE DEF f
  <2> QED BY <1>1, LeastOf
<1>3. \A y \in S : x >= y
  <2> TAKE y \in S
  <2>1. - x <= - y /\ x \in Int /\ y \in Int BY <1>2
  <2> QED BY <2>1
<1> QED BY <1>3 DEF Max

\* Different ranks up to the number of members leave none out.
LEMMA RanksAreTaken ==
  ASSUME NEW S, IsFiniteSet(S), NEW f \in [S -> 1 .. Cardinality(S)],
         \A x, y \in S : f[x] = f[y] => x = y
  PROVE  \A i \in 1 .. Cardinality(S) : \E x \in S : f[x] = i
<1> DEFINE N == Cardinality(S)
           T == 1 .. N
<1>1. N \in Nat BY FS_CardinalityType
<1>2. IsFiniteSet(T) /\ Cardinality(T) = N
  <2>1. 1 \in Int /\ N \in Int BY <1>1
  <2> HIDE DEF N
  <2>2. IsFiniteSet(1 .. N) /\ Cardinality(1 .. N) = IF 1 > N THEN 0 ELSE N - 1 + 1 BY <2>1, FS_Interval
  <2> QED BY <1>1, <2>2
<1>3. f \in [S -> T] OBVIOUS
<1>4. Cardinality(S) = Cardinality(T) BY <1>2
<1> HIDE DEF N, T
<1>5. f \in Injection(S, T) BY <1>3, Fun_IsInj
<1>6. f \in Surjection(S, T) BY <1>2, <1>4, <1>5, FS_Injection
<1>7. \A i \in T : \E x \in S : f[x] = i BY <1>6 DEF Surjection
<1> QED BY <1>7 DEF T, N

\* A set with one member for each of the first n ranks has n members.
LEMMA RanksCount ==
  ASSUME NEW S, NEW n \in Nat, NEW f \in [S -> 1 .. n],
         \A x, y \in S : f[x] = f[y] => x = y, \A i \in 1 .. n : \E x \in S : f[x] = i
  PROVE  Cardinality(S) = n
<1> DEFINE T == 1 .. n
<1>1. IsFiniteSet(T) /\ Cardinality(T) = n
  <2>1. 1 \in Int /\ n \in Int OBVIOUS
  <2>2. IsFiniteSet(1 .. n) /\ Cardinality(1 .. n) = IF 1 > n THEN 0 ELSE n - 1 + 1 BY <2>1, FS_Interval
  <2> QED BY <2>2
<1>2. f \in [S -> T] /\ \A i \in T : \E x \in S : f[x] = i OBVIOUS
<1> HIDE DEF T
<1>3. f \in Injection(S, T) BY <1>2, Fun_IsInj
<1>4. f \in Surjection(S, T) BY <1>2, Fun_IsSurj
<1>5. Cardinality(S) = Cardinality(T) BY <1>1, <1>3, <1>4, FS_Injection
<1> QED BY <1>1, <1>5

\* The place of a member in the order of the keys.
RankOf(S, f, x) == Cardinality({y \in S : f[y] <= f[x]})

\* The members of a finite set that have different keys are ranked by them.
LEMMA RanksByKey ==
  ASSUME NEW S, IsFiniteSet(S), NEW f, \A x \in S : f[x] \in Int,
         \A x, y \in S : f[x] = f[y] => x = y
  PROVE  /\ \A x \in S : RankOf(S, f, x) \in 1 .. Cardinality(S)
         /\ \A x, y \in S : f[x] < f[y] => RankOf(S, f, x) < RankOf(S, f, y)
         /\ \A i \in 1 .. Cardinality(S) : \E x \in S : RankOf(S, f, x) = i
<1> DEFINE N == Cardinality(S)
           upTo(x) == {y \in S : f[y] <= f[x]}
           g == [x \in S |-> Cardinality(upTo(x))]
<1>1. N \in Nat BY FS_CardinalityType
<1>2. \A x \in S : upTo(x) \in SUBSET S /\ x \in upTo(x) OBVIOUS
<1>3. \A x \in S : IsFiniteSet(upTo(x)) /\ Cardinality(upTo(x)) \in 1 .. N
  <2> TAKE x \in S
  <2>1. upTo(x) \in SUBSET S /\ upTo(x) # {} BY <1>2
  <2> HIDE DEF upTo, N
  <2>2. IsFiniteSet(upTo(x)) /\ Cardinality(upTo(x)) <= N BY <2>1, FS_Subset DEF N
  <2>3. Cardinality(upTo(x)) \in Nat /\ Cardinality(upTo(x)) # 0
    BY <2>1, <2>2, FS_CardinalityType, FS_EmptySet
  <2> QED BY <1>1, <2>2, <2>3
<1>4. ASSUME NEW x \in S, NEW y \in S, f[x] < f[y]
      PROVE  Cardinality(upTo(x)) < Cardinality(upTo(y))
  <2>1. f[x] \in Int /\ f[y] \in Int OBVIOUS
  <2>2. upTo(x) \in SUBSET upTo(y)
    <3>1. \A z \in S : f[z] \in Int OBVIOUS
    <3> QED BY <1>4, <2>1, <3>1
  <2>3. y \in upTo(y) /\ y \notin upTo(x) BY <1>4, <2>1
  <2>4. IsFiniteSet(upTo(y)) /\ Cardinality(upTo(y)) \in Nat /\ Cardinality(upTo(x)) \in Nat
    BY <1>1, <1>3
  <2> HIDE DEF upTo
  <2>5. /\ Cardinality(upTo(x)) <= Cardinality(upTo(y))
        /\ Cardinality(upTo(y)) = Cardinality(upTo(x)) => upTo(y) = upTo(x) BY <2>2, <2>4, FS_Subset
  <2>6. Cardinality(upTo(y)) # Cardinality(upTo(x)) BY <2>3, <2>5
  <2> QED BY <2>4, <2>5, <2>6
<1>5. g \in [S -> 1 .. N] BY <1>3
<1>6. \A x, y \in S : g[x] = g[y] => x = y
  <2> SUFFICES ASSUME NEW x \in S, NEW y \in S, g[x] = g[y] PROVE x = y OBVIOUS
  <2>1. g[x] = Cardinality(upTo(x)) /\ g[y] = Cardinality(upTo(y)) OBVIOUS
  <2>2. Cardinality(upTo(x)) \in 1 .. N /\ Cardinality(upTo(y)) \in 1 .. N BY <1>3
  <2>3. f[x] \in Int /\ f[y] \in Int OBVIOUS
  <2> HIDE DEF g, upTo, N
  <2>4. ~ (f[x] < f[y]) /\ ~ (f[y] < f[x])
    <3>1. ~ (Cardinality(upTo(x)) < Cardinality(upTo(y))) /\ ~ (Cardinality(upTo(y)) < Cardinality(upTo(x)))
      <4> DEFINE a == Cardinality(upTo(x))
                 b == Cardinality(upTo(y))
      <4>1. a = b BY <2>1
      <4>2. a \in Int
        <5>1. a \in 1 .. N BY <2>2
        <5> HIDE DEF a
        <5> QED BY <1>1, <5>1
      <4> HIDE DEF a, b
      <4>3. ~ (a < b) /\ ~ (b < a) BY <4>1, <4>2
      <4> QED BY <4>3 DEF a, b
    <3> QED BY <1>4, <3>1
  <2>5. f[x] = f[y] BY <2>3, <2>4
  <2> QED BY <2>5
<1>7. \A i \in 1 .. N : \E x \in S : g[x] = i
  <2> HIDE DEF g
  <2> QED BY <1>5, <1>6, RanksAreTaken
<1>8. \A i \in 1 .. N : \E x \in S : Cardinality(upTo(x)) = i BY <1>7
<1>9. \A x : RankOf(S, f, x) = Cardinality(upTo(x)) BY DEF RankOf
<1> HIDE DEF upTo, g
<1> QED BY <1>3, <1>4, <1>8, <1>9

\* A relation without cycles has a member that nothing comes before.
LEMMA FirstOf ==
  ASSUME NEW S, IsFiniteSet(S), S # {}, NEW R,
         \A x \in S : <<x, x>> \notin R,
         \A x, y, z \in S : <<x, y>> \in R /\ <<y, z>> \in R => <<x, z>> \in R
  PROVE  \E x \in S : \A y \in S : <<y, x>> \notin R
<1> DEFINE below(i) == {j \in S : <<j, i>> \in R}
           all == {below(i) : i \in S}
<1>1. \A i \in S : below(i) \in SUBSET S /\ IsFiniteSet(below(i))
  <2> TAKE i \in S
  <2>1. below(i) \in SUBSET S OBVIOUS
  <2> QED BY <2>1, FS_Subset
<1>2. all \subseteq FiniteSubsetsOf(S)
  <2> HIDE DEF below
  <2> QED BY <1>1 DEF FiniteSubsetsOf
<1>3. IsWellFoundedOn(StrictSubsetOrdering(S), FiniteSubsetsOf(S)) BY FS_StrictSubsetOrderingWellFounded
<1>4. \E x \in all : \A y \in all : ~ (<<y, x>> \in StrictSubsetOrdering(S))
  <2>1. all # {}
    <3>1. PICK x \in S : TRUE OBVIOUS
    <3>2. below(x) \in all OBVIOUS
    <3> QED BY <3>2
  <2> HIDE DEF all
  <2> QED BY <1>2, <1>3, <2>1, WFMin
<1>5. PICK i \in S : \A j \in S : ~ (<<below(j), below(i)>> \in StrictSubsetOrdering(S))
  <2>1. PICK x \in all : \A y \in all : ~ (<<y, x>> \in StrictSubsetOrdering(S)) BY <1>4
  <2>2. PICK i \in S : x = below(i) BY <2>1
  <2>3. \A j \in S : below(j) \in all OBVIOUS
  <2> HIDE DEF all, below
  <2> QED BY <2>1, <2>2, <2>3
<1>6. ASSUME NEW j \in S, <<j, i>> \in R PROVE FALSE
  <2>1. \A k \in below(j) : k \in below(i) BY <1>6
  <2>2. j \in below(i) /\ j \notin below(j) BY <1>6
  <2>3. below(i) \in SUBSET S /\ below(j) \in SUBSET S OBVIOUS
  <2>4. <<below(j), below(i)>> \in StrictSubsetOrdering(S)
    <3> HIDE DEF below
    <3> QED BY <2>1, <2>2, <2>3 DEF StrictSubsetOrdering
  <2> QED BY <1>5, <2>4
<1> QED BY <1>6

\* What holds of 0, and of the next number after each that it holds of, holds of all.
LEMMA CountUp ==
  ASSUME NEW S, 0 \in S, \A k \in Nat : k \in S => k + 1 \in S
  PROVE  \A n \in Nat : n \in S
<1> SUFFICES ASSUME NEW n \in Nat, n \notin S PROVE FALSE OBVIOUS
<1> DEFINE out == {k \in 0 .. n : k \notin S}
           id == [k \in out |-> k]
<1>1. IsFiniteSet(out)
  <2>1. 0 \in Int /\ n \in Int OBVIOUS
  <2>2. IsFiniteSet(0 .. n) BY <2>1, FS_Interval
  <2>3. out \subseteq 0 .. n OBVIOUS
  <2> HIDE DEF out
  <2> QED BY <2>2, <2>3, FS_Subset
<1>2. out # {} /\ \A k \in out : id[k] \in Int OBVIOUS
<1>3. PICK m \in out : \A k \in out : id[m] <= id[k]
  <2> HIDE DEF out, id
  <2> QED BY <1>1, <1>2, LeastOf
<1>4. m # 0 /\ m - 1 \in Nat /\ m - 1 \notin S /\ m - 1 \in out OBVIOUS
<1> QED BY <1>3, <1>4
-----------------------------------------------------------------------------
(* Sums and the FIFO queue of FifoInventory. *)

\* Slices that any kind of lot acquired, none of them empty.
FifoSlices(L) == [lot : L, price : Nat \ {0}, qty : Nat \ {0}]

IsTotal(f, s, n) == f = [k \in 0..n |-> IF k = 0 THEN 0 ELSE f[k - 1] + s[k]]

\* The recursion of SumTo defines a function.
LEMMA TotalExists ==
  ASSUME NEW s, NEW n \in Nat PROVE \E f : IsTotal(f, s, n)
<1> DEFINE S == {m \in Nat : \E f : IsTotal(f, s, m)}
<1>1. 0 \in S
  <2>1. IsTotal([k \in 0..0 |-> 0], s, 0) BY DEF IsTotal
  <2> QED BY <2>1
<1>2. ASSUME NEW m \in Nat, m \in S PROVE m + 1 \in S
  <2>1. PICK f : IsTotal(f, s, m) BY <1>2
  <2> DEFINE g == [k \in 0..(m + 1) |-> IF k <= m THEN f[k] ELSE f[m] + s[m + 1]]
  <2>2. IsTotal(g, s, m + 1)
    <3>1. \A k \in 0..m : f[k] = IF k = 0 THEN 0 ELSE f[k - 1] + s[k] BY <2>1 DEF IsTotal
    <3>2. \A k \in 0..(m + 1) : g[k] = IF k = 0 THEN 0 ELSE g[k - 1] + s[k]
      <4> TAKE k \in 0..(m + 1)
      <4>1. CASE k <= m
        <5>1. k \in 0..m /\ (k # 0 => k - 1 \in 0 .. (m + 1) /\ k - 1 <= m) BY <4>1
        <5> QED BY <5>1, <3>1
      <4>2. CASE k = m + 1
        <5>1. k # 0 /\ k - 1 = m /\ ~ (k <= m) /\ m \in 0 .. (m + 1) /\ m <= m BY <4>2
        <5> QED BY <5>1, <4>2
      <4> QED BY <4>1, <4>2
    <3> HIDE DEF g
    <3>3. g = [k \in 0..(m + 1) |-> g[k]] BY DEF g
    <3> QED BY <3>2, <3>3 DEF IsTotal
  <2> QED BY <2>2
<1> HIDE DEF S
<1>3. n \in S BY <1>1, <1>2, CountUp
<1> QED BY <1>3 DEF S

\* A sum is the value of the one function of running totals.
LEMMA SumIs ==
  ASSUME NEW s, NEW n \in Nat PROVE \E f : IsTotal(f, s, n) /\ SumTo(s, n) = f[n]
<1> DEFINE h == CHOOSE f : f = [k \in 0..n |-> IF k = 0 THEN 0 ELSE f[k - 1] + s[k]]
<1>1. IsTotal(h, s, n) BY TotalExists DEF IsTotal
<1>2. SumTo(s, n) = h[n] BY DEF SumTo
<1> QED BY <1>1, <1>2

\* Running totals of different lengths agree as far as both go.
LEMMA TotalsAgree ==
  ASSUME NEW s, NEW n \in Nat, NEW m \in Nat, n <= m, NEW f, NEW g, IsTotal(f, s, n), IsTotal(g, s, m)
  PROVE  f[n] = g[n]
<1> DEFINE S == {k \in Nat : k <= n => f[k] = g[k]}
<1>1. /\ \A k \in 0..n : f[k] = IF k = 0 THEN 0 ELSE f[k - 1] + s[k]
      /\ \A k \in 0..m : g[k] = IF k = 0 THEN 0 ELSE g[k - 1] + s[k]
  BY DEF IsTotal
<1>2. 0 \in S BY <1>1
<1>3. ASSUME NEW k \in Nat, k \in S PROVE k + 1 \in S
  <2> SUFFICES ASSUME k + 1 <= n PROVE f[k + 1] = g[k + 1] OBVIOUS
  <2>1. k + 1 \in 0..n /\ k + 1 \in 0..m /\ k + 1 # 0 /\ (k + 1) - 1 = k /\ f[k] = g[k] BY <1>3
  <2> QED BY <1>1, <2>1
<1> HIDE DEF S
<1>4. n \in S BY <1>2, <1>3, CountUp
<1> QED BY <1>4 DEF S

\* The sum of no value, and of one value more.
LEMMA SumStep ==
  ASSUME NEW s
  PROVE  /\ SumTo(s, 0) = 0
         /\ \A n \in Nat : SumTo(s, n + 1) = SumTo(s, n) + s[n + 1]
<1>1. SumTo(s, 0) = 0
  <2>1. PICK f : IsTotal(f, s, 0) /\ SumTo(s, 0) = f[0] BY SumIs
  <2> QED BY <2>1 DEF IsTotal
<1>2. ASSUME NEW n \in Nat PROVE SumTo(s, n + 1) = SumTo(s, n) + s[n + 1]
  <2>1. PICK f : IsTotal(f, s, n) /\ SumTo(s, n) = f[n] BY SumIs
  <2>2. PICK g : IsTotal(g, s, n + 1) /\ SumTo(s, n + 1) = g[n + 1] BY SumIs
  <2>3. f[n] = g[n]
    <3>1. n + 1 \in Nat /\ n <= n + 1 OBVIOUS
    <3> QED BY <2>1, <2>2, <3>1, TotalsAgree
  <2>4. g[n + 1] = g[n] + s[n + 1]
    <3>1. \A k \in 0..(n + 1) : g[k] = IF k = 0 THEN 0 ELSE g[k - 1] + s[k] BY <2>2 DEF IsTotal
    <3>2. n + 1 \in 0 .. (n + 1) /\ n + 1 # 0 /\ (n + 1) - 1 = n OBVIOUS
    <3> QED BY <3>1, <3>2
  <2> QED BY <2>1, <2>2, <2>3, <2>4
<1> QED BY <1>1, <1>2

\* A sum of integers is one.
LEMMA SumIsInt ==
  ASSUME NEW s, NEW n \in Nat, \A i \in 1..n : s[i] \in Int
  PROVE  SumTo(s, n) \in Int
<1> DEFINE S == {k \in Nat : k <= n => SumTo(s, k) \in Int}
<1>1. 0 \in S BY SumStep
<1>2. ASSUME NEW k \in Nat, k \in S PROVE k + 1 \in S
  <2> SUFFICES ASSUME k + 1 <= n PROVE SumTo(s, k + 1) \in Int OBVIOUS
  <2>1. k + 1 \in 1..n /\ SumTo(s, k) \in Int BY <1>2
  <2>2. SumTo(s, k + 1) = SumTo(s, k) + s[k + 1] BY SumStep
  <2> QED BY <2>1, <2>2
<1> HIDE DEF S
<1>3. n \in S BY <1>1, <1>2, CountUp
<1> QED BY <1>3 DEF S

\* Equal values have equal sums.
LEMMA SumOfSame ==
  ASSUME NEW s, NEW t, NEW n \in Nat, \A i \in 1..n : s[i] = t[i]
  PROVE  SumTo(s, n) = SumTo(t, n)
<1> DEFINE S == {k \in Nat : k <= n => SumTo(s, k) = SumTo(t, k)}
<1>1. 0 \in S BY SumStep
<1>2. ASSUME NEW k \in Nat, k \in S PROVE k + 1 \in S
  <2> SUFFICES ASSUME k + 1 <= n PROVE SumTo(s, k + 1) = SumTo(t, k + 1) OBVIOUS
  <2>1. s[k + 1] = t[k + 1] /\ SumTo(s, k) = SumTo(t, k) BY <1>2
  <2>2. SumTo(s, k + 1) = SumTo(s, k) + s[k + 1] /\ SumTo(t, k + 1) = SumTo(t, k) + t[k + 1] BY SumStep
  <2> QED BY <2>1, <2>2
<1> HIDE DEF S
<1>3. n \in S BY <1>1, <1>2, CountUp
<1> QED BY <1>3 DEF S

\* The sum of differences.
LEMMA SumOfDifferences ==
  ASSUME NEW s, NEW t, NEW u, NEW n \in Nat,
         \A i \in 1..n : s[i] \in Int /\ t[i] \in Int /\ u[i] = s[i] - t[i]
  PROVE  SumTo(u, n) = SumTo(s, n) - SumTo(t, n)
<1> DEFINE S == {k \in Nat : k <= n => SumTo(s, k) \in Int /\ SumTo(t, k) \in Int /\ SumTo(u, k) = SumTo(s, k) - SumTo(t, k)}
<1>1. 0 \in S BY SumStep
<1>2. ASSUME NEW k \in Nat, k \in S PROVE k + 1 \in S
  <2> SUFFICES ASSUME k + 1 <= n
               PROVE  SumTo(s, k + 1) \in Int /\ SumTo(t, k + 1) \in Int
                      /\ SumTo(u, k + 1) = SumTo(s, k + 1) - SumTo(t, k + 1)
    OBVIOUS
  <2>1. /\ s[k + 1] \in Int /\ t[k + 1] \in Int /\ u[k + 1] = s[k + 1] - t[k + 1]
        /\ SumTo(s, k) \in Int /\ SumTo(t, k) \in Int /\ SumTo(u, k) = SumTo(s, k) - SumTo(t, k)
    BY <1>2
  <2>2. /\ SumTo(s, k + 1) = SumTo(s, k) + s[k + 1] /\ SumTo(t, k + 1) = SumTo(t, k) + t[k + 1]
        /\ SumTo(u, k + 1) = SumTo(u, k) + u[k + 1]
    BY SumStep
  <2> QED BY <2>1, <2>2
<1> HIDE DEF S
<1>3. n \in S BY <1>1, <1>2, CountUp
<1> QED BY <1>3 DEF S

\* The n values of t follow the first m of s.
Follow(s, t, m, n, all) ==
    /\ m \in Nat /\ n \in Nat /\ all = m + n
    /\ \A i \in 1..all : s[i] \in Int
    /\ \A i \in 1..n : t[i] = s[m + i]

\* A sum in two parts.
LEMMA SumInParts ==
  ASSUME NEW s, NEW t, NEW m, NEW n, NEW all, Follow(s, t, m, n, all)
  PROVE  SumTo(s, all) = SumTo(s, m) + SumTo(t, n)
<1> USE DEF Follow
<1> DEFINE S == {k \in Nat : k <= n => SumTo(s, m) \in Int /\ SumTo(t, k) \in Int /\ SumTo(s, m + k) = SumTo(s, m) + SumTo(t, k)}
<1>1. 0 \in S
  <2>1. \A i \in 1..m : s[i] \in Int OBVIOUS
  <2>2. SumTo(s, m) \in Int BY <2>1, SumIsInt
  <2>3. SumTo(t, 0) = 0 /\ m + 0 = m BY SumStep
  <2> QED BY <2>2, <2>3
<1>2. ASSUME NEW k \in Nat, k \in S PROVE k + 1 \in S
  <2> SUFFICES ASSUME k + 1 <= n
               PROVE  SumTo(s, m) \in Int /\ SumTo(t, k + 1) \in Int
                      /\ SumTo(s, m + (k + 1)) = SumTo(s, m) + SumTo(t, k + 1)
    OBVIOUS
  <2>1. /\ s[m + (k + 1)] \in Int /\ t[k + 1] = s[m + (k + 1)]
        /\ SumTo(s, m) \in Int /\ SumTo(t, k) \in Int /\ SumTo(s, m + k) = SumTo(s, m) + SumTo(t, k)
    BY <1>2
  <2>2. m + (k + 1) = (m + k) + 1 /\ m + k \in Nat OBVIOUS
  <2>3. SumTo(s, (m + k) + 1) = SumTo(s, m + k) + s[(m + k) + 1] /\ SumTo(t, k + 1) = SumTo(t, k) + t[k + 1]
    BY <2>2, SumStep
  <2> QED BY <2>1, <2>2, <2>3
<1> HIDE DEF S
<1>3. n \in S BY <1>1, <1>2, CountUp
<1> QED BY <1>3 DEF S

\* One value changes.
LEMMA SumOfUpdate ==
  ASSUME NEW s, NEW t, NEW n \in Nat, NEW j \in 1..n,
         \A i \in 1..n : s[i] \in Int /\ t[i] \in Int /\ (i # j => t[i] = s[i])
  PROVE  SumTo(t, n) = SumTo(s, n) + t[j] - s[j]
<1> DEFINE S == {k \in Nat : k <= n => /\ SumTo(s, k) \in Int
                                       /\ SumTo(t, k) = IF k < j THEN SumTo(s, k) ELSE SumTo(s, k) + t[j] - s[j]}
<1>1. 0 \in S BY SumStep
<1>2. ASSUME NEW k \in Nat, k \in S PROVE k + 1 \in S
  <2> SUFFICES ASSUME k + 1 <= n
               PROVE  /\ SumTo(s, k + 1) \in Int
                      /\ SumTo(t, k + 1) = IF k + 1 < j THEN SumTo(s, k + 1) ELSE SumTo(s, k + 1) + t[j] - s[j]
    OBVIOUS
  <2>1. /\ k + 1 \in 1..n /\ s[k + 1] \in Int /\ t[k + 1] \in Int /\ (k + 1 # j => t[k + 1] = s[k + 1])
        /\ s[j] \in Int /\ t[j] \in Int /\ j \in Int
        /\ SumTo(s, k) \in Int /\ SumTo(t, k) = IF k < j THEN SumTo(s, k) ELSE SumTo(s, k) + t[j] - s[j]
    BY <1>2
  <2>2. SumTo(s, k + 1) = SumTo(s, k) + s[k + 1] /\ SumTo(t, k + 1) = SumTo(t, k) + t[k + 1] BY SumStep
  <2>3. CASE k + 1 = j BY <2>1, <2>2, <2>3
  <2>4. CASE k + 1 # j BY <2>1, <2>2, <2>4
  <2> QED BY <2>3, <2>4
<1> HIDE DEF S
<1>3. n \in S BY <1>1, <1>2, CountUp
<1>4. ~ (n < j) OBVIOUS
<1> QED BY <1>3, <1>4 DEF S

\* Sums of numbers that are not negative grow.
LEMMA SumGrows ==
  ASSUME NEW s, NEW n \in Nat, \A i \in 1..n : s[i] \in Int /\ s[i] >= 0
  PROVE  \A k, m \in 0..n : k <= m => SumTo(s, k) <= SumTo(s, m)
<1> SUFFICES ASSUME NEW k \in 0..n PROVE \A m \in 0..n : k <= m => SumTo(s, k) <= SumTo(s, m) OBVIOUS
<1> DEFINE S == {m \in Nat : m <= n /\ k <= m => SumTo(s, k) <= SumTo(s, m)}
<1>0. \A m \in 0..n : SumTo(s, m) \in Int
  <2> TAKE m \in 0..n
  <2>1. m \in Nat /\ \A i \in 1..m : s[i] \in Int OBVIOUS
  <2> QED BY <2>1, SumIsInt
<1>1. 0 \in S BY <1>0
<1>2. ASSUME NEW m \in Nat, m \in S PROVE m + 1 \in S
  <2> SUFFICES ASSUME m + 1 <= n, k <= m + 1 PROVE SumTo(s, k) <= SumTo(s, m + 1) OBVIOUS
  <2>1. CASE k = m + 1 BY <2>1, <1>0
  <2>2. CASE k <= m
    <3>1. SumTo(s, k) <= SumTo(s, m) BY <1>2, <2>2
    <3>2. SumTo(s, m + 1) = SumTo(s, m) + s[m + 1] BY SumStep
    <3>3. m + 1 \in 1..n /\ m \in 0..n OBVIOUS
    <3>4. s[m + 1] \in Int /\ s[m + 1] >= 0 /\ SumTo(s, m) \in Int /\ SumTo(s, k) \in Int BY <3>3, <1>0
    <3> QED BY <3>1, <3>2, <3>4
  <2> QED BY <2>1, <2>2
<1> HIDE DEF S
<1>3. \A m \in Nat : m \in S BY <1>1, <1>2, CountUp
<1> QED BY <1>3 DEF S

\* A sum of nothing but zeros.
LEMMA SumOfZeros ==
  ASSUME NEW s, NEW n \in Nat, \A i \in 1..n : s[i] = 0
  PROVE  SumTo(s, n) = 0
<1> DEFINE S == {k \in Nat : k <= n => SumTo(s, k) = 0}
<1>1. 0 \in S BY SumStep
<1>2. ASSUME NEW k \in Nat, k \in S PROVE k + 1 \in S
  <2> SUFFICES ASSUME k + 1 <= n PROVE SumTo(s, k + 1) = 0 OBVIOUS
  <2>1. s[k + 1] = 0 /\ SumTo(s, k) = 0 BY <1>2
  <2>2. SumTo(s, k + 1) = SumTo(s, k) + s[k + 1] BY SumStep
  <2> QED BY <2>1, <2>2
<1> HIDE DEF S
<1>3. n \in S BY <1>1, <1>2, CountUp
<1> QED BY <1>3 DEF S

\* The units in front of a slice.
LEMMA HeldSteps ==
  ASSUME NEW L, NEW slices \in Seq(FifoSlices(L))
  PROVE  /\ Len(slices) \in Nat /\ DOMAIN slices = 1..Len(slices)
         /\ \A i \in 1..Len(slices) : slices[i].price \in Nat \ {0} /\ slices[i].qty \in Nat \ {0}
         /\ HeldBefore(slices, 0) = 0
         /\ \A i \in 0..Len(slices) : HeldBefore(slices, i) \in Nat
         /\ \A i \in 1..Len(slices) : HeldBefore(slices, i) = HeldBefore(slices, i - 1) + slices[i].qty
         /\ \A i, j \in 0..Len(slices) : i <= j => HeldBefore(slices, i) <= HeldBefore(slices, j)
<1> DEFINE q == [i \in DOMAIN slices |-> slices[i].qty]
           n == Len(slices)
<1>1. n \in Nat /\ DOMAIN slices = 1..n OBVIOUS
<1>2. \A i \in 1..n : slices[i] \in FifoSlices(L) BY <1>1
<1>3. \A i \in 1..n : slices[i].price \in Nat \ {0} /\ slices[i].qty \in Nat \ {0} BY <1>2 DEF FifoSlices
<1>4. \A i \in 1..n : q[i] = slices[i].qty /\ q[i] \in Int /\ q[i] >= 0 BY <1>1, <1>3
<1>5. \A i \in Nat : HeldBefore(slices, i) = SumTo(q, i) BY DEF HeldBefore
<1> HIDE DEF q, n
<1>6. SumTo(q, 0) = 0 /\ \A i \in Nat : SumTo(q, i + 1) = SumTo(q, i) + q[i + 1] BY SumStep
<1>7. \A i, j \in 0..n : i <= j => SumTo(q, i) <= SumTo(q, j) BY <1>1, <1>4, SumGrows
<1>8. ASSUME NEW i \in 0..n PROVE SumTo(q, i) \in Nat
  <2>1. i \in Nat /\ \A k \in 1..i : q[k] \in Int BY <1>1, <1>4
  <2>2. SumTo(q, i) \in Int BY <2>1, SumIsInt
  <2>3. 0 \in 0..n /\ 0 <= i BY <1>1
  <2>4. SumTo(q, 0) <= SumTo(q, i) BY <1>7, <2>3
  <2> QED BY <1>6, <2>2, <2>4
<1>9. ASSUME NEW i \in 1..n PROVE SumTo(q, i) = SumTo(q, i - 1) + slices[i].qty
  <2>1. i - 1 \in Nat /\ (i - 1) + 1 = i BY <1>1
  <2>2. SumTo(q, (i - 1) + 1) = SumTo(q, i - 1) + q[(i - 1) + 1] BY <1>6, <2>1
  <2> QED BY <1>4, <2>1, <2>2
<1>10. \A i \in 0..n : i \in Nat /\ HeldBefore(slices, i) = SumTo(q, i) BY <1>1, <1>5
<1>11. \A i \in 1..n : i \in 0..n /\ i - 1 \in 0..n BY <1>1
<1>12. 0 \in 0..n BY <1>1
<1> QED BY <1>1, <1>3, <1>6, <1>7, <1>8, <1>9, <1>10, <1>11, <1>12 DEF n

\* The lesser and the greater of two.
LEMMA OfTwo ==
  ASSUME NEW a \in Int, NEW b \in Int
  PROVE  Min({a, b}) = (IF a <= b THEN a ELSE b) /\ Max({a, b}) = (IF a <= b THEN b ELSE a)
<1> DEFINE S == {a, b}
<1>1. IsFiniteSet({a}) /\ {a, b} = {a} \cup {b}
  <2>1. {} \cup {a} = {a} OBVIOUS
  <2> QED BY <2>1, FS_EmptySet, FS_AddElement
<1>2. IsFiniteSet(S) BY <1>1, FS_AddElement
<1>3. S \in SUBSET Int /\ S # {} OBVIOUS
<1>4. Min(S) \in S /\ (\A y \in S : Min(S) <= y) /\ Max(S) \in S /\ (\A y \in S : Max(S) >= y)
  <2> HIDE DEF S
  <2> QED BY <1>2, <1>3, MinIsLeast, MaxIsGreatest
<1> QED BY <1>4

\* What a sale takes of a slice.
LEMMA TakenIs ==
  ASSUME NEW L, NEW slices \in Seq(FifoSlices(L)), NEW qty \in Nat, NEW i \in 1..Len(slices)
  PROVE  Taken(slices, qty, i) =
            IF HeldBefore(slices, i) <= qty THEN slices[i].qty
            ELSE IF HeldBefore(slices, i - 1) >= qty THEN 0 ELSE qty - HeldBefore(slices, i - 1)
<1> DEFINE held == HeldBefore(slices, i - 1)
           upto == HeldBefore(slices, i)
           q == slices[i].qty
           most == Max({0, qty - held})
<1>0. i \in Nat /\ i - 1 \in 0..Len(slices) /\ i \in 0..Len(slices) BY HeldSteps
<1>1. held \in Nat /\ q \in Nat /\ upto = held + q BY <1>0, HeldSteps
<1>5. Taken(slices, qty, i) = Min({q, most}) BY DEF Taken
<1> HIDE DEF held, q, upto
<1>2. most = IF held >= qty THEN 0 ELSE qty - held
  <2>1. qty - held \in Int /\ 0 \in Int BY <1>1
  <2>2. most = IF 0 <= qty - held THEN qty - held ELSE 0 BY <2>1, OfTwo
  <2> QED BY <1>1, <2>2
<1> HIDE DEF most
<1>3. most \in Int /\ q \in Int BY <1>1, <1>2
<1>4. Min({q, most}) = IF q <= most THEN q ELSE most BY <1>3, OfTwo
<1>6. Taken(slices, qty, i) = IF upto <= qty THEN q ELSE IF held >= qty THEN 0 ELSE qty - held
  BY <1>1, <1>2, <1>4, <1>5
<1> QED BY <1>6 DEF held, q, upto

\* The slices a sale exhausts, and those it does not.
LEMMA ExhaustedIs ==
  ASSUME NEW L, NEW slices \in Seq(FifoSlices(L)), NEW qty \in Nat
  PROVE  LET n == Exhausted(slices, qty)
         IN  /\ n \in 0..Len(slices)
             /\ \A i \in 1..Len(slices) : i <= n <=> HeldBefore(slices, i) <= qty
<1> DEFINE S == {n \in 0..Len(slices) : HeldBefore(slices, n) <= qty}
           n == Exhausted(slices, qty)
<1>1. Len(slices) \in Nat /\ HeldBefore(slices, 0) = 0
      /\ \A i, j \in 0..Len(slices) : i <= j => HeldBefore(slices, i) <= HeldBefore(slices, j)
  BY HeldSteps
<1>2. IsFiniteSet(S)
  <2>1. 0 \in Int /\ Len(slices) \in Int BY <1>1
  <2>2. IsFiniteSet(0..Len(slices)) BY <2>1, FS_Interval
  <2>3. S \subseteq 0..Len(slices) OBVIOUS
  <2> HIDE DEF S
  <2> QED BY <2>2, <2>3, FS_Subset
<1>3. S \in SUBSET Int /\ 0 \in S BY <1>1
<1>4. Max(S) \in S /\ \A y \in S : Max(S) >= y
  <2> HIDE DEF S
  <2> QED BY <1>2, <1>3, MaxIsGreatest
<1>5. n = Max(S) BY DEF Exhausted
<1> HIDE DEF n
<1>6. n \in 0..Len(slices) /\ HeldBefore(slices, n) <= qty BY <1>4, <1>5
<1>7. \A m \in 0..Len(slices) : HeldBefore(slices, m) <= qty => m <= n
  <2> TAKE m \in 0..Len(slices)
  <2> HAVE HeldBefore(slices, m) <= qty
  <2>1. n >= m BY <1>4, <1>5
  <2> QED BY <1>1, <1>6, <2>1
<1> HIDE DEF S
<1>8. ASSUME NEW i \in 1..Len(slices) PROVE i <= n <=> HeldBefore(slices, i) <= qty
  <2>1. i \in 0..Len(slices) BY <1>1
  <2>2. i <= n => HeldBefore(slices, i) <= HeldBefore(slices, n) BY <1>1, <1>6, <2>1
  <2>3. HeldBefore(slices, i) \in Nat /\ HeldBefore(slices, n) \in Nat BY HeldSteps, <2>1, <1>6
  <2> QED BY <1>6, <1>7, <2>1, <2>2, <2>3
<1> QED BY <1>6, <1>8 DEF n

\* A function of 1 .. k is a sequence.
LEMMA SeqOfFunction ==
  ASSUME NEW S, NEW k \in Nat, NEW s \in [1..k -> S]
  PROVE  s \in Seq(S) /\ Len(s) = k /\ DOMAIN s = 1..k
<1>1. s \in Seq(S) BY SeqDef
<1> QED BY <1>1

\* A sale takes no more of a slice than there is, all of an exhausted one and not all of
\* any other; together it takes what was asked for, if there is as much.
LEMMA TakenBounds ==
  ASSUME NEW L, NEW slices \in Seq(FifoSlices(L)), NEW qty \in Nat
  PROVE  /\ \A i \in 1..Len(slices) :
              /\ Taken(slices, qty, i) \in Nat /\ Taken(slices, qty, i) <= slices[i].qty
              /\ i <= Exhausted(slices, qty) <=> Taken(slices, qty, i) = slices[i].qty
<1> SUFFICES ASSUME NEW i \in 1..Len(slices)
             PROVE  /\ Taken(slices, qty, i) \in Nat /\ Taken(slices, qty, i) <= slices[i].qty
                    /\ i <= Exhausted(slices, qty) <=> Taken(slices, qty, i) = slices[i].qty
  OBVIOUS
<1> DEFINE held == HeldBefore(slices, i - 1)
           upto == HeldBefore(slices, i)
           q == slices[i].qty
           taken == Taken(slices, qty, i)
<1>1. i - 1 \in 0..Len(slices) BY HeldSteps
<1>2. held \in Nat /\ q \in Nat \ {0} /\ upto = held + q BY <1>1, HeldSteps
<1>3. taken = IF upto <= qty THEN q ELSE IF held >= qty THEN 0 ELSE qty - held BY TakenIs
<1>4. i <= Exhausted(slices, qty) <=> upto <= qty BY ExhaustedIs
<1> HIDE DEF held, upto, q, taken
<1>5. taken \in Nat /\ taken <= q /\ (upto <= qty <=> taken = q) BY <1>2, <1>3
<1> QED BY <1>4, <1>5 DEF taken, q

\* What a sale takes from the slices is what is sold (FifoInventory.consume).
LEMMA TakenInAll ==
  ASSUME NEW L, NEW slices \in Seq(FifoSlices(L)), NEW qty \in Nat, qty <= Quantity(slices)
  PROVE  SumTo([i \in DOMAIN slices |-> Taken(slices, qty, i)], Len(slices)) = qty
<1> DEFINE t == [i \in DOMAIN slices |-> Taken(slices, qty, i)]
           n == Len(slices)
           H(i) == HeldBefore(slices, i)
           S == {k \in Nat : k <= n => SumTo(t, k) = IF H(k) <= qty THEN H(k) ELSE qty}
<1>1. n \in Nat /\ DOMAIN slices = 1..n /\ H(0) = 0 /\ (\A i \in 0..n : H(i) \in Nat)
      /\ \A i \in 1..n : slices[i].qty \in Nat \ {0} /\ H(i) = H(i - 1) + slices[i].qty
  BY HeldSteps
<1>2. \A i \in 1..n : t[i] = IF H(i) <= qty THEN slices[i].qty ELSE IF H(i - 1) >= qty THEN 0 ELSE qty - H(i - 1)
  BY <1>1, TakenIs
<1> HIDE DEF t, H
<1>3. SumTo(t, 0) = 0 /\ \A i \in Nat : SumTo(t, i + 1) = SumTo(t, i) + t[i + 1] BY SumStep
<1>4. 0 \in S BY <1>1, <1>3
<1>5. ASSUME NEW k \in Nat, k \in S PROVE k + 1 \in S
  <2> SUFFICES ASSUME k + 1 <= n PROVE SumTo(t, k + 1) = IF H(k + 1) <= qty THEN H(k + 1) ELSE qty OBVIOUS
  <2> DEFINE a == H(k)
             b == H(k + 1)
             q == slices[k + 1].qty
             x == t[k + 1]
             s == SumTo(t, k)
  <2>1. k + 1 \in 1..n /\ k \in 0..n /\ (k + 1) - 1 = k BY <1>1
  <2>2. a \in Nat /\ q \in Nat \ {0} /\ b = a + q BY <1>1, <2>1
  <2>3. x = IF b <= qty THEN q ELSE IF a >= qty THEN 0 ELSE qty - a BY <1>2, <2>1
  <2>4. s = IF a <= qty THEN a ELSE qty BY <1>5, <2>1
  <2>5. SumTo(t, k + 1) = s + x BY <1>3
  <2> HIDE DEF a, b, q, x, s
  <2>6. s + x = IF b <= qty THEN b ELSE qty BY <2>2, <2>3, <2>4
  <2> QED BY <2>5, <2>6 DEF b
<1> HIDE DEF S
<1>6. n \in S BY <1>1, <1>4, <1>5, CountUp
<1>7. H(n) = Quantity(slices) BY DEF H, Quantity
<1>8. H(n) \in Nat BY <1>1
<1>9. SumTo(t, n) = IF H(n) <= qty THEN H(n) ELSE qty BY <1>1, <1>6 DEF S
<1>10. SumTo(t, n) = qty BY <1>7, <1>8, <1>9
<1> QED BY <1>10 DEF t

\* The cost of all slices, and of what a sale takes, are numbers.
LEMMA QueueCosts ==
  ASSUME NEW L, NEW slices \in Seq(FifoSlices(L)), NEW qty \in Nat
  PROVE  Cost(slices) \in Int /\ Quantity(slices) \in Nat /\ MatchCost(slices, qty) \in Int
<1> DEFINE c == [i \in DOMAIN slices |-> slices[i].price * slices[i].qty]
           m == [i \in DOMAIN slices |-> slices[i].price * Taken(slices, qty, i)]
           n == Len(slices)
<1>1. n \in Nat /\ DOMAIN slices = 1..n
      /\ \A i \in 1..n : slices[i].price \in Nat \ {0} /\ slices[i].qty \in Nat \ {0}
  BY HeldSteps
<1>2. \A i \in 1..n : Taken(slices, qty, i) \in Nat BY TakenBounds
<1>3. \A i \in 1..n : c[i] \in Int /\ m[i] \in Int BY <1>1, <1>2
<1>4. DOMAIN c = 1..n /\ DOMAIN m = 1..n BY <1>1
<1>5. Len(c) = n /\ Len(m) = n BY <1>1, <1>4
<1>6. Cost(slices) = SumTo(c, n) /\ MatchCost(slices, qty) = SumTo(m, n) BY <1>5 DEF Cost, MatchCost, Total
<1> HIDE DEF c, m
<1>7. SumTo(c, n) \in Int /\ SumTo(m, n) \in Int BY <1>1, <1>3, SumIsInt
<1>8. Quantity(slices) \in Nat BY <1>1, HeldSteps DEF Quantity
<1> QED BY <1>6, <1>7, <1>8

\* A sale of what there is leaves a queue that holds so much less, at so much less cost.
LEMMA QueueSale ==
  ASSUME NEW L, NEW slices \in Seq(FifoSlices(L)), NEW qty \in Nat, qty <= Quantity(slices)
  PROVE  /\ Consume(slices, qty) \in Seq(FifoSlices(L))
         /\ Quantity(Consume(slices, qty)) = Quantity(slices) - qty
         /\ Cost(Consume(slices, qty)) = Cost(slices) - MatchCost(slices, qty)
<1> DEFINE left == Consume(slices, qty)
           len == Len(slices)
           n == Exhausted(slices, qty)
           k == len - n
           T(i) == Taken(slices, qty, i)
           q == [i \in DOMAIN slices |-> slices[i].qty]
           t == [i \in DOMAIN slices |-> T(i)]
           c == [i \in DOMAIN slices |-> slices[i].price * slices[i].qty]
           m == [i \in DOMAIN slices |-> slices[i].price * T(i)]
           u == [i \in 1..len |-> slices[i].qty - T(i)]
           w == [i \in 1..len |-> slices[i].price * (slices[i].qty - T(i))]
<1>1. /\ len \in Nat /\ DOMAIN slices = 1..len
      /\ \A i \in 1..len : slices[i].price \in Nat \ {0} /\ slices[i].qty \in Nat \ {0}
  BY HeldSteps
<1>2. n \in 0..len BY ExhaustedIs
<1>3. \A i \in 1..len : T(i) \in Nat /\ T(i) <= slices[i].qty /\ (i <= n <=> T(i) = slices[i].qty) BY TakenBounds
<1>4. left = [i \in 1..k |-> [slices[n + i] EXCEPT !.qty = slices[n + i].qty - T(n + i)]] BY DEF Consume
<1>5. k \in Nat /\ n \in Nat /\ n + k = len /\ len - n = k BY <1>1, <1>2
<1> HIDE DEF n, k, left, T
<1>6. ASSUME NEW i \in 1..k
      PROVE  left[i] \in FifoSlices(L) /\ left[i].price = slices[n + i].price /\ left[i].qty = slices[n + i].qty - T(n + i)
  <2>1. n + i \in 1..len /\ ~ (n + i <= n) BY <1>1, <1>5
  <2>2. slices[n + i] \in FifoSlices(L) BY <1>1, <2>1
  <2>3. T(n + i) \in Nat /\ T(n + i) <= slices[n + i].qty /\ T(n + i) # slices[n + i].qty BY <1>3, <2>1
  <2>4. slices[n + i].qty \in Nat BY <1>1, <2>1
  <2>5. slices[n + i].qty - T(n + i) \in Nat \ {0}
    <3> DEFINE a == slices[n + i].qty
               b == T(n + i)
    <3>1. a \in Nat /\ b \in Nat /\ b <= a /\ b # a BY <2>3, <2>4
    <3> HIDE DEF a, b
    <3>2. a - b \in Nat \ {0} BY <3>1
    <3> QED BY <3>2 DEF a, b
  <2>6. left[i] = [slices[n + i] EXCEPT !.qty = slices[n + i].qty - T(n + i)] BY <1>4
  <2> QED BY <2>2, <2>5, <2>6 DEF FifoSlices
<1>7. left \in Seq(FifoSlices(L)) /\ Len(left) = k /\ DOMAIN left = 1..k
  <2>1. left \in [1..k -> FifoSlices(L)] BY <1>4, <1>6
  <2> QED BY <1>5, <2>1, SeqOfFunction
<1> DEFINE lq == [i \in DOMAIN left |-> left[i].qty]
           lc == [i \in DOMAIN left |-> left[i].price * left[i].qty]
<1>8. \A i \in 1..len : /\ q[i] \in Int /\ t[i] \in Int /\ c[i] \in Int /\ m[i] \in Int /\ u[i] \in Int /\ w[i] \in Int
                        /\ u[i] = q[i] - t[i]
  BY <1>1, <1>3
<1>9. \A i \in 1..len : w[i] = c[i] - m[i]
  <2> TAKE i \in 1..len
  <2> DEFINE p == slices[i].price
             a == slices[i].qty
             b == T(i)
  <2>1. p \in Int /\ a \in Int /\ b \in Int BY <1>1, <1>3
  <2>2. w[i] = p * (a - b) /\ c[i] = p * a /\ m[i] = p * b BY <1>1
  <2> HIDE DEF p, a, b, w, c, m
  <2>3. p * (a - b) = p * a - p * b BY <2>1
  <2> QED BY <2>2, <2>3
<1>10. \A i \in 1..n : u[i] = 0 /\ w[i] = 0
  <2> TAKE i \in 1..n
  <2>1. i \in 1..len /\ i <= n BY <1>1, <1>5
  <2>2. slices[i].qty \in Nat /\ slices[i].price \in Nat /\ T(i) = slices[i].qty BY <1>1, <1>3, <2>1
  <2>3. slices[i].qty - T(i) = 0 BY <2>2
  <2> QED BY <2>1, <2>2, <2>3
<1>11. \A i \in 1..k : lq[i] = u[n + i] /\ lc[i] = w[n + i]
  <2> TAKE i \in 1..k
  <2>1. n + i \in 1..len BY <1>1, <1>5
  <2> QED BY <1>6, <1>7, <2>1
<1>12. /\ Quantity(slices) = SumTo(q, len) /\ Quantity(left) = SumTo(lq, k)
       /\ Cost(slices) = SumTo(c, len) /\ Cost(left) = SumTo(lc, k) /\ MatchCost(slices, qty) = SumTo(m, len)
       /\ SumTo(t, len) = qty
  <2>1. DOMAIN c = 1..len /\ DOMAIN m = 1..len /\ DOMAIN lc = 1..k BY <1>1, <1>7
  <2>2. Len(c) = len /\ Len(m) = len /\ Len(lc) = k BY <1>1, <1>5, <2>1
  <2>3. Cost(slices) = SumTo(c, len) /\ Cost(left) = SumTo(lc, k) /\ MatchCost(slices, qty) = SumTo(m, len)
    BY <2>2 DEF Cost, MatchCost, Total, T
  <2>4. Quantity(slices) = SumTo(q, len) /\ Quantity(left) = SumTo(lq, k) BY <1>7 DEF Quantity, HeldBefore
  <2>5. SumTo(t, len) = qty BY TakenInAll DEF T
  <2> QED BY <2>3, <2>4, <2>5
<1> HIDE DEF q, t, c, m, u, w, lq, lc, len
<1>13. SumTo(u, len) = SumTo(q, len) - SumTo(t, len) BY <1>1, <1>8, SumOfDifferences
<1>14. SumTo(w, len) = SumTo(c, len) - SumTo(m, len) BY <1>1, <1>8, <1>9, SumOfDifferences
<1>15. SumTo(u, n) = 0 /\ SumTo(w, n) = 0 BY <1>5, <1>10, SumOfZeros
<1>16. SumTo(u, len) = SumTo(u, n) + SumTo(lq, k) /\ SumTo(w, len) = SumTo(w, n) + SumTo(lc, k)
  <2>1. n \in Nat /\ k \in Nat /\ len = n + k BY <1>5
  <2>2. \A i \in 1..len : u[i] \in Int BY <1>8
  <2>3. \A i \in 1..len : w[i] \in Int BY <1>8
  <2>4. \A i \in 1..k : lq[i] = u[n + i] BY <1>11
  <2>5. \A i \in 1..k : lc[i] = w[n + i] BY <1>11
  <2>8. Follow(u, lq, n, k, len) /\ Follow(w, lc, n, k, len) BY <2>1, <2>2, <2>3, <2>4, <2>5 DEF Follow
  <2>6. SumTo(u, len) = SumTo(u, n) + SumTo(lq, k) BY <2>8, SumInParts
  <2>7. SumTo(w, len) = SumTo(w, n) + SumTo(lc, k) BY <2>8, SumInParts
  <2> QED BY <2>6, <2>7
<1>17. SumTo(lq, k) \in Int /\ SumTo(lc, k) \in Int
  <2>1. \A i \in 1..k : lq[i] \in Int /\ lc[i] \in Int
    <3> TAKE i \in 1..k
    <3>1. n + i \in 1..len BY <1>1, <1>5
    <3> QED BY <1>8, <1>11, <3>1
  <2> QED BY <1>5, <2>1, SumIsInt
<1> QED BY <1>7, <1>12, <1>13, <1>14, <1>15, <1>16, <1>17 DEF left

\* A sequence that is one value longer.
LEMMA TotalOfLonger ==
  ASSUME NEW s, NEW t, NEW n \in Nat, Len(s) = n, Len(t) = n + 1, \A i \in 1..n : t[i] = s[i]
  PROVE  Total(t) = Total(s) + t[n + 1]
<1>1. SumTo(t, n) = SumTo(s, n) BY SumOfSame
<1>2. SumTo(t, n + 1) = SumTo(t, n) + t[n + 1] BY SumStep
<1> QED BY <1>1, <1>2 DEF Total

QueueBuy(L, slices, lot, price, qty) ==
    slices \in Seq(FifoSlices(L)) /\ lot \in L /\ price \in Nat \ {0} /\ qty \in Nat \ {0}
QueueHas(L, more, slices, price, qty) ==
    /\ more \in Seq(FifoSlices(L))
    /\ Quantity(more) = Quantity(slices) + qty /\ Cost(more) = Cost(slices) + price * qty

\* A purchase adds its units and its cost to the queue.
LEMMA QueuePurchase ==
  ASSUME NEW L, NEW slices, NEW lot, NEW price, NEW qty, QueueBuy(L, slices, lot, price, qty)
  PROVE  QueueHas(L, Add(slices, lot, price, qty), slices, price, qty)
<1>0. slices \in Seq(FifoSlices(L)) /\ lot \in L /\ price \in Nat \ {0} /\ qty \in Nat \ {0} BY DEF QueueBuy
<1> DEFINE new == [lot |-> lot, price |-> price, qty |-> qty]
           more == Add(slices, lot, price, qty)
           n == Len(slices)
           q == [i \in DOMAIN slices |-> slices[i].qty]
           c == [i \in DOMAIN slices |-> slices[i].price * slices[i].qty]
           mq == [i \in DOMAIN more |-> more[i].qty]
           mc == [i \in DOMAIN more |-> more[i].price * more[i].qty]
<1>1. new \in FifoSlices(L) BY <1>0 DEF FifoSlices
<1>2. more = Append(slices, new) BY DEF Add
<1>3. /\ more \in Seq(FifoSlices(L)) /\ n \in Nat /\ Len(more) = n + 1 /\ DOMAIN more = 1..(n + 1) /\ DOMAIN slices = 1..n
      /\ more[n + 1] = new /\ \A i \in 1..n : more[i] = slices[i]
  <2> HIDE DEF new, more
  <2> QED BY <1>0, <1>1, <1>2
<1> HIDE DEF more
<1>4. /\ DOMAIN q = 1..n /\ DOMAIN c = 1..n /\ DOMAIN mq = 1..(n + 1) /\ DOMAIN mc = 1..(n + 1)
      /\ Len(q) = n /\ Len(c) = n /\ Len(mq) = n + 1 /\ Len(mc) = n + 1
  BY <1>3
<1>5. \A i \in 1..n : mq[i] = q[i] /\ mc[i] = c[i]
  <2> TAKE i \in 1..n
  <2>1. i \in 1..(n + 1) BY <1>3
  <2> QED BY <1>3, <2>1
<1>6. mq[n + 1] = qty /\ mc[n + 1] = price * qty
  <2>1. n + 1 \in 1..(n + 1) BY <1>3
  <2> QED BY <1>3, <2>1
<1>7. /\ Quantity(slices) = Total(q) /\ Cost(slices) = Total(c)
      /\ Quantity(more) = Total(mq) /\ Cost(more) = Total(mc)
  BY <1>3, <1>4 DEF Quantity, HeldBefore, Cost, Total
<1> HIDE DEF q, c, mq, mc
<1>8. Total(mq) = Total(q) + mq[n + 1]
  BY <1>3, <1>4, <1>5, TotalOfLonger
<1>9. Total(mc) = Total(c) + mc[n + 1]
  BY <1>3, <1>4, <1>5, TotalOfLonger
<1> QED BY <1>3, <1>6, <1>7, <1>8, <1>9 DEF more, QueueHas
=============================================================================
