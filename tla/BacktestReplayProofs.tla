------------------------ MODULE BacktestReplayProofs ------------------------
(***************************************************************************)
(* The replay of a backtest numbers its lots without a gap or a            *)
(* repetition, takes no target that does not pay, and reports what it      *)
(* stored: for any plan, any candles, any costs and any frame.             *)
(***************************************************************************)
EXTENDS BacktestReplay, SumsAndExtrema

-----------------------------------------------------------------------------
(* Arithmetic and sequences. *)

\* A quotient that is rounded up, times its divisor, is no less than the dividend.
LEMMA CeilDivCovers ==
  ASSUME NEW a \in Int, NEW b \in Nat \ {0}
  PROVE  CeilDiv(a, b) \in Int /\ CeilDiv(a, b) * b >= a
BY DEF CeilDiv

\* What the target of a lot promises: the percentage on top of what was paid.
LEMMA TargetRepays ==
  ASSUME NEW paid \in Int, NEW qty \in Nat \ {0}, NEW pct \in Nat, NEW costs \in Int
  PROVE  LET target == NetProfitTarget(paid, qty, pct, costs) IN
         target \in Int /\ 100 * ((target - costs) * qty - paid) >= pct * paid
<1> DEFINE asked == paid * (100 + pct)
           due == CeilDiv(asked, 100)
           unit == CeilDiv(due, qty)
           target == NetProfitTarget(paid, qty, pct, costs)
<1>1. asked \in Int /\ asked = 100 * paid + pct * paid /\ pct * paid \in Int OBVIOUS
<1>2. target = unit + costs BY DEF NetProfitTarget
<1> HIDE DEF asked, due, unit, target
<1>3. due \in Int /\ due * 100 >= asked BY <1>1, CeilDivCovers DEF due
<1>4. unit \in Int /\ unit * qty >= due BY <1>3, CeilDivCovers DEF unit
<1>5. target \in Int /\ target - costs = unit BY <1>2, <1>4
<1>6. PICK sold : sold = unit * qty OBVIOUS
<1>7. sold \in Int /\ sold >= due /\ (target - costs) * qty = sold BY <1>4, <1>5, <1>6
<1>8. PICK extra : extra = pct * paid OBVIOUS
<1>9. extra \in Int /\ asked = 100 * paid + extra BY <1>1, <1>8
<1>10. 100 * (sold - paid) >= extra BY <1>1, <1>3, <1>7, <1>9
<1> QED BY <1>5, <1>7, <1>8, <1>10 DEF target

\* The quantity of a reduced lot: the first one halved again and again, at least 1.
IsHalved(f, n) == f = [k \in 0..n |-> IF k = 0 THEN plan.first ELSE f[k - 1] \div 2]

\* There is a function that halves the first quantity n times.
LEMMA HalvedExists ==
  ASSUME NEW n \in Nat PROVE \E f : IsHalved(f, n)
<1> DEFINE S == {m \in Nat : \E f : IsHalved(f, m)}
<1>1. 0 \in S
  <2>1. IsHalved([k \in 0..0 |-> plan.first], 0) BY DEF IsHalved
  <2> QED BY <2>1
<1>2. ASSUME NEW m \in Nat, m \in S PROVE m + 1 \in S
  <2>1. PICK f : IsHalved(f, m) BY <1>2
  <2> DEFINE g == [k \in 0..(m + 1) |-> IF k <= m THEN f[k] ELSE f[m] \div 2]
  <2>2. IsHalved(g, m + 1)
    <3>1. \A k \in 0..m : f[k] = IF k = 0 THEN plan.first ELSE f[k - 1] \div 2 BY <2>1 DEF IsHalved
    <3>2. \A k \in 0..(m + 1) : g[k] = IF k = 0 THEN plan.first ELSE g[k - 1] \div 2
      <4> TAKE k \in 0..(m + 1)
      <4>1. CASE k <= m
        <5>1. k \in 0..m /\ (k # 0 => k - 1 \in 0 .. (m + 1) /\ k - 1 <= m) BY <4>1
        <5> QED BY <5>1, <3>1
      <4>2. CASE k = m + 1
        <5>1. k # 0 /\ k - 1 = m /\ ~ (k <= m) /\ m \in 0 .. (m + 1) /\ m <= m BY <4>2
        <5> QED BY <5>1, <4>2
      <4> QED BY <4>1, <4>2
    <3> HIDE DEF g
    <3>3. g = [k \in 0..(m + 1) |-> g[k]] BY DEF g
    <3> QED BY <3>2, <3>3 DEF IsHalved
  <2> QED BY <2>2
<1> HIDE DEF S
<1>3. n \in S BY <1>1, <1>2, CountUp
<1> QED BY <1>3 DEF S

\* However often it is halved, a lot has a quantity.
LEMMA LotQuantityIsPositive ==
  ASSUME plan.first \in Nat, NEW n \in Nat PROVE LotQuantity(n) \in Nat \ {0}
<1> DEFINE h == CHOOSE f : f = [k \in 0..n |-> IF k = 0 THEN plan.first ELSE f[k - 1] \div 2]
           S == {m \in Nat : m <= n => h[m] \in Nat}
<1>1. IsHalved(h, n) BY HalvedExists DEF IsHalved
<1>2. LotQuantity(n) = Max({1, h[n]}) BY DEF LotQuantity
<1> HIDE DEF h
<1>3. \A k \in 0..n : h[k] = IF k = 0 THEN plan.first ELSE h[k - 1] \div 2 BY <1>1 DEF IsHalved
<1>4. 0 \in S BY <1>3
<1>5. ASSUME NEW m \in Nat, m \in S PROVE m + 1 \in S
  <2> SUFFICES ASSUME m + 1 <= n PROVE h[m + 1] \in Nat OBVIOUS
  <2>1. m + 1 \in 0..n /\ m + 1 # 0 /\ (m + 1) - 1 = m /\ h[m] \in Nat BY <1>5
  <2>2. h[m + 1] = h[m] \div 2 BY <1>3, <2>1
  <2> QED BY <2>1, <2>2
<1> HIDE DEF S
<1>6. n \in S BY <1>4, <1>5, CountUp
<1>7. h[n] \in Nat BY <1>6 DEF S
<1>8. Max({1, h[n]}) = IF 1 <= h[n] THEN h[n] ELSE 1
  <2>1. 1 \in Int /\ h[n] \in Int BY <1>7
  <2> QED BY <2>1, OfTwo
<1> QED BY <1>2, <1>7, <1>8

\* t is s without the element at one place.
Without(t, s, i) ==
    /\ Len(t) = Len(s) - 1
    /\ \A k \in 1 .. (Len(s) - 1) : t[k] = IF k < i THEN s[k] ELSE s[k + 1]

\* What removing an element leaves.
LEMMA RemoveAtIs ==
  ASSUME NEW S, NEW s \in Seq(S), NEW i \in 1 .. Len(s)
  PROVE  RemoveAt(s, i) \in Seq(S) /\ Without(RemoveAt(s, i), s, i)
<1> DEFINE a == SubSeq(s, 1, i - 1)
           b == SubSeq(s, i + 1, Len(s))
<1>0. Len(s) \in Nat /\ i \in Nat /\ i >= 1 /\ i <= Len(s) OBVIOUS
<1>1. RemoveAt(s, i) = a \o b BY DEF RemoveAt
<1>2. a \in Seq(S) /\ Len(a) = i - 1 /\ \A k \in 1 .. (i - 1) : a[k] = s[k]
  <2>1. a = [k \in 1 .. (i - 1) |-> s[k]]
    BY <1>0
  <2>2. \A k \in 1 .. (i - 1) : s[k] \in S BY <1>0
  <2>3. i - 1 \in Nat BY <1>0
  <2>4. [k \in 1 .. (i - 1) |-> s[k]] \in [1 .. (i - 1) -> S] BY <2>2
  <2> HIDE DEF a
  <2> QED BY <2>1, <2>3, <2>4, SeqOfFunction
<1>3. b \in Seq(S) /\ Len(b) = Len(s) - i /\ \A k \in 1 .. (Len(s) - i) : b[k] = s[i + k]
  <2>1. b = [k \in 1 .. (Len(s) - i) |-> s[i + k]]
    BY <1>0
  <2>2. \A k \in 1 .. (Len(s) - i) : s[i + k] \in S BY <1>0
  <2>3. Len(s) - i \in Nat BY <1>0
  <2>4. [k \in 1 .. (Len(s) - i) |-> s[i + k]] \in [1 .. (Len(s) - i) -> S] BY <2>2
  <2> HIDE DEF b
  <2> QED BY <2>1, <2>3, <2>4, SeqOfFunction
<1> HIDE DEF a, b
<1>4. a \o b \in Seq(S) /\ Len(a \o b) = Len(a) + Len(b)
      /\ \A k \in 1 .. (Len(a) + Len(b)) : (a \o b)[k] = IF k <= Len(a) THEN a[k] ELSE b[k - Len(a)]
  <2>1. a \in Seq(S) /\ b \in Seq(S) BY <1>2, <1>3
  <2> QED BY <2>1, ConcatProperties
<1>5. ASSUME NEW k \in 1 .. (Len(s) - 1) PROVE (a \o b)[k] = IF k < i THEN s[k] ELSE s[k + 1]
  <2>1. k \in 1 .. (Len(a) + Len(b)) BY <1>0, <1>2, <1>3
  <2>2. (a \o b)[k] = IF k <= Len(a) THEN a[k] ELSE b[k - Len(a)] BY <1>4, <2>1
  <2>3. CASE k < i
    <3>1. k <= Len(a) /\ k \in 1 .. (i - 1) BY <1>0, <1>2, <2>3
    <3> QED BY <1>2, <2>2, <2>3, <3>1
  <2>4. CASE ~ (k < i)
    <3>1. ~ (k <= Len(a)) /\ k - Len(a) \in 1 .. (Len(s) - i) /\ i + (k - Len(a)) = k + 1 BY <1>0, <1>2, <2>4
    <3>2. b[k - Len(a)] = s[i + (k - Len(a))] BY <1>3, <3>1
    <3> QED BY <2>2, <2>4, <3>1, <3>2
  <2> QED BY <2>3, <2>4
<1> QED BY <1>0, <1>1, <1>2, <1>3, <1>4, <1>5 DEF Without

TakenOut(v, w, n, i) ==
    /\ n \in Nat \ {0} /\ i \in 1 .. n /\ Len(v) = n /\ Len(w) = n - 1
    /\ \A k \in 1 .. n : v[k] \in Int
    /\ \A k \in 1 .. (n - 1) : w[k] = IF k < i THEN v[k] ELSE v[k + 1]

\* The sum of what is left when one value is taken out.
LEMMA TotalWithout ==
  ASSUME NEW v, NEW w, NEW n, NEW i, TakenOut(v, w, n, i)
  PROVE  Total(w) \in Int /\ Total(v) = Total(w) + v[i]
<1>0. /\ n \in Nat /\ n > 0 /\ i \in 1 .. n /\ Len(v) = n /\ Len(w) = n - 1
      /\ \A k \in 1 .. n : v[k] \in Int
      /\ \A k \in 1 .. (n - 1) : w[k] = IF k < i THEN v[k] ELSE v[k + 1] BY DEF TakenOut
<1> USE <1>0
<1> DEFINE S == {k \in Nat : k <= n - 1 => SumTo(w, k) = IF k < i THEN SumTo(v, k) ELSE SumTo(v, k + 1) - v[i]}
<1>1. /\ SumTo(v, 0) = 0 /\ \A k \in Nat : SumTo(v, k + 1) = SumTo(v, k) + v[k + 1]
      /\ SumTo(w, 0) = 0 /\ \A k \in Nat : SumTo(w, k + 1) = SumTo(w, k) + w[k + 1] BY SumStep
<1>2. \A k \in 0 .. n : SumTo(v, k) \in Int
  <2> TAKE k \in 0 .. n
  <2>1. \A j \in 1 .. k : v[j] \in Int OBVIOUS
  <2> QED BY <2>1, SumIsInt
<1>3. 0 \in S BY <1>1
<1>4. ASSUME NEW k \in Nat, k \in S PROVE k + 1 \in S
  <2> SUFFICES ASSUME k + 1 <= n - 1
               PROVE  SumTo(w, k + 1) = IF k + 1 < i THEN SumTo(v, k + 1) ELSE SumTo(v, (k + 1) + 1) - v[i]
    OBVIOUS
  <2>1. k + 1 \in 1 .. (n - 1) /\ k + 1 \in 1 .. n /\ (k + 1) + 1 \in 1 .. n /\ k \in 0 .. n /\ k + 1 \in 0 .. n OBVIOUS
  <2>2. SumTo(w, k) = IF k < i THEN SumTo(v, k) ELSE SumTo(v, k + 1) - v[i] BY <1>4
  <2>3. SumTo(w, k + 1) = SumTo(w, k) + (IF k + 1 < i THEN v[k + 1] ELSE v[(k + 1) + 1]) BY <1>1, <2>1
  <2>4. SumTo(v, k + 1) = SumTo(v, k) + v[k + 1] /\ SumTo(v, (k + 1) + 1) = SumTo(v, k + 1) + v[(k + 1) + 1]
    <3>1. k + 1 \in Nat OBVIOUS
    <3> HIDE DEF S
    <3> QED BY <1>1, <3>1
  <2>5. /\ SumTo(v, k) \in Int /\ SumTo(v, k + 1) \in Int
        /\ v[k + 1] \in Int /\ v[(k + 1) + 1] \in Int /\ v[i] \in Int BY <1>2, <2>1
  <2>6. CASE k + 1 < i
    <3>1. k < i BY <2>6
    <3> QED BY <2>2, <2>3, <2>4, <2>6, <3>1
  <2>7. CASE k + 1 = i
    <3>1. k < i /\ ~ (k + 1 < i) BY <2>7
    <3>2. SumTo(w, k + 1) = SumTo(v, k) + v[(k + 1) + 1] BY <2>2, <2>3, <3>1
    <3>3. v[i] = v[k + 1] BY <2>7
    <3> DEFINE x == SumTo(v, k)
               y == v[k + 1]
               z == v[(k + 1) + 1]
               a == SumTo(w, k + 1)
               d == SumTo(v, (k + 1) + 1)
               e == v[i]
    <3>5. a = x + z /\ e = y /\ d = (x + y) + z /\ x \in Int /\ y \in Int /\ z \in Int BY <2>4, <2>5, <3>2, <3>3
    <3> HIDE DEF S, x, y, z, a, d, e
    <3>6. a = d - e BY <3>5
    <3>4. SumTo(w, k + 1) = SumTo(v, (k + 1) + 1) - v[i] BY <3>6 DEF a, d, e
    <3> QED BY <3>1, <3>4
  <2>8. CASE k + 1 > i
    <3>1. ~ (k < i) /\ ~ (k + 1 < i) BY <2>8
    <3>2. SumTo(w, k + 1) = SumTo(v, k + 1) - v[i] + v[(k + 1) + 1] BY <2>2, <2>3, <3>1
    <3> DEFINE x == SumTo(v, k + 1)
               z == v[(k + 1) + 1]
               a == SumTo(w, k + 1)
               d == SumTo(v, (k + 1) + 1)
               e == v[i]
    <3>5. a = x - e + z /\ d = x + z /\ x \in Int /\ e \in Int /\ z \in Int BY <2>4, <2>5, <3>2
    <3> HIDE DEF S, x, z, a, d, e
    <3>6. a = d - e BY <3>5
    <3>4. SumTo(w, k + 1) = SumTo(v, (k + 1) + 1) - v[i] BY <3>6 DEF a, d, e
    <3> QED BY <3>1, <3>4
  <2> QED BY <2>6, <2>7, <2>8
<1> HIDE DEF S
<1>5. n - 1 \in S
  <2>1. n - 1 \in Nat OBVIOUS
  <2> QED BY <1>3, <1>4, <2>1, CountUp
<1>6. SumTo(w, n - 1) = IF n - 1 < i THEN SumTo(v, n - 1) ELSE SumTo(v, (n - 1) + 1) - v[i] BY <1>5 DEF S
<1>7. SumTo(v, n) = SumTo(v, n - 1) + v[n]
  <2>1. n - 1 \in Nat /\ (n - 1) + 1 = n OBVIOUS
  <2>2. SumTo(v, (n - 1) + 1) = SumTo(v, n - 1) + v[(n - 1) + 1] BY <1>1, <2>1
  <2> QED BY <2>1, <2>2
<1>8. SumTo(v, n - 1) \in Int /\ SumTo(v, n) \in Int /\ v[i] \in Int /\ v[n] \in Int BY <1>2
<1>9. Total(v) = SumTo(v, n) /\ Total(w) = SumTo(w, n - 1) BY DEF Total
<1>10. CASE i = n
  <2>1. n - 1 < i BY <1>10
  <2> QED BY <1>6, <1>7, <1>8, <1>9, <1>10, <2>1
<1>11. CASE i # n
  <2>1. ~ (n - 1 < i) /\ (n - 1) + 1 = n BY <1>11
  <2>2. SumTo(v, (n - 1) + 1) = SumTo(v, n) BY <2>1
  <2>3. SumTo(w, n - 1) = SumTo(v, n) - v[i] BY <1>6, <2>1, <2>2
  <2> QED BY <1>8, <1>9, <2>3
<1> QED BY <1>10, <1>11

\* Two sequences of one length with the same elements.
LEMMA SameSequence ==
  ASSUME NEW S, NEW s \in Seq(S), NEW t \in Seq(S), Len(s) = Len(t), \A i \in 1 .. Len(s) : s[i] = t[i]
  PROVE  s = t
<1>1. DOMAIN s = 1 .. Len(s) /\ DOMAIN t = 1 .. Len(t) /\ Len(s) \in Nat OBVIOUS
<1>2. s = [i \in 1 .. Len(s) |-> s[i]] /\ t = [i \in 1 .. Len(t) |-> t[i]] OBVIOUS
<1> QED BY <1>1, <1>2

\* The table after the first n rows of a write.
IsTable(f, rows, n) ==
    f = [k \in 0..n |->
            IF k = 0 THEN stored
            ELSE IF \E i \in DOMAIN f[k - 1] : f[k - 1][i].lot = rows[k].lot THEN f[k - 1]
            ELSE Append(f[k - 1], rows[k])]

\* There is a function that writes the first n rows one after the other.
LEMMA TableExists ==
  ASSUME NEW rows, NEW n \in Nat PROVE \E f : IsTable(f, rows, n)
<1> DEFINE Step(t, k) == IF \E i \in DOMAIN t : t[i].lot = rows[k].lot THEN t ELSE Append(t, rows[k])
           S == {m \in Nat : \E f : IsTable(f, rows, m)}
<1>a. ASSUME NEW f, NEW m \in Nat
      PROVE  IsTable(f, rows, m) <=> f = [k \in 0..m |-> IF k = 0 THEN stored ELSE Step(f[k - 1], k)]
  BY DEF IsTable
<1> HIDE DEF Step
<1>1. 0 \in S
  <2> DEFINE g == [k \in 0..0 |-> stored]
  <2>1. \A k \in 0..0 : k = 0 OBVIOUS
  <2>2. IsTable(g, rows, 0) BY <2>1 DEF IsTable
  <2> QED BY <2>2
<1>2. ASSUME NEW m \in Nat, m \in S PROVE m + 1 \in S
  <2>1. PICK f : IsTable(f, rows, m) BY <1>2
  <2> DEFINE g == [k \in 0..(m + 1) |-> IF k <= m THEN f[k] ELSE Step(f[m], m + 1)]
  <2>2. IsTable(g, rows, m + 1)
    <3>0. f = [k \in 0..m |-> IF k = 0 THEN stored ELSE Step(f[k - 1], k)] BY <1>a, <2>1
    <3>1. \A k \in 0..m : f[k] = IF k = 0 THEN stored ELSE Step(f[k - 1], k) BY <3>0
    <3>2. \A k \in 0..(m + 1) : g[k] = IF k = 0 THEN stored ELSE Step(g[k - 1], k)
      <4> TAKE k \in 0..(m + 1)
      <4>1. CASE k <= m
        <5>1. k \in 0..m /\ (k # 0 => k - 1 \in 0 .. (m + 1) /\ k - 1 <= m) BY <4>1
        <5> QED BY <5>1, <3>1
      <4>2. CASE k = m + 1
        <5>1. k # 0 /\ k - 1 = m /\ ~ (k <= m) /\ m \in 0 .. (m + 1) /\ m <= m BY <4>2
        <5> QED BY <5>1, <4>2
      <4> QED BY <4>1, <4>2
    <3> HIDE DEF g
    <3>3. g = [k \in 0..(m + 1) |-> g[k]] BY DEF g
    <3>4. g = [k \in 0..(m + 1) |-> IF k = 0 THEN stored ELSE Step(g[k - 1], k)] BY <3>2, <3>3
    <3>5. m + 1 \in Nat OBVIOUS
    <3> HIDE DEF S
    <3> QED BY <1>a, <3>4, <3>5
  <2> QED BY <2>2
<1> HIDE DEF S
<1>3. n \in S BY <1>1, <1>2, CountUp
<1> QED BY <1>3 DEF S

\* Rows whose lots are new are all written, behind those of the table.
LEMMA WrittenAppends ==
  ASSUME NEW R, stored \in Seq(R), NEW rows \in Seq(R),
         \A i \in DOMAIN stored, j \in DOMAIN rows : stored[i].lot # rows[j].lot,
         \A i, j \in DOMAIN rows : i # j => rows[i].lot # rows[j].lot
  PROVE  Written(rows) = stored \o rows
<1> DEFINE n == Len(rows)
           m == Len(stored)
           h == CHOOSE f : f = [k \in 0..Len(rows) |->
                    IF k = 0 THEN stored
                    ELSE IF \E i \in DOMAIN f[k - 1] : f[k - 1][i].lot = rows[k].lot THEN f[k - 1]
                    ELSE Append(f[k - 1], rows[k])]
           Holds(k) == /\ h[k] \in Seq(R) /\ Len(h[k]) = m + k
                       /\ \A i \in 1 .. (m + k) : h[k][i] = IF i <= m THEN stored[i] ELSE rows[i - m]
           S == {k \in Nat : k <= n => Holds(k)}
<1>0. n \in Nat /\ m \in Nat /\ DOMAIN rows = 1 .. n /\ DOMAIN stored = 1 .. m OBVIOUS
<1>1. IsTable(h, rows, n)
  <2>0. Len(rows) \in Nat BY <1>0
  <2>1. \E f : IsTable(f, rows, Len(rows)) BY <2>0, TableExists
  <2> QED BY <2>1 DEF IsTable
<1>2. Written(rows) = h[n] BY DEF Written
<1>3. \A k \in 0..n : h[k] = IF k = 0 THEN stored
            ELSE IF \E i \in DOMAIN h[k - 1] : h[k - 1][i].lot = rows[k].lot THEN h[k - 1]
            ELSE Append(h[k - 1], rows[k])
  <2> HIDE DEF h, n
  <2> QED BY <1>1 DEF IsTable
<1> HIDE DEF h
<1>4. 0 \in S
  <2>1. h[0] = stored BY <1>0, <1>3
  <2>2. Holds(0) BY <1>0, <2>1
  <2> QED BY <2>2
<1>5. ASSUME NEW k \in Nat, k \in S PROVE k + 1 \in S
  <2> HIDE DEF Holds
  <2> SUFFICES ASSUME k + 1 <= n PROVE Holds(k + 1) OBVIOUS
  <2>0. k <= n /\ Holds(k) BY <1>0, <1>5
  <2>1. k + 1 \in 0 .. n /\ k + 1 # 0 /\ (k + 1) - 1 = k /\ k + 1 \in 1 .. n BY <1>0
  <2> HIDE DEF n, m
  <2>2. h[k] \in Seq(R) /\ Len(h[k]) = m + k BY <2>0 DEF Holds
  <2>3. DOMAIN h[k] = 1 .. (m + k) BY <2>2
  <2>4. ASSUME NEW i \in 1 .. (m + k) PROVE h[k][i].lot # rows[k + 1].lot
    <3>0. h[k][i] = IF i <= m THEN stored[i] ELSE rows[i - m] BY <2>0 DEF Holds
    <3>1. CASE i <= m
      <4>1. i \in DOMAIN stored /\ k + 1 \in DOMAIN rows BY <1>0, <2>1, <3>1
      <4> QED BY <3>0, <3>1, <4>1
    <3>2. CASE ~ (i <= m)
      <4>1. i - m \in DOMAIN rows /\ k + 1 \in DOMAIN rows /\ i - m # k + 1 BY <1>0, <2>1, <3>2
      <4> QED BY <3>0, <3>2, <4>1
    <3> QED BY <3>1, <3>2
  <2>5. h[k + 1] = Append(h[k], rows[k + 1]) BY <1>3, <2>1, <2>3, <2>4
  <2>6. rows[k + 1] \in R BY <1>0, <2>1
  <2>7. /\ h[k + 1] \in Seq(R) /\ Len(h[k + 1]) = (m + k) + 1
        /\ \A i \in 1 .. (m + k) : h[k + 1][i] = h[k][i]
        /\ h[k + 1][(m + k) + 1] = rows[k + 1] BY <2>2, <2>5, <2>6, AppendProperties
  <2>8. ASSUME NEW i \in 1 .. (m + (k + 1)) PROVE h[k + 1][i] = IF i <= m THEN stored[i] ELSE rows[i - m]
    <3>1. CASE i \in 1 .. (m + k) BY <2>0, <2>7, <3>1 DEF Holds
    <3>2. CASE i = (m + k) + 1
      <4>1. ~ (i <= m) /\ i - m = k + 1 BY <1>0, <3>2
      <4> QED BY <2>7, <3>2, <4>1
    <3> QED BY <1>0, <3>1, <3>2
  <2>9. (m + k) + 1 = m + (k + 1) BY <1>0
  <2> QED BY <2>7, <2>8, <2>9 DEF Holds
<1> HIDE DEF S
<1>6. n \in S BY <1>0, <1>4, <1>5, CountUp
<1>7. Holds(n)
  <2> HIDE DEF Holds
  <2>1. n <= n BY <1>0
  <2> QED BY <1>6, <2>1 DEF S
<1>8. /\ stored \o rows \in Seq(R) /\ Len(stored \o rows) = m + n
      /\ \A i \in 1 .. (m + n) : (stored \o rows)[i] = IF i <= m THEN stored[i] ELSE rows[i - m]
  BY ConcatProperties
<1> HIDE DEF m, n
<1>9. h[n] = stored \o rows
  <2> DEFINE a == h[n]
             b == stored \o rows
  <2>1. a \in Seq(R) /\ b \in Seq(R) /\ Len(a) = Len(b) /\ \A i \in 1 .. Len(a) : a[i] = b[i] BY <1>7, <1>8
  <2> HIDE DEF a, b
  <2>2. a = b BY <2>1, SameSequence
  <2> QED BY <2>2 DEF a, b
<1> QED BY <1>2, <1>9

\* How many rows have a status.
With(rows, status) == {i \in DOMAIN rows : rows[i].status = status}

\* One row more is one more of its status.
LEMMA CountOfLonger ==
  ASSUME NEW R, NEW rows \in Seq(R), NEW row \in R, NEW status
  PROVE  /\ IsFiniteSet(With(rows, status)) /\ Cardinality(With(rows, status)) \in Nat
         /\ Cardinality(With(Append(rows, row), status))
              = Cardinality(With(rows, status)) + (IF row.status = status THEN 1 ELSE 0)
<1> DEFINE n == Len(rows)
           more == Append(rows, row)
           old == With(rows, status)
           new == With(more, status)
<1>0. n \in Nat /\ DOMAIN rows = 1 .. n OBVIOUS
<1>1. more \in Seq(R) /\ Len(more) = n + 1 /\ (\A i \in 1 .. n : more[i] = rows[i]) /\ more[n + 1] = row
  BY AppendProperties
<1>2. DOMAIN more = 1 .. (n + 1) BY <1>1
<1>3. IsFiniteSet(old)
  <2>1. 1 \in Int /\ n \in Int BY <1>0
  <2>2. IsFiniteSet(1 .. n) BY <2>1, FS_Interval
  <2>3. old \subseteq 1 .. n BY <1>0 DEF With
  <2> QED BY <2>2, <2>3, FS_Subset
<1>4. Cardinality(old) \in Nat BY <1>3, FS_CardinalityType
<1> HIDE DEF n, more
<1>5. n + 1 \notin old BY <1>0 DEF With
<1>6. CASE row.status = status
  <2>1. new = old \cup {n + 1} BY <1>0, <1>1, <1>2, <1>6 DEF With
  <2>2. Cardinality(old \cup {n + 1}) = Cardinality(old) + 1 BY <1>3, <1>5, FS_AddElement
  <2> QED BY <1>3, <1>4, <1>6, <2>1, <2>2 DEF more
<1>7. CASE row.status # status
  <2>1. new = old BY <1>0, <1>1, <1>2, <1>7 DEF With
  <2> QED BY <1>3, <1>4, <1>7, <2>1 DEF more
<1> QED BY <1>6, <1>7

\* Behind rows without a status, rows that all have it, or none of them.
LEMMA CountOfJoined ==
  ASSUME NEW R, NEW rows \in Seq(R), NEW tail \in Seq(R), NEW mark,
         \A i \in DOMAIN rows : rows[i].status # mark, \A i \in DOMAIN tail : tail[i].status = mark
  PROVE  /\ Cardinality(With(rows \o tail, mark)) = Len(tail)
         /\ \A status : status # mark => With(rows \o tail, status) = With(rows, status)
<1> DEFINE n == Len(rows)
           k == Len(tail)
           all == rows \o tail
<1>0. n \in Nat /\ k \in Nat /\ DOMAIN rows = 1 .. n /\ DOMAIN tail = 1 .. k OBVIOUS
<1>1. all \in Seq(R) /\ Len(all) = n + k /\ \A i \in 1 .. (n + k) : all[i] = IF i <= n THEN rows[i] ELSE tail[i - n]
  BY ConcatProperties
<1>2. DOMAIN all = 1 .. (n + k) BY <1>1
<1> HIDE DEF n, k, all
<1>3. \A i \in 1 .. (n + k) : all[i].status = mark <=> i > n
  <2> TAKE i \in 1 .. (n + k)
  <2>1. CASE i <= n
    <3>1. i \in DOMAIN rows /\ all[i] = rows[i] BY <1>0, <1>1, <2>1
    <3> QED BY <1>0, <2>1, <3>1
  <2>2. CASE i > n
    <3>1. i - n \in DOMAIN tail /\ all[i] = tail[i - n] BY <1>0, <1>1, <2>2
    <3> QED BY <2>2, <3>1
  <2> QED BY <1>0, <2>1, <2>2
<1>4. With(all, mark) = (n + 1) .. (n + k) BY <1>0, <1>2, <1>3 DEF With
<1>5. Cardinality((n + 1) .. (n + k)) = k
  <2>1. n + 1 \in Int /\ n + k \in Int BY <1>0
  <2> DEFINE a == n + 1
             b == n + k
  <2> HIDE DEF a, b
  <2>2. Cardinality(a .. b) = IF a > b THEN 0 ELSE b - a + 1 BY <2>1, FS_Interval DEF a, b
  <2> QED BY <1>0, <2>2 DEF a, b
<1>6. ASSUME NEW status, status # mark PROVE With(all, status) = With(rows, status)
  <2>1. \A i \in 1 .. n : i \in 1 .. (n + k) /\ all[i] = rows[i] BY <1>0, <1>1
  <2>2. \A i \in 1 .. (n + k) : all[i].status = status => i \in 1 .. n BY <1>0, <1>3, <1>6
  <2> QED BY <1>0, <1>2, <2>1, <2>2 DEF With
<1> QED BY <1>4, <1>5, <1>6 DEF all, k

\* A sum is the same with values that are 0 behind it.
LEMMA TotalWithZeros ==
  ASSUME NEW v, NEW w, NEW n \in Nat, NEW k \in Nat, Len(v) = n, Len(w) = n + k,
         \A i \in 1 .. n : v[i] \in Int /\ w[i] = v[i], \A i \in (n + 1) .. (n + k) : w[i] = 0
  PROVE  Total(w) = Total(v)
<1> DEFINE S == {j \in Nat : j <= k => SumTo(w, n + j) = SumTo(w, n)}
<1>1. \A i \in Nat : SumTo(w, i + 1) = SumTo(w, i) + w[i + 1] BY SumStep
<1>2. SumTo(w, n) = SumTo(v, n) BY SumOfSame
<1>3. SumTo(v, n) \in Int BY SumIsInt
<1>4. 0 \in S
  <2>1. n + 0 = n OBVIOUS
  <2> QED BY <2>1
<1>5. ASSUME NEW j \in Nat, j \in S PROVE j + 1 \in S
  <2> SUFFICES ASSUME j + 1 <= k PROVE SumTo(w, n + (j + 1)) = SumTo(w, n) OBVIOUS
  <2>1. n + j \in Nat /\ (n + j) + 1 \in (n + 1) .. (n + k) /\ n + (j + 1) = (n + j) + 1 OBVIOUS
  <2>2. SumTo(w, (n + j) + 1) = SumTo(w, n + j) + w[(n + j) + 1] BY <1>1, <2>1
  <2>3. w[(n + j) + 1] = 0 BY <2>1
  <2>4. SumTo(w, n + j) = SumTo(w, n) BY <1>5
  <2>5. SumTo(w, (n + j) + 1) = SumTo(w, n) BY <1>2, <1>3, <2>2, <2>3, <2>4
  <2> QED BY <2>1, <2>5
<1> HIDE DEF S
<1>6. k \in S BY <1>4, <1>5, CountUp
<1>7. SumTo(w, n + k) = SumTo(w, n) BY <1>6 DEF S
<1> QED BY <1>2, <1>7 DEF Total
-----------------------------------------------------------------------------
(* The inductive invariant. *)

ReplayLots == [id : Nat \X Nat, bar : Nat, price : Nat \ {0}, qty : Nat \ {0}, target : Int, stop : Int, expires : Nat]
ReplayRows == [lot : Nat \X Nat, status : Statuses, cost : Int, net : Int]
Counters == Statuses \cup {"signals", "realized", "unrealized"}

ReplayTypes ==
    /\ plan \in ReplayPlans /\ rPhase \in {"next", "exit", "done", "cancelled", "failed"}
    /\ bar \in Nat /\ barCandle \in ReplayCandles /\ at \in Nat \ {0}
    /\ rLots \in Seq(ReplayLots) /\ slices \in Seq(FifoSlices(Nat \X Nat))
    /\ order = <<>> \/ order \in Nat \X Nat \X Nat
    /\ cycle \in Nat /\ entries \in Nat
    /\ batch \in Seq(ReplayRows) /\ stored \in Seq(ReplayRows) /\ entered \in Seq(ReplayLots)
    /\ metrics \in [Counters -> Int]

\* The lots of a cycle have the numbers up to n, each once.
OfCycle(lots, c) == {i \in DOMAIN lots : lots[i].id[1] = c}
Numbered(lots, c, n) ==
    /\ {lots[i].id[2] : i \in OfCycle(lots, c)} = 1 .. n
    /\ \A i, j \in OfCycle(lots, c) : lots[i].id[2] = lots[j].id[2] => i = j

\* The next entry, ordered or not, continues the numbers of the cycle that is open;
\* every lot that is open belongs to it.
LadderInv ==
    /\ \A i \in DOMAIN entered : entered[i].id[1] \in 1 .. cycle
    /\ \A c \in 1 .. cycle : \E n \in 0 .. MaximumEntries : Numbered(entered, c, n)
    /\ \A i \in DOMAIN rLots : rLots[i].id[1] = cycle
    /\ rPhase = "exit" => order = <<>>
    /\ order # <<>> => /\ order[3] = cycle /\ cycle >= 1 /\ order[2] < MaximumEntries
                       /\ entries = order[2] + 1 /\ Numbered(entered, cycle, order[2])
    /\ rLots # <<>> => cycle >= 1 /\ (order = <<>> => Numbered(entered, cycle, entries))

Running == rPhase \in {"next", "exit"}

\* Every target that may still be taken is that of the inventory as it is.
TargetOf(lot, held) ==
    NetProfitTarget(AcquisitionOf(lot, held), lot.qty, plan.targetPct, UnitCosts)
TargetsAreFresh ==
    /\ rPhase = "exit" => rChanged = rExited
    /\ Fifo /\ (rPhase = "next" \/ (rPhase = "exit" /\ ~rExited)) =>
          \A i \in DOMAIN rLots : rLots[i].target = TargetOf(rLots[i], slices)

\* The rows so far, the written ones and those of the batch.
AllRows == stored \o batch
Costs(rows) == [i \in DOMAIN rows |-> rows[i].cost]
Nets(rows) == [i \in DOMAIN rows |-> rows[i].net]
Paid(lots) == [i \in DOMAIN lots |-> (lots[i].price + ReplayFee) * lots[i].qty]
Quantities(lots) == [i \in DOMAIN lots |-> lots[i].qty]

\* A lot is open or has one row, and nothing else is either.
LotsAreApart ==
    /\ \A i, j \in DOMAIN AllRows : AllRows[i].lot = AllRows[j].lot => i = j
    /\ \A i, j \in DOMAIN rLots : rLots[i].id = rLots[j].id => i = j
    /\ \A i \in DOMAIN AllRows, j \in DOMAIN rLots : AllRows[i].lot # rLots[j].id
    /\ \A i \in DOMAIN AllRows : \E k \in DOMAIN entered : entered[k].id = AllRows[i].lot
    /\ \A i \in DOMAIN rLots : \E k \in DOMAIN entered : entered[k].id = rLots[i].id

\* What is counted and summed so far is that of the rows; what was paid is in a row
\* or in the inventory.
BooksBalance ==
    /\ \A i \in DOMAIN AllRows : AllRows[i].status # "OPEN"
    /\ \A s \in Statuses : metrics[s] = Cardinality(With(AllRows, s))
    /\ metrics.realized = Total(Nets(AllRows))
    /\ Total(Costs(AllRows)) + HeldCost = Total(Paid(entered))
    /\ Fifo => Quantity(slices) = Total(Quantities(rLots))

BooksInv == Running => LotsAreApart /\ BooksBalance

ReplayInv == ReplayTypes /\ LadderInv /\ TargetsAreFresh /\ BooksInv /\ TargetKeepsProfit /\ TradesReconcile

-----------------------------------------------------------------------------
(* Plans, candles, lots and rows. *)

\* What a plan allows.
LEMMA PlanFacts ==
  ASSUME plan \in ReplayPlans
  PROVE  /\ plan.targetPct \in Nat \ {0} /\ plan.first \in Nat \ {0} /\ plan.batch \in Nat \ {0}
         /\ plan.stopPct \in Nat /\ plan.holdBars \in Nat /\ plan.daily \in BOOLEAN /\ plan.ladder \in BOOLEAN
         /\ MaximumEntries \in Nat \ {0}
         /\ plan.ladder => \A n \in Nat : n < MaximumEntries => \A first : LadderQuantity(n, first) \in Nat \ {0}
<1>1. PlanOK(plan) BY ReplayPlansAreValid
<1>a. /\ {plan.targetPct, plan.maxEntries, plan.batch} \subseteq Nat \ {0} /\ plan.first \in Nat \ {0}
      /\ {plan.stopPct, plan.holdBars, plan.dipPct, plan.capital, plan.threshold} \subseteq Nat
  BY <1>1 DEF PlanOK
<1>b. {plan.ladder, plan.additional, plan.daily} \subseteq BOOLEAN BY <1>1, Zenon DEF PlanOK
<1>c. plan.daily \in BOOLEAN /\ plan.ladder \in BOOLEAN BY <1>b, Zenon
<1>2. /\ plan.targetPct \in Nat \ {0} /\ plan.maxEntries \in Nat \ {0} /\ plan.batch \in Nat \ {0}
      /\ plan.stopPct \in Nat /\ plan.holdBars \in Nat /\ plan.first \in Nat \ {0}
  BY <1>a
<1>3. /\ plan.high \in Seq(Nat \ {0}) /\ plan.low \in Seq(Nat \ {0}) /\ Len(plan.high) = Len(plan.low)
      /\ plan.ladder => plan.high # <<>> BY <1>1 DEF PlanOK
<1>4. Len(plan.high) \in Nat /\ (plan.ladder => Len(plan.high) # 0)
  <2>1. Len(plan.high) \in Nat BY <1>3
  <2>2. Len(plan.high) = 0 => plan.high = <<>> BY <1>3, EmptySeq
  <2> QED BY <1>3, <2>1, <2>2
<1>5. Min({plan.maxEntries, Len(plan.high)}) = IF plan.maxEntries <= Len(plan.high) THEN plan.maxEntries ELSE Len(plan.high)
  <2>1. plan.maxEntries \in Int /\ Len(plan.high) \in Int BY <1>2, <1>4
  <2> QED BY <2>1, OfTwo
<1>6. MaximumEntries \in Nat \ {0} /\ (plan.ladder => MaximumEntries <= Len(plan.high))
  <2>1. CASE plan.ladder
    <3>1. MaximumEntries = Min({plan.maxEntries, Len(plan.high)}) BY <2>1 DEF MaximumEntries
    <3> QED BY <1>2, <1>4, <1>5, <2>1, <3>1
  <2>2. CASE ~ plan.ladder
    <3>1. MaximumEntries = plan.maxEntries BY <2>2 DEF MaximumEntries
    <3> QED BY <1>2, <2>2, <3>1
  <2> QED BY <2>1, <2>2
<1>7. ASSUME plan.ladder, NEW n \in Nat, NEW first, n < MaximumEntries PROVE LadderQuantity(n, first) \in Nat \ {0}
  <2>1. n + 1 \in 1 .. Len(plan.high) /\ n + 1 \in 1 .. Len(plan.low) BY <1>3, <1>4, <1>6, <1>7
  <2>2. ASSUME NEW s \in Seq(Nat \ {0}), NEW i \in 1 .. Len(s) PROVE s[i] \in Nat \ {0} OBVIOUS
  <2>3. plan.high[n + 1] \in Nat \ {0} BY <1>3, <2>1, <2>2
  <2>4. plan.low[n + 1] \in Nat \ {0} BY <1>3, <2>1, <2>2
  <2> QED BY <2>3, <2>4 DEF LadderQuantity
<1> QED BY <1>2, <1>6, <1>7, <1>c

\* The prices of a candle.
LEMMA CandleFacts ==
  ASSUME NEW k \in ReplayCandles
  PROVE  k.o \in Nat \ {0} /\ k.c \in Nat \ {0} /\ k.l \in Nat /\ k.h \in Nat
<1>1. k \in [o : Nat, h : Nat, l : Nat, c : Nat] /\ 0 < k.l /\ k.l <= Min({k.o, k.c}) BY ReplayCandlesAreCandles
<1>2. k.o \in Int /\ k.c \in Int /\ k.o \in Nat /\ k.c \in Nat /\ k.l \in Nat /\ k.h \in Nat BY <1>1
<1>3. Min({k.o, k.c}) = IF k.o <= k.c THEN k.o ELSE k.c BY <1>2, OfTwo
<1> QED BY <1>1, <1>2, <1>3

FillOf(b, open, pos, cyc) ==
    /\ plan \in ReplayPlans /\ b \in Nat /\ open \in Nat \ {0} /\ pos \in Nat /\ cyc \in Nat
    /\ pos < MaximumEntries

\* The lot an order becomes.
LEMMA NewLotIs ==
  ASSUME NEW b, NEW open, NEW pos, NEW cyc, FillOf(b, open, pos, cyc)
  PROVE  NewLot(b, open, pos, cyc) \in ReplayLots /\ NewLot(b, open, pos, cyc).id = <<cyc, pos + 1>>
<1>0. /\ plan \in ReplayPlans /\ b \in Nat /\ open \in Nat \ {0} /\ pos \in Nat /\ cyc \in Nat
      /\ pos < MaximumEntries BY DEF FillOf
<1> DEFINE lot == NewLot(b, open, pos, cyc)
           price == open + ReplaySlip
           first == IF firstPrice = 0 THEN price ELSE firstPrice
<1>1. price \in Nat \ {0} BY <1>0, ReplayBoundsAreNatural
<1>2. LotQuantity(pos) \in Nat \ {0}
  <2>1. plan.first \in Nat BY <1>0, PlanFacts
  <2> QED BY <1>0, <2>1, LotQuantityIsPositive
<1>3. plan.ladder /\ Fifo => LadderQuantity(pos, first) \in Nat \ {0}
  <2> HIDE DEF first
  <2> QED BY <1>0, PlanFacts
<1>4. /\ lot.id = <<cyc, pos + 1>> /\ lot.bar = b /\ lot.price = price
      /\ lot.qty = IF plan.ladder /\ Fifo THEN LadderQuantity(pos, first) ELSE LotQuantity(pos)
      /\ lot.target = (price * (100 + plan.targetPct)) \div 100
      /\ lot.stop = IF plan.stopPct = 0 THEN 0 ELSE (price * (100 - plan.stopPct)) \div 100
      /\ lot.expires = IF plan.holdBars = 0 THEN 0 ELSE b + ExpiryBars
      /\ lot = [id |-> lot.id, bar |-> lot.bar, price |-> lot.price, qty |-> lot.qty,
                target |-> lot.target, stop |-> lot.stop, expires |-> lot.expires]
  BY DEF NewLot
<1> HIDE DEF lot, price, first
<1>5. lot.qty \in Nat \ {0} BY <1>2, <1>3, <1>4
<1>6. lot.target \in Int
  <2>1. plan.targetPct \in Nat BY <1>0, PlanFacts
  <2>2. price * (100 + plan.targetPct) \in Int BY <1>1, <2>1
  <2> QED BY <1>4, <2>2
<1>7. lot.stop \in Int
  <2>1. plan.stopPct \in Nat BY <1>0, PlanFacts
  <2>2. price * (100 - plan.stopPct) \in Int BY <1>1, <2>1
  <2> QED BY <1>4, <2>2
<1>8. lot.expires \in Nat
  <2>1. plan.holdBars \in Nat BY <1>0, PlanFacts
  <2>2. plan.holdBars * SessionBars \in Nat /\ plan.holdBars * 1 \in Nat BY <2>1, ReplayBoundsAreNatural
  <2>3. ExpiryBars \in Nat BY <2>2 DEF ExpiryBars
  <2> QED BY <1>0, <1>4, <2>3
<1>9. lot.id \in Nat \X Nat
  <2>1. pos + 1 \in Nat BY <1>0
  <2> QED BY <1>0, <1>4, <2>1
<1> QED BY <1>0, <1>1, <1>4, <1>5, <1>6, <1>7, <1>8, <1>9 DEF lot, ReplayLots

\* A fresh target is all that a lot is given anew.
LEMMA RetargetedIs ==
  ASSUME plan \in ReplayPlans, NEW lots \in Seq(ReplayLots), NEW held \in Seq(FifoSlices(Nat \X Nat))
  PROVE  LET new == Retargeted(lots, held) IN
         /\ new \in Seq(ReplayLots) /\ Len(new) = Len(lots)
         /\ \A i \in 1 .. Len(lots) : /\ new[i].id = lots[i].id /\ new[i].price = lots[i].price
                                      /\ new[i].qty = lots[i].qty
                                      /\ Fifo => new[i].target = TargetOf(new[i], held)
<1> DEFINE n == Len(lots)
           goal(i) == NetProfitTarget(AcquisitionOf(lots[i], held), lots[i].qty, plan.targetPct, UnitCosts)
           new == Retargeted(lots, held)
<1>1. n \in Nat /\ DOMAIN lots = 1 .. n /\ \A i \in 1 .. n : lots[i] \in ReplayLots OBVIOUS
<1>2. CASE ~ Fifo
  <2>1. new = lots BY <1>2 DEF Retargeted
  <2> QED BY <1>1, <1>2, <2>1
<1>3. CASE Fifo
  <2>1. new = [i \in 1 .. n |-> [lots[i] EXCEPT !.target = goal(i)]] BY <1>3 DEF Retargeted
  <2> HIDE DEF new
  <2>2. ASSUME NEW i \in 1 .. n PROVE goal(i) \in Int
    <3>1. lots[i].qty \in Nat \ {0} /\ lots[i].qty \in Nat BY <1>1 DEF ReplayLots
    <3>2. MatchCost(held, lots[i].qty) \in Int BY <3>1, QueueCosts
    <3>3. AcquisitionOf(lots[i], held) \in Int
      <4>1. ReplayFee \in Nat BY ReplayBoundsAreNatural
      <4>2. ReplayFee * lots[i].qty \in Int BY <3>1, <4>1
      <4>3. AcquisitionOf(lots[i], held) = MatchCost(held, lots[i].qty) + ReplayFee * lots[i].qty
        BY <1>3 DEF AcquisitionOf
      <4> QED BY <3>2, <4>2, <4>3
    <3>4. plan.targetPct \in Nat /\ UnitCosts \in Int
      <4>1. ReplayFee \in Nat /\ ReplaySlip \in Nat BY ReplayBoundsAreNatural
      <4>2. plan.targetPct \in Nat BY PlanFacts
      <4> QED BY <4>1, <4>2 DEF UnitCosts
    <3> QED BY <3>1, <3>3, <3>4, TargetRepays
  <2>3. ASSUME NEW i \in 1 .. n
        PROVE  new[i] \in ReplayLots /\ new[i].id = lots[i].id /\ new[i].price = lots[i].price
               /\ new[i].qty = lots[i].qty /\ new[i].target = goal(i)
    <3>1. lots[i] \in ReplayLots /\ goal(i) \in Int BY <1>1, <2>2
    <3>2. new[i] = [lots[i] EXCEPT !.target = goal(i)] BY <2>1
    <3> HIDE DEF goal
    <3> QED BY <3>1, <3>2 DEF ReplayLots
  <2>4. new \in [1 .. n -> ReplayLots] BY <2>1, <2>3
  <2>5. new \in Seq(ReplayLots) /\ Len(new) = n BY <1>1, <2>4, SeqOfFunction
  <2>6. ASSUME NEW i \in 1 .. n PROVE TargetOf(new[i], held) = goal(i)
    <3>1. AcquisitionOf(new[i], held) = AcquisitionOf(lots[i], held) BY <1>3, <2>3 DEF AcquisitionOf
    <3>2. new[i].qty = lots[i].qty BY <2>3
    <3> QED BY <3>1, <3>2 DEF TargetOf
  <2> QED BY <2>3, <2>5, <2>6 DEF new
<1> QED BY <1>2, <1>3

-----------------------------------------------------------------------------
(* The numbers of the lots of a cycle. *)

\* One more lot carries on the numbers of its cycle and leaves those of the others.
LEMMA NumberedGrows ==
  ASSUME NEW lots \in Seq(ReplayLots), NEW lot \in ReplayLots, NEW c, NEW n \in Nat, Numbered(lots, c, n)
  PROVE  /\ lot.id = <<c, n + 1>> => Numbered(Append(lots, lot), c, n + 1)
         /\ lot.id[1] # c => Numbered(Append(lots, lot), c, n)
<1> DEFINE m == Len(lots)
           more == Append(lots, lot)
<1>1. m \in Nat /\ DOMAIN lots = 1 .. m OBVIOUS
<1>2. Len(more) = m + 1 /\ (\A i \in 1 .. m : more[i] = lots[i]) /\ more[m + 1] = lot /\ DOMAIN more = 1 .. (m + 1)
  <2>1. more \in Seq(ReplayLots) /\ Len(more) = m + 1 /\ (\A i \in 1 .. m : more[i] = lots[i]) /\ more[m + 1] = lot
    BY AppendProperties
  <2> QED BY <2>1
<1> HIDE DEF m, more
<1>3. ASSUME lot.id[1] # c PROVE Numbered(more, c, n)
  <2>1. OfCycle(more, c) = OfCycle(lots, c) BY <1>1, <1>2, <1>3 DEF OfCycle
  <2>2. \A i \in OfCycle(lots, c) : more[i] = lots[i] BY <1>1, <1>2 DEF OfCycle
  <2> QED BY <2>1, <2>2 DEF Numbered
<1>4. ASSUME lot.id = <<c, n + 1>> PROVE Numbered(more, c, n + 1)
  <2>1. OfCycle(more, c) = OfCycle(lots, c) \cup {m + 1} BY <1>1, <1>2, <1>4 DEF OfCycle
  <2>2. \A i \in OfCycle(lots, c) : i \in 1 .. m /\ more[i] = lots[i] BY <1>1, <1>2 DEF OfCycle
  <2>3. more[m + 1].id[2] = n + 1 BY <1>2, <1>4
  <2>4. /\ {lots[i].id[2] : i \in OfCycle(lots, c)} = 1 .. n
        /\ \A i, j \in OfCycle(lots, c) : lots[i].id[2] = lots[j].id[2] => i = j BY DEF Numbered
  <2>5. {more[i].id[2] : i \in OfCycle(more, c)} = 1 .. (n + 1)
    <3>1. {more[i].id[2] : i \in OfCycle(more, c)} = {lots[i].id[2] : i \in OfCycle(lots, c)} \cup {n + 1}
      BY <2>1, <2>2, <2>3
    <3>2. (1 .. n) \cup {n + 1} = 1 .. (n + 1) OBVIOUS
    <3> QED BY <2>4, <3>1, <3>2
  <2>6. \A i \in OfCycle(lots, c) : lots[i].id[2] # n + 1
    <3>1. \A i \in OfCycle(lots, c) : lots[i].id[2] \in 1 .. n BY <2>4
    <3> QED BY <3>1
  <2>7. \A i, j \in OfCycle(more, c) : more[i].id[2] = more[j].id[2] => i = j BY <2>1, <2>2, <2>3, <2>4, <2>6
  <2> QED BY <2>5, <2>7 DEF Numbered
<1> QED BY <1>3, <1>4 DEF more

\* No two lots are one, and the next number is that of none.
LEMMA NumbersDiffer ==
  ASSUME NEW lots \in Seq(ReplayLots), NEW c, NEW n \in Nat, Numbered(lots, c, n)
  PROVE  /\ \A i, j \in DOMAIN lots : lots[i].id[1] = c /\ lots[i].id = lots[j].id => i = j
         /\ \A i \in DOMAIN lots : lots[i].id # <<c, n + 1>>
<1>1. /\ {lots[i].id[2] : i \in OfCycle(lots, c)} = 1 .. n
      /\ \A i, j \in OfCycle(lots, c) : lots[i].id[2] = lots[j].id[2] => i = j BY DEF Numbered
<1>2. ASSUME NEW i \in DOMAIN lots, NEW j \in DOMAIN lots, lots[i].id[1] = c, lots[i].id = lots[j].id PROVE i = j
  <2>1. i \in OfCycle(lots, c) /\ j \in OfCycle(lots, c) BY <1>2 DEF OfCycle
  <2> QED BY <1>1, <1>2, <2>1
<1>3. ASSUME NEW i \in DOMAIN lots, lots[i].id = <<c, n + 1>> PROVE FALSE
  <2>1. i \in OfCycle(lots, c) /\ lots[i].id[2] = n + 1 BY <1>3 DEF OfCycle
  <2>2. lots[i].id[2] \in 1 .. n BY <1>1, <2>1
  <2> QED BY <2>1, <2>2
<1> QED BY <1>2, <1>3

\* There are as many lots of a cycle as numbers.
LEMMA NumberedCount ==
  ASSUME NEW lots \in Seq(ReplayLots), NEW c, NEW n \in Nat, Numbered(lots, c, n)
  PROVE  Cardinality(OfCycle(lots, c)) = n /\ {lots[i].id[2] : i \in OfCycle(lots, c)} = 1 .. n
<1> DEFINE S == OfCycle(lots, c)
           f == [i \in S |-> lots[i].id[2]]
<1>1. /\ {lots[i].id[2] : i \in S} = 1 .. n
      /\ \A i, j \in S : lots[i].id[2] = lots[j].id[2] => i = j BY DEF Numbered
<1> HIDE DEF S
<1>3. f \in [S -> 1 .. n] BY <1>1
<1>4. \A i, j \in S : f[i] = f[j] => i = j BY <1>1
<1>5. \A k \in 1 .. n : \E i \in S : f[i] = k BY <1>1
<1>6. Cardinality(S) = n
  <2> HIDE DEF f
  <2> QED BY <1>3, <1>4, <1>5, RanksCount
<1> QED BY <1>1, <1>6 DEF S

\* The lot of the order that is pending is a new one.
LEMMA FillIs ==
  ASSUME ReplayTypes, LadderInv, NEW k \in ReplayCandles, order # <<>>
  PROVE  LET lot == NewLot(bar + 1, k.o, order[2], order[3])
             held == Add(slices, lot.id, lot.price, lot.qty) IN
         /\ lot \in ReplayLots /\ lot.id = <<cycle, order[2] + 1>> /\ order[2] \in Nat
         /\ \A i \in DOMAIN entered : entered[i].id # lot.id
         /\ QueueHas(Nat \X Nat, held, slices, lot.price, lot.qty)
<1> DEFINE b == bar + 1
           open == k.o
           pos == order[2]
           cyc == order[3]
           lot == NewLot(b, open, pos, cyc)
           held == Add(slices, lot.id, lot.price, lot.qty)
<1>1. /\ plan \in ReplayPlans /\ bar \in Nat /\ entered \in Seq(ReplayLots)
      /\ order = <<>> \/ order \in Nat \X Nat \X Nat
      /\ cycle \in Nat /\ slices \in Seq(FifoSlices(Nat \X Nat)) BY DEF ReplayTypes
<1>2. order[3] = cycle /\ order[2] < MaximumEntries /\ Numbered(entered, cycle, order[2]) BY DEF LadderInv
<1>3. b \in Nat /\ open \in Nat \ {0} /\ pos \in Nat /\ cyc \in Nat /\ pos < MaximumEntries BY <1>1, <1>2, CandleFacts
<1> HIDE DEF b, open, lot, held
<1>4. FillOf(b, open, pos, cyc) BY <1>1, <1>3 DEF FillOf
<1>5. lot \in ReplayLots /\ lot.id = <<cyc, pos + 1>> BY <1>4, NewLotIs DEF lot
<1>6. \A i \in DOMAIN entered : entered[i].id # <<cycle, pos + 1>> BY <1>1, <1>2, <1>3, NumbersDiffer
<1>7. lot.id \in Nat \X Nat /\ lot.price \in Nat \ {0} /\ lot.qty \in Nat \ {0} BY <1>5 DEF ReplayLots
<1>8. QueueBuy(Nat \X Nat, slices, lot.id, lot.price, lot.qty) BY <1>1, <1>7 DEF QueueBuy
<1>9. QueueHas(Nat \X Nat, held, slices, lot.price, lot.qty) BY <1>8, QueuePurchase DEF held
<1> QED BY <1>2, <1>3, <1>5, <1>6, <1>9 DEF lot, held, b, open

\* A fill carries on the open cycle.
LEMMA FillKeepsLadder ==
  ASSUME ReplayTypes, LadderInv, NEW k \in ReplayCandles, NEW decision, NextBar(k, decision)
  PROVE  /\ entered' \in Seq(ReplayLots) /\ rLots' \in Seq(ReplayLots) /\ entries' \in Nat
         /\ LadderInv'
<1> DEFINE lot == NewLot(bar + 1, k.o, order[2], order[3])
           fill == order # <<>> /\ WithinCapital(lot.price, lot.qty)
           held == Add(slices, lot.id, lot.price, lot.qty)
<1>1. /\ plan \in ReplayPlans /\ bar \in Nat /\ rLots \in Seq(ReplayLots) /\ entered \in Seq(ReplayLots)
      /\ order = <<>> \/ order \in Nat \X Nat \X Nat
      /\ cycle \in Nat /\ entries \in Nat /\ slices \in Seq(FifoSlices(Nat \X Nat)) BY DEF ReplayTypes
<1>2. /\ order' = <<>> /\ cycle' = cycle /\ plan' = plan /\ rPhase' = "exit"
      /\ rLots' = IF fill THEN Retargeted(Append(rLots, lot), held) ELSE rLots
      /\ entered' = IF fill THEN Append(entered, lot) ELSE entered
      /\ entries' = IF order # <<>> /\ ~fill THEN entries - 1 ELSE entries BY DEF NextBar
<1>3. MaximumEntries' = MaximumEntries BY <1>2 DEF MaximumEntries
<1>4. /\ \A i \in DOMAIN entered : entered[i].id[1] \in 1 .. cycle
      /\ \A c \in 1 .. cycle : \E n \in 0 .. MaximumEntries : Numbered(entered, c, n)
      /\ \A i \in DOMAIN rLots : rLots[i].id[1] = cycle
      /\ order # <<>> => /\ order[3] = cycle /\ cycle >= 1 /\ order[2] < MaximumEntries
                         /\ entries = order[2] + 1 /\ Numbered(entered, cycle, order[2])
      /\ rLots # <<>> => cycle >= 1 /\ (order = <<>> => Numbered(entered, cycle, entries)) BY DEF LadderInv
<1> HIDE DEF fill, lot, held
<1>5. CASE ~ fill
  <2>1. rLots' = rLots /\ entered' = entered BY <1>2, <1>5
  <2>2. order # <<>> => entries' = order[2] /\ order[2] \in Nat
    <3> SUFFICES ASSUME order # <<>> PROVE entries' = order[2] /\ order[2] \in Nat OBVIOUS
    <3>1. order[2] \in Nat BY <1>1
    <3>2. entries = order[2] + 1 BY <1>4
    <3>3. entries' = entries - 1 BY <1>2, <1>5
    <3> QED BY <3>1, <3>2, <3>3
  <2>3. order = <<>> => entries' = entries BY <1>2
  <2>4. entries' \in Nat BY <1>1, <2>2, <2>3
  <2>5. rLots # <<>> => cycle >= 1 /\ Numbered(entered, cycle, entries') BY <1>4, <2>2, <2>3
  <2>6. LadderInv' BY <1>2, <1>3, <1>4, <2>1, <2>5 DEF LadderInv, OfCycle, Numbered
  <2> QED BY <1>1, <2>1, <2>4, <2>6
<1>6. CASE fill
  <2>1. order # <<>> BY <1>6 DEF fill
  <2>2. /\ order[2] \in Nat /\ order[3] = cycle /\ cycle >= 1 /\ order[2] < MaximumEntries
        /\ entries = order[2] + 1 /\ Numbered(entered, cycle, order[2]) BY <1>1, <1>4, <2>1
  <2>4. lot \in ReplayLots /\ lot.id = <<cycle, order[2] + 1>> BY <2>1, FillIs DEF lot
  <2>5. rLots' = Retargeted(Append(rLots, lot), held) /\ entered' = Append(entered, lot) /\ entries' = entries
    BY <1>2, <1>6
  <2>6. held \in Seq(FifoSlices(Nat \X Nat))
    <3>1. QueueHas(Nat \X Nat, held, slices, lot.price, lot.qty) BY <2>1, FillIs DEF lot, held
    <3> QED BY <3>1 DEF QueueHas
  <2>7. /\ Append(rLots, lot) \in Seq(ReplayLots) /\ Len(Append(rLots, lot)) = Len(rLots) + 1
        /\ \A i \in 1 .. Len(rLots) : Append(rLots, lot)[i] = rLots[i]
        /\ Append(rLots, lot)[Len(rLots) + 1] = lot BY <1>1, <2>4, AppendProperties
  <2>8. \A i \in DOMAIN rLots' : rLots'[i].id[1] = cycle
    <3> DEFINE more == Append(rLots, lot)
    <3>1. \A i \in 1 .. Len(more) : more[i].id[1] = cycle
      <4> TAKE i \in 1 .. Len(more)
      <4>1. CASE i \in 1 .. Len(rLots) BY <1>1, <1>4, <2>7, <4>1
      <4>2. CASE i = Len(rLots) + 1 BY <2>4, <2>7, <4>2
      <4> QED BY <1>1, <2>7, <4>1, <4>2
    <3> HIDE DEF more
    <3>2. more \in Seq(ReplayLots) BY <2>7 DEF more
    <3>3. /\ Retargeted(more, held) \in Seq(ReplayLots) /\ Len(Retargeted(more, held)) = Len(more)
          /\ \A i \in 1 .. Len(more) : Retargeted(more, held)[i].id = more[i].id BY <1>1, <2>6, <3>2, RetargetedIs
    <3>4. rLots' = Retargeted(more, held) BY <2>5 DEF more
    <3> QED BY <3>1, <3>3, <3>4
  <2>9. rLots' \in Seq(ReplayLots) BY <1>1, <2>5, <2>6, <2>7, RetargetedIs
  <2>10. entered' \in Seq(ReplayLots) BY <1>1, <2>4, <2>5
  <2>11. \A i \in DOMAIN entered' : entered'[i].id[1] \in 1 .. cycle
    <3>1. /\ Len(Append(entered, lot)) = Len(entered) + 1
          /\ \A i \in 1 .. Len(entered) : Append(entered, lot)[i] = entered[i]
          /\ Append(entered, lot)[Len(entered) + 1] = lot BY <1>1, <2>4, AppendProperties
    <3>2. lot.id[1] \in 1 .. cycle BY <1>1, <2>2, <2>4
    <3>3. Append(entered, lot) \in Seq(ReplayLots) BY <2>5, <2>10
    <3>4. DOMAIN Append(entered, lot) = 1 .. (Len(entered) + 1) /\ DOMAIN entered = 1 .. Len(entered) BY <1>1, <3>1, <3>3
    <3> QED BY <1>1, <1>4, <2>5, <3>1, <3>2, <3>4
  <2>12. Numbered(entered', cycle, order[2] + 1) BY <1>1, <2>2, <2>4, <2>5, NumberedGrows
  <2>13. \A c \in 1 .. cycle : \E n \in 0 .. MaximumEntries : Numbered(entered', c, n)
    <3> TAKE c \in 1 .. cycle
    <3>1. CASE c = cycle
      <4>1. order[2] + 1 \in 0 .. MaximumEntries
        <5>1. MaximumEntries \in Nat BY <1>1, PlanFacts
        <5> QED BY <2>2, <5>1
      <4> QED BY <2>12, <3>1, <4>1
    <3>2. CASE c # cycle
      <4>1. PICK n \in 0 .. MaximumEntries : Numbered(entered, c, n) BY <1>4
      <4>2. lot.id[1] # c BY <2>4, <3>2
      <4>3. n \in Nat OBVIOUS
      <4>4. Numbered(entered', c, n) BY <1>1, <2>4, <2>5, <4>1, <4>2, <4>3, NumberedGrows
      <4> QED BY <4>4
    <3> QED BY <3>1, <3>2
  <2>14. Numbered(entered', cycle, entries') BY <2>2, <2>5, <2>12
  <2>15. LadderInv' BY <1>2, <1>3, <2>2, <2>8, <2>11, <2>13, <2>14 DEF LadderInv
  <2> QED BY <1>1, <2>5, <2>9, <2>10, <2>15
<1> QED BY <1>5, <1>6

\* What a bar orders is the next number of its cycle.
LEMMA BarKeepsLadder ==
  ASSUME ReplayTypes, LadderInv, EndBar
  PROVE  /\ order' = <<>> \/ order' \in Nat \X Nat \X Nat
         /\ cycle' \in Nat /\ entries' \in Nat /\ rLots' \in Seq(ReplayLots) /\ LadderInv'
<1> DEFINE flat == rLots = <<>>
           starts == InWindow /\ buy /\ flat
           number == EntriesLeft(flat)
           here == IF starts THEN cycle + 1 ELSE cycle
<1>1. /\ plan \in ReplayPlans /\ bar \in Nat /\ rLots \in Seq(ReplayLots) /\ entered \in Seq(ReplayLots)
      /\ cycle \in Nat /\ entries \in Nat /\ slices \in Seq(FifoSlices(Nat \X Nat)) BY DEF ReplayTypes
<1>2. /\ rPhase = "exit" /\ rPhase' = "next" /\ cycle' = here /\ plan' = plan /\ entered' = entered
      /\ rLots' = IF rChanged THEN Retargeted(rLots, slices) ELSE rLots
      /\ entries' = IF order' = <<>> THEN number ELSE number + 1 BY DEF EndBar
<1>3. \/ order' = <<>>
      \/ InWindow /\ LadderOrder /\ order' = <<bar, number, rLots[1].id[1]>>
      \/ InWindow /\ SignalOrder /\ order' = <<bar, number, here>>
  BY DEF EndBar
<1>4. /\ \A i \in DOMAIN entered : entered[i].id[1] \in 1 .. cycle
      /\ \A c \in 1 .. cycle : \E n \in 0 .. MaximumEntries : Numbered(entered, c, n)
      /\ \A i \in DOMAIN rLots : rLots[i].id[1] = cycle
      /\ rLots # <<>> => cycle >= 1 /\ Numbered(entered, cycle, entries) BY <1>2 DEF LadderInv
<1>5. number = IF flat THEN 0 ELSE entries BY DEF EntriesLeft
<1>6. MaximumEntries' = MaximumEntries /\ MaximumEntries \in Nat \ {0} BY <1>1, <1>2, PlanFacts DEF MaximumEntries
<1> HIDE DEF flat, starts, number, here
<1>7. rLots' \in Seq(ReplayLots) /\ Len(rLots') = Len(rLots) /\ \A i \in 1 .. Len(rLots) : rLots'[i].id = rLots[i].id
  <2>1. CASE rChanged BY <1>1, <1>2, <2>1, RetargetedIs
  <2>2. CASE ~ rChanged BY <1>1, <1>2, <2>2
  <2> QED BY <2>1, <2>2
<1>8. flat <=> rLots' = <<>>
  <2>1. flat <=> Len(rLots) = 0 BY <1>1, EmptySeq DEF flat
  <2>2. rLots' = <<>> <=> Len(rLots') = 0 BY <1>7, EmptySeq
  <2> QED BY <1>7, <2>1, <2>2
<1>9. flat => ~ LadderOrder BY DEF flat, LadderOrder
<1>10. SignalOrder => buy /\ (flat \/ entries < MaximumEntries) BY DEF SignalOrder, flat
<1>11. LadderOrder => entries < MaximumEntries BY DEF LadderOrder
<1>12. ~ flat => here = cycle /\ number = entries /\ Numbered(entered, cycle, entries) /\ rLots[1].id[1] = cycle /\ cycle >= 1
  <2> SUFFICES ASSUME ~ flat PROVE here = cycle /\ number = entries /\ Numbered(entered, cycle, entries)
                                   /\ rLots[1].id[1] = cycle /\ cycle >= 1
    OBVIOUS
  <2>1. here = cycle /\ number = entries BY <1>5 DEF here, starts
  <2>2. Numbered(entered, cycle, entries) /\ cycle >= 1 BY <1>4 DEF flat
  <2>3. Len(rLots) # 0 /\ Len(rLots) \in Nat BY <1>1, EmptySeq DEF flat
  <2>4. 1 \in DOMAIN rLots BY <1>1, <2>3
  <2>5. rLots[1].id[1] = cycle BY <1>4, <2>4
  <2> QED BY <2>1, <2>2, <2>5
<1>13. flat => number = 0 BY <1>5
<1>14. flat /\ InWindow /\ buy => here = cycle + 1 BY DEF here, starts
<1>15. here = cycle \/ here = cycle + 1 BY DEF here
<1>16. /\ here \in Nat /\ number \in Nat /\ here >= cycle
       /\ flat \/ here = cycle
  <2>1. here \in Nat /\ here >= cycle BY <1>1, <1>15
  <2>2. number \in Nat BY <1>1, <1>5
  <2> QED BY <1>12, <2>1, <2>2
<1>17. Numbered(entered, cycle + 1, 0)
  <2>1. \A i \in DOMAIN entered : entered[i].id[1] # cycle + 1
    <3> TAKE i \in DOMAIN entered
    <3>1. entered[i].id[1] \in 1 .. cycle BY <1>4
    <3> QED BY <1>1, <3>1
  <2>2. OfCycle(entered, cycle + 1) = {} BY <2>1 DEF OfCycle
  <2>3. 1 .. 0 = {} OBVIOUS
  <2> QED BY <2>2, <2>3 DEF Numbered
<1>18. \A i \in DOMAIN entered : entered[i].id[1] \in 1 .. here
  <2> TAKE i \in DOMAIN entered
  <2>1. entered[i].id[1] \in 1 .. cycle BY <1>4
  <2> QED BY <1>1, <1>16, <2>1
<1>19. \A c \in 1 .. here : \E n \in 0 .. MaximumEntries : Numbered(entered, c, n)
  <2> TAKE c \in 1 .. here
  <2>1. CASE c \in 1 .. cycle BY <1>4, <2>1
  <2>2. CASE c = cycle + 1 
    <3>1. 0 \in 0 .. MaximumEntries BY <1>6
    <3> QED BY <1>17, <2>2, <3>1
  <2> QED BY <1>1, <1>15, <2>1, <2>2
<1>20. \A i \in DOMAIN rLots' : rLots'[i].id[1] = here
  <2>1. \A i \in DOMAIN rLots' : i \in DOMAIN rLots /\ rLots'[i].id = rLots[i].id BY <1>1, <1>7
  <2>2. flat => \A i \in DOMAIN rLots' : FALSE BY <1>7, <1>8
  <2> QED BY <1>4, <1>16, <2>1, <2>2
<1>21. rLots' # <<>> => here >= 1 BY <1>8, <1>12
<1>22. CASE order' = <<>>
  <2>1. entries' = number BY <1>2, <1>22
  <2>2. rLots' # <<>> => Numbered(entered, here, entries') BY <1>8, <1>12, <2>1
  <2>3. LadderInv' BY <1>2, <1>6, <1>18, <1>19, <1>20, <1>21, <1>22, <2>2 DEF LadderInv, OfCycle, Numbered
  <2> QED BY <1>2, <1>7, <1>16, <1>22, <2>1, <2>3
<1>23. CASE order' # <<>>
  <2>1. order' = <<bar, number, here>> /\ here >= 1 /\ number < MaximumEntries /\ Numbered(entered, here, number)
    <3>1. CASE LadderOrder /\ order' = <<bar, number, rLots[1].id[1]>> BY <1>9, <1>11, <1>12, <3>1
    <3>2. CASE InWindow /\ SignalOrder /\ order' = <<bar, number, here>> /\ flat
      <4>1. here = cycle + 1 /\ number = 0 BY <1>10, <1>13, <1>14, <3>2
      <4> QED BY <1>1, <1>6, <1>17, <3>2, <4>1
    <3>3. CASE InWindow /\ SignalOrder /\ order' = <<bar, number, here>> /\ ~ flat BY <1>10, <1>12, <3>3
    <3> QED BY <1>3, <1>23, <3>1, <3>2, <3>3
  <2>2. entries' = number + 1 BY <1>2, <1>23
  <2>3. order' \in Nat \X Nat \X Nat BY <1>1, <1>16, <2>1
  <2>4. order'[2] = number /\ order'[3] = here BY <2>1
  <2> HIDE DEF LadderOrder, SignalOrder, InWindow
  <2>5. order' # <<>> => /\ order'[3] = here /\ here >= 1 /\ order'[2] < MaximumEntries
                         /\ entries' = order'[2] + 1 /\ Numbered(entered, here, order'[2])
    BY <2>1, <2>2, <2>4
  <2>6. LadderInv' BY <1>2, <1>6, <1>18, <1>19, <1>20, <1>21, <1>23, <2>5 DEF LadderInv, OfCycle, Numbered
  <2> QED BY <1>2, <1>7, <1>16, <2>2, <2>3, <2>6
<1> QED BY <1>22, <1>23

-----------------------------------------------------------------------------
(* The rows of the lots that leave. *)

\* A number that no fee makes anything else.
LEMMA AcquisitionIsInt ==
  ASSUME NEW lot \in ReplayLots, NEW held \in Seq(FifoSlices(Nat \X Nat))
  PROVE  /\ AcquisitionOf(lot, held) \in Int
         /\ Fifo => MatchCost(held, lot.qty) \in Int
                    /\ AcquisitionOf(lot, held) = MatchCost(held, lot.qty) + ReplayFee * lot.qty
         /\ ~ Fifo => AcquisitionOf(lot, held) = (lot.price + ReplayFee) * lot.qty
<1>1. lot.qty \in Nat /\ lot.price \in Nat BY DEF ReplayLots
<1>2. ReplayFee \in Nat BY ReplayBoundsAreNatural
<1>3. MatchCost(held, lot.qty) \in Int BY <1>1, QueueCosts
<1>4. ReplayFee * lot.qty \in Int /\ (lot.price + ReplayFee) * lot.qty \in Int BY <1>1, <1>2
<1>5. Fifo => AcquisitionOf(lot, held) = MatchCost(held, lot.qty) + ReplayFee * lot.qty BY DEF AcquisitionOf
<1>6. ~ Fifo => AcquisitionOf(lot, held) = (lot.price + ReplayFee) * lot.qty BY DEF AcquisitionOf
<1>7. AcquisitionOf(lot, held) \in Int BY <1>3, <1>4, <1>5, <1>6
<1> QED BY <1>3, <1>5, <1>6, <1>7

RowHas(row, lot, status, price) ==
    /\ row \in ReplayRows /\ row.lot = lot.id /\ row.status = status /\ row.cost = AcquisitionOf(lot, slices)
    /\ status # "OPEN" => row.net = (price - UnitCosts) * lot.qty - row.cost

\* The row of a lot says what its units cost and what they brought.
LEMMA RowIs ==
  ASSUME slices \in Seq(FifoSlices(Nat \X Nat)),
         NEW lot \in ReplayLots, NEW status \in Statuses, NEW price \in Int
  PROVE  RowHas(TradeRow(lot, status, price), lot, status, price)
<1> DEFINE row == TradeRow(lot, status, price)
           cost == AcquisitionOf(lot, slices)
           sold == (price - UnitCosts) * lot.qty - cost
           worth == price * lot.qty - cost
           net == IF status = "OPEN" THEN worth ELSE sold
<1>1. row = [lot |-> lot.id, status |-> status, cost |-> cost, net |-> net] BY DEF TradeRow
<1>2. lot.id \in Nat \X Nat /\ lot.qty \in Nat BY DEF ReplayLots
<1>3. cost \in Int BY AcquisitionIsInt
<1>4. UnitCosts \in Int
  <2>1. ReplayFee \in Nat /\ ReplaySlip \in Nat BY ReplayBoundsAreNatural
  <2> QED BY <2>1 DEF UnitCosts
<1>5. (price - UnitCosts) * lot.qty \in Int /\ price * lot.qty \in Int BY <1>2, <1>4
<1>6. sold \in Int /\ worth \in Int BY <1>3, <1>5
<1>7. net \in Int BY <1>6
<1>8. status # "OPEN" => net = sold OBVIOUS
<1> HIDE DEF row, cost, net
<1>9. row \in ReplayRows BY <1>1, <1>2, <1>3, <1>7 DEF ReplayRows
<1>10. row.lot = lot.id /\ row.status = status /\ row.cost = cost /\ row.net = net BY <1>1
<1> QED BY <1>8, <1>9, <1>10 DEF row, cost, RowHas

\* A lot that leaves is sold at a number; at its target only if that is fresh.
LEMMA ExitIs ==
  ASSUME NEW lot \in ReplayLots, barCandle \in ReplayCandles, ReplayExitStatus(lot) # "NONE"
  PROVE  LET status == ReplayExitStatus(lot) IN
         /\ status \in Statuses /\ status # "OPEN" /\ ExitPrice(lot, status) \in Int
         /\ status = "TARGET_HIT" => ~ rExited /\ ExitPrice(lot, status) = lot.target
<1> DEFINE status == ReplayExitStatus(lot)
<1>1. Hit(lot) \in {"NONE", "STOPPED", "TARGET_HIT", "EXPIRED"} BY DEF Hit
<1>2. status = Hit(lot) \/ status = "NONE" BY DEF ReplayExitStatus
<1>3. status \in {"STOPPED", "TARGET_HIT", "EXPIRED"} BY <1>1, <1>2
<1>4. status = "TARGET_HIT" => ~ rExited BY <1>2, <1>3 DEF ReplayExitStatus
<1>5. lot.stop \in Int /\ lot.target \in Int /\ barCandle.c \in Int BY CandleFacts DEF ReplayLots
<1> HIDE DEF status
<1>6. status = "STOPPED" => ExitPrice(lot, status) = lot.stop BY DEF ExitPrice
<1>7. status = "TARGET_HIT" => ExitPrice(lot, status) = lot.target BY DEF ExitPrice
<1>8. status = "EXPIRED" => ExitPrice(lot, status) = barCandle.c BY DEF ExitPrice
<1>9. ExitPrice(lot, status) \in Int BY <1>3, <1>5, <1>6, <1>7, <1>8
<1>10. status \in Statuses /\ status # "OPEN" BY <1>3 DEF Statuses
<1> QED BY <1>4, <1>7, <1>9, <1>10 DEF status

\* What a closed row counts.
LEMMA CountedIs ==
  ASSUME metrics \in [Counters -> Int], NEW row \in ReplayRows, row.status # "OPEN"
  PROVE  /\ Counted(row) \in [Counters -> Int]
         /\ \A s \in Statuses : Counted(row)[s] = metrics[s] + (IF row.status = s THEN 1 ELSE 0)
         /\ Counted(row).realized = metrics.realized + row.net
<1> DEFINE st == row.status
           one == [metrics EXCEPT ![st] = metrics[st] + 1]
           two == [one EXCEPT !.realized = metrics.realized + row.net]
           all == [two EXCEPT !.unrealized = metrics.unrealized + 0]
<1>1. st \in Statuses /\ row.net \in Int BY DEF ReplayRows
<1>2. /\ "realized" \notin Statuses /\ "unrealized" \notin Statuses /\ "realized" # "unrealized"
      /\ Statuses \subseteq Counters /\ "realized" \in Counters /\ "unrealized" \in Counters BY DEF Statuses, Counters
<1>3. Counted(row) = all BY <1>1, <1>2 DEF Counted
<1> HIDE DEF st
<1>4. one \in [Counters -> Int] /\ (\A s \in Statuses : one[s] = metrics[s] + (IF st = s THEN 1 ELSE 0))
      /\ one["realized"] = metrics["realized"] /\ one["unrealized"] = metrics["unrealized"] BY <1>1, <1>2
<1> HIDE DEF one
<1>5. two \in [Counters -> Int] /\ (\A s \in Statuses : two[s] = one[s])
      /\ two["realized"] = metrics["realized"] + row.net BY <1>1, <1>2, <1>4
<1> HIDE DEF two
<1>6. all \in [Counters -> Int] /\ (\A s \in Statuses : all[s] = two[s])
      /\ all["realized"] = two["realized"] BY <1>2, <1>5
<1> HIDE DEF all
<1> QED BY <1>3, <1>4, <1>5, <1>6 DEF st

-----------------------------------------------------------------------------
(* The sums over rows and lots. *)

\* One row more.
LEMMA SumsOfRows ==
  ASSUME NEW rows \in Seq(ReplayRows)
  PROVE  /\ Total(Nets(rows)) \in Int /\ Total(Costs(rows)) \in Int
         /\ \A row \in ReplayRows : /\ Total(Nets(Append(rows, row))) = Total(Nets(rows)) + row.net
                                    /\ Total(Costs(Append(rows, row))) = Total(Costs(rows)) + row.cost
<1> DEFINE n == Len(rows)
<1>1. n \in Nat /\ DOMAIN rows = 1 .. n /\ \A i \in 1 .. n : rows[i] \in ReplayRows OBVIOUS
<1>2. \A i \in 1 .. n : rows[i].net \in Int /\ rows[i].cost \in Int BY <1>1 DEF ReplayRows
<1>3. /\ Len(Nets(rows)) = n /\ Len(Costs(rows)) = n
      /\ \A i \in 1 .. n : Nets(rows)[i] = rows[i].net /\ Costs(rows)[i] = rows[i].cost
  <2>1. DOMAIN Nets(rows) = 1 .. n /\ DOMAIN Costs(rows) = 1 .. n BY <1>1 DEF Nets, Costs
  <2> QED BY <1>1, <2>1 DEF Nets, Costs
<1>4. Total(Nets(rows)) \in Int
  <2>1. \A i \in 1 .. n : Nets(rows)[i] \in Int BY <1>2, <1>3
  <2> QED BY <1>1, <1>3, <2>1, SumIsInt DEF Total
<1>5. Total(Costs(rows)) \in Int
  <2>1. \A i \in 1 .. n : Costs(rows)[i] \in Int BY <1>2, <1>3
  <2> QED BY <1>1, <1>3, <2>1, SumIsInt DEF Total
<1> HIDE DEF n
<1>6. ASSUME NEW row \in ReplayRows
      PROVE  /\ Total(Nets(Append(rows, row))) = Total(Nets(rows)) + row.net
             /\ Total(Costs(Append(rows, row))) = Total(Costs(rows)) + row.cost
  <2> DEFINE more == Append(rows, row)
  <2>1. more \in Seq(ReplayRows) /\ Len(more) = n + 1 /\ (\A i \in 1 .. n : more[i] = rows[i]) /\ more[n + 1] = row
    BY AppendProperties DEF n
  <2> HIDE DEF more
  <2>2. DOMAIN more = 1 .. (n + 1) BY <2>1
  <2>3. /\ DOMAIN Nets(more) = 1 .. (n + 1) /\ DOMAIN Costs(more) = 1 .. (n + 1)
        /\ \A i \in 1 .. (n + 1) : Nets(more)[i] = more[i].net /\ Costs(more)[i] = more[i].cost
    BY <2>2 DEF Nets, Costs
  <2>4. Len(Nets(more)) = n + 1 /\ Len(Costs(more)) = n + 1 BY <1>1, <2>3
  <2>5. \A i \in 1 .. n : Nets(more)[i] = Nets(rows)[i] /\ Costs(more)[i] = Costs(rows)[i]
    <3> TAKE i \in 1 .. n
    <3>1. i \in 1 .. (n + 1) BY <1>1
    <3> QED BY <1>3, <2>1, <2>3, <3>1
  <2>6. Nets(more)[n + 1] = row.net /\ Costs(more)[n + 1] = row.cost
    <3>1. n + 1 \in 1 .. (n + 1) BY <1>1
    <3> QED BY <2>1, <2>3, <3>1
  <2>7. Total(Nets(more)) = Total(Nets(rows)) + row.net BY <1>1, <1>3, <2>4, <2>5, <2>6, TotalOfLonger
  <2>8. Total(Costs(more)) = Total(Costs(rows)) + row.cost BY <1>1, <1>3, <2>4, <2>5, <2>6, TotalOfLonger
  <2> QED BY <2>7, <2>8 DEF more
<1> QED BY <1>4, <1>5, <1>6

PaidFor(lot) == (lot.price + ReplayFee) * lot.qty

\* The values of the sums over lots.
LEMMA SumsAreOfLots ==
  ASSUME NEW lots \in Seq(ReplayLots)
  PROVE  /\ Len(lots) \in Nat /\ Len(Paid(lots)) = Len(lots) /\ Len(Quantities(lots)) = Len(lots)
         /\ \A i \in 1 .. Len(lots) : /\ Paid(lots)[i] = PaidFor(lots[i]) /\ PaidFor(lots[i]) \in Int
                                      /\ Quantities(lots)[i] = lots[i].qty /\ lots[i].qty \in Nat \ {0}
         /\ Total(Paid(lots)) \in Int /\ Total(Quantities(lots)) \in Nat
<1> DEFINE n == Len(lots)
           q == Quantities(lots)
           p == Paid(lots)
<1>1. n \in Nat /\ DOMAIN lots = 1 .. n /\ \A i \in 1 .. n : lots[i] \in ReplayLots OBVIOUS
<1>2. \A i \in 1 .. n : lots[i].qty \in Nat \ {0} /\ lots[i].price \in Nat BY <1>1 DEF ReplayLots
<1>3. ReplayFee \in Nat BY ReplayBoundsAreNatural
<1>4. \A i \in 1 .. n : PaidFor(lots[i]) \in Int BY <1>2, <1>3 DEF PaidFor
<1>5. /\ DOMAIN p = 1 .. n /\ DOMAIN q = 1 .. n
      /\ \A i \in 1 .. n : p[i] = PaidFor(lots[i]) /\ q[i] = lots[i].qty BY <1>1 DEF Paid, Quantities, PaidFor
<1> HIDE DEF p, q
<1>6. Len(p) = n /\ Len(q) = n BY <1>1, <1>5
<1> HIDE DEF n
<1>7. Total(p) \in Int
  <2>1. \A i \in 1 .. n : p[i] \in Int BY <1>4, <1>5
  <2> QED BY <1>1, <1>6, <2>1, SumIsInt DEF Total
<1>8. Total(q) \in Nat
  <2>1. \A i \in 1 .. n : q[i] \in Int /\ q[i] >= 0 BY <1>2, <1>5
  <2>2. 0 \in 0 .. n /\ n \in 0 .. n /\ 0 <= n BY <1>1
  <2>3. SumTo(q, 0) <= SumTo(q, n) BY <1>1, <2>1, <2>2, SumGrows
  <2>4. SumTo(q, 0) = 0 BY SumStep
  <2>5. SumTo(q, n) \in Int BY <1>1, <2>1, SumIsInt
  <2> QED BY <1>6, <2>3, <2>4, <2>5 DEF Total
<1> QED BY <1>1, <1>2, <1>4, <1>5, <1>6, <1>7, <1>8 DEF n, p, q

\* The same lots with other targets.
LEMMA SumsOfSameLots ==
  ASSUME NEW lots \in Seq(ReplayLots), NEW new \in Seq(ReplayLots), Len(new) = Len(lots),
         \A i \in 1 .. Len(lots) : new[i].price = lots[i].price /\ new[i].qty = lots[i].qty
  PROVE  Total(Paid(new)) = Total(Paid(lots)) /\ Total(Quantities(new)) = Total(Quantities(lots))
<1> DEFINE n == Len(lots)
<1>1. n \in Nat /\ Len(Paid(lots)) = n /\ Len(Quantities(lots)) = n /\ Len(Paid(new)) = n /\ Len(Quantities(new)) = n
  BY SumsAreOfLots
<1>2. \A i \in 1 .. n : Paid(new)[i] = Paid(lots)[i] /\ Quantities(new)[i] = Quantities(lots)[i]
  <2> TAKE i \in 1 .. n
  <2>1. Paid(lots)[i] = PaidFor(lots[i]) /\ Quantities(lots)[i] = lots[i].qty BY SumsAreOfLots
  <2>2. Paid(new)[i] = PaidFor(new[i]) /\ Quantities(new)[i] = new[i].qty BY SumsAreOfLots
  <2>3. new[i].price = lots[i].price /\ new[i].qty = lots[i].qty OBVIOUS
  <2>4. PaidFor(new[i]) = PaidFor(lots[i]) BY <2>3 DEF PaidFor
  <2> QED BY <2>1, <2>2, <2>3, <2>4
<1> HIDE DEF n
<1>3. SumTo(Paid(new), n) = SumTo(Paid(lots), n) BY <1>1, <1>2, SumOfSame
<1>4. SumTo(Quantities(new), n) = SumTo(Quantities(lots), n) BY <1>1, <1>2, SumOfSame
<1> QED BY <1>1, <1>3, <1>4 DEF Total

\* One lot more.
LEMMA SumsOfMoreLots ==
  ASSUME NEW lots \in Seq(ReplayLots), NEW lot \in ReplayLots
  PROVE  /\ Append(lots, lot) \in Seq(ReplayLots)
         /\ Total(Paid(Append(lots, lot))) = Total(Paid(lots)) + PaidFor(lot)
         /\ Total(Quantities(Append(lots, lot))) = Total(Quantities(lots)) + lot.qty
<1> DEFINE n == Len(lots)
           more == Append(lots, lot)
<1>1. more \in Seq(ReplayLots) /\ Len(more) = n + 1 /\ (\A i \in 1 .. n : more[i] = lots[i]) /\ more[n + 1] = lot
  BY AppendProperties
<1>2. n \in Nat /\ Len(Paid(lots)) = n /\ Len(Quantities(lots)) = n
      /\ \A i \in 1 .. n : Paid(lots)[i] = PaidFor(lots[i]) /\ Quantities(lots)[i] = lots[i].qty BY SumsAreOfLots
<1> HIDE DEF more
<1>3. Len(Paid(more)) = n + 1 /\ Len(Quantities(more)) = n + 1
      /\ \A i \in 1 .. Len(more) : Paid(more)[i] = PaidFor(more[i]) /\ Quantities(more)[i] = more[i].qty
  BY <1>1, SumsAreOfLots
<1> HIDE DEF n
<1>4. \A i \in 1 .. n : Paid(more)[i] = Paid(lots)[i] /\ Quantities(more)[i] = Quantities(lots)[i]
  <2> TAKE i \in 1 .. n
  <2>1. i \in 1 .. (n + 1) BY <1>2
  <2> QED BY <1>1, <1>2, <1>3, <2>1
<1>5. Paid(more)[n + 1] = PaidFor(lot) /\ Quantities(more)[n + 1] = lot.qty
  <2>1. n + 1 \in 1 .. (n + 1) BY <1>2
  <2> QED BY <1>1, <1>3, <2>1
<1>6. Total(Paid(more)) = Total(Paid(lots)) + PaidFor(lot) BY <1>2, <1>3, <1>4, <1>5, TotalOfLonger
<1>7. Total(Quantities(more)) = Total(Quantities(lots)) + lot.qty BY <1>2, <1>3, <1>4, <1>5, TotalOfLonger
<1> QED BY <1>1, <1>6, <1>7 DEF more

\* One lot less: the others are still there, and it is not.
LEMMA OneLotLess ==
  ASSUME NEW lots \in Seq(ReplayLots), NEW i \in 1 .. Len(lots),
         \A j, k \in DOMAIN lots : lots[j].id = lots[k].id => j = k
  PROVE  LET left == RemoveAt(lots, i) IN
         /\ left \in Seq(ReplayLots)
         /\ \A j \in DOMAIN left : \E k \in DOMAIN lots : left[j] = lots[k]
         /\ \A j \in DOMAIN left : left[j].id # lots[i].id
         /\ \A j, k \in DOMAIN left : left[j].id = left[k].id => j = k
         /\ Total(Paid(lots)) = Total(Paid(left)) + PaidFor(lots[i])
         /\ Total(Quantities(lots)) = Total(Quantities(left)) + lots[i].qty
<1> DEFINE n == Len(lots)
           left == RemoveAt(lots, i)
           at_(j) == IF j < i THEN j ELSE j + 1
<1>1. n \in Nat /\ n > 0 /\ DOMAIN lots = 1 .. n /\ i \in 1 .. n OBVIOUS
<1>2. left \in Seq(ReplayLots) /\ Len(left) = n - 1 /\ \A j \in 1 .. (n - 1) : left[j] = IF j < i THEN lots[j] ELSE lots[j + 1]
  BY RemoveAtIs DEF Without
<1> HIDE DEF left
<1>3. DOMAIN left = 1 .. (n - 1) BY <1>2
<1>4. \A j \in 1 .. (n - 1) : at_(j) \in 1 .. n /\ at_(j) # i /\ left[j] = lots[at_(j)] BY <1>1, <1>2
<1>5. \A j, k \in 1 .. (n - 1) : at_(j) = at_(k) => j = k BY <1>1
<1> HIDE DEF at_, n
<1>6. \A j \in DOMAIN left : \E k \in DOMAIN lots : left[j] = lots[k] BY <1>1, <1>3, <1>4
<1>7. \A j \in DOMAIN left : left[j].id # lots[i].id
  <2> TAKE j \in DOMAIN left
  <2>1. at_(j) \in DOMAIN lots /\ i \in DOMAIN lots /\ at_(j) # i /\ left[j] = lots[at_(j)] BY <1>1, <1>3, <1>4
  <2> QED BY <2>1
<1>8. \A j, k \in DOMAIN left : left[j].id = left[k].id => j = k
  <2> TAKE j, k \in DOMAIN left
  <2> HAVE left[j].id = left[k].id
  <2>1. at_(j) \in DOMAIN lots /\ left[j] = lots[at_(j)] BY <1>1, <1>3, <1>4
  <2>2. at_(k) \in DOMAIN lots /\ left[k] = lots[at_(k)] BY <1>1, <1>3, <1>4
  <2>3. at_(j) = at_(k) BY <2>1, <2>2
  <2> QED BY <1>3, <1>5, <2>3
<1>9. /\ Len(Paid(lots)) = n /\ Len(Quantities(lots)) = n
      /\ \A j \in 1 .. n : /\ Paid(lots)[j] = PaidFor(lots[j]) /\ PaidFor(lots[j]) \in Int
                           /\ Quantities(lots)[j] = lots[j].qty /\ lots[j].qty \in Int
  BY SumsAreOfLots DEF n
<1>10. /\ Len(Paid(left)) = n - 1 /\ Len(Quantities(left)) = n - 1
       /\ \A j \in 1 .. (n - 1) : Paid(left)[j] = PaidFor(left[j]) /\ Quantities(left)[j] = left[j].qty
  BY <1>2, SumsAreOfLots
<1>11. \A j \in 1 .. (n - 1) : j \in 1 .. n /\ j + 1 \in 1 .. n BY <1>1
<1>12. \A j \in 1 .. (n - 1) : Paid(left)[j] = IF j < i THEN Paid(lots)[j] ELSE Paid(lots)[j + 1]
  <2> TAKE j \in 1 .. (n - 1)
  <2>1. j \in 1 .. n /\ j + 1 \in 1 .. n /\ Paid(left)[j] = PaidFor(left[j]) BY <1>10, <1>11
  <2>2. Paid(lots)[j] = PaidFor(lots[j]) /\ Paid(lots)[j + 1] = PaidFor(lots[j + 1]) BY <1>9, <2>1
  <2>3. left[j] = IF j < i THEN lots[j] ELSE lots[j + 1] BY <1>2
  <2>4. CASE j < i BY <2>1, <2>2, <2>3, <2>4
  <2>5. CASE ~ (j < i) BY <2>1, <2>2, <2>3, <2>5
  <2> QED BY <2>4, <2>5
<1>13. \A j \in 1 .. (n - 1) : Quantities(left)[j] = IF j < i THEN Quantities(lots)[j] ELSE Quantities(lots)[j + 1]
  <2> TAKE j \in 1 .. (n - 1)
  <2>1. j \in 1 .. n /\ j + 1 \in 1 .. n /\ Quantities(left)[j] = left[j].qty BY <1>10, <1>11
  <2>2. Quantities(lots)[j] = lots[j].qty /\ Quantities(lots)[j + 1] = lots[j + 1].qty BY <1>9, <2>1
  <2>3. left[j] = IF j < i THEN lots[j] ELSE lots[j + 1] BY <1>2
  <2>4. CASE j < i BY <2>1, <2>2, <2>3, <2>4
  <2>5. CASE ~ (j < i) BY <2>1, <2>2, <2>3, <2>5
  <2> QED BY <2>4, <2>5
<1>14. Total(Paid(lots)) = Total(Paid(left)) + PaidFor(lots[i])
  <2> DEFINE v == Paid(lots)
             w == Paid(left)
  <2>1. \A j \in 1 .. n : v[j] \in Int BY <1>9
  <2>2. \A j \in 1 .. (n - 1) : w[j] = IF j < i THEN v[j] ELSE v[j + 1] BY <1>12
  <2>3. Len(v) = n /\ Len(w) = n - 1 /\ v[i] = PaidFor(lots[i]) BY <1>1, <1>9, <1>10
  <2> HIDE DEF v, w
  <2>5. TakenOut(v, w, n, i) BY <1>1, <2>1, <2>2, <2>3 DEF TakenOut
  <2>4. Total(v) = Total(w) + v[i] BY <2>5, TotalWithout
  <2> QED BY <2>3, <2>4 DEF v, w
<1>15. Total(Quantities(lots)) = Total(Quantities(left)) + lots[i].qty
  <2> DEFINE v == Quantities(lots)
             w == Quantities(left)
  <2>1. \A j \in 1 .. n : v[j] \in Int BY <1>9
  <2>2. \A j \in 1 .. (n - 1) : w[j] = IF j < i THEN v[j] ELSE v[j + 1] BY <1>13
  <2>3. Len(v) = n /\ Len(w) = n - 1 /\ v[i] = lots[i].qty BY <1>1, <1>9, <1>10
  <2> HIDE DEF v, w
  <2>5. TakenOut(v, w, n, i) BY <1>1, <2>1, <2>2, <2>3 DEF TakenOut
  <2>4. Total(v) = Total(w) + v[i] BY <2>5, TotalWithout
  <2> QED BY <2>3, <2>4 DEF v, w
<1> QED BY <1>2, <1>6, <1>7, <1>8, <1>14, <1>15 DEF left

-----------------------------------------------------------------------------
(* What a bar does to the books. *)

\* What the inventory is worth, before and after a step.
LEMMA HeldCosts ==
  ASSUME plan' = plan
  PROVE  /\ Fifo' <=> Fifo
         /\ Fifo => /\ HeldCost = Cost(slices) + ReplayFee * Quantity(slices)
                    /\ HeldCost' = Cost(slices') + ReplayFee * Quantity(slices')
         /\ ~ Fifo => HeldCost = Total(Paid(rLots)) /\ HeldCost' = Total(Paid(rLots'))
<1>1. Fifo' <=> Fifo BY DEF Fifo
<1>2. Fifo => /\ HeldCost = Cost(slices) + ReplayFee * Quantity(slices)
              /\ HeldCost' = Cost(slices') + ReplayFee * Quantity(slices') BY <1>1 DEF HeldCost
<1>3. ASSUME ~ Fifo PROVE HeldCost = Total(Paid(rLots)) /\ HeldCost' = Total(Paid(rLots'))
  <2>1. [i \in DOMAIN rLots |-> AcquisitionOf(rLots[i], slices)] = Paid(rLots) BY <1>3 DEF AcquisitionOf, Paid
  <2>2. [i \in DOMAIN rLots |-> AcquisitionOf(rLots[i], slices)]' = Paid(rLots') BY <1>1, <1>3 DEF AcquisitionOf, Paid
  <2> QED BY <1>1, <1>3, <2>1, <2>2 DEF HeldCost
<1> QED BY <1>1, <1>2, <1>3

\* A fill adds a lot and what was paid for it.
LEMMA FillKeepsBooks ==
  ASSUME ReplayTypes, LadderInv, TargetsAreFresh, BooksInv, NEW k \in ReplayCandles, NEW decision, NextBar(k, decision)
  PROVE  slices' \in Seq(FifoSlices(Nat \X Nat)) /\ TargetsAreFresh' /\ BooksInv'
<1> DEFINE lot == NewLot(bar + 1, k.o, order[2], order[3])
           fill == order # <<>> /\ WithinCapital(lot.price, lot.qty)
           held == Add(slices, lot.id, lot.price, lot.qty)
           more == Append(rLots, lot)
           new == Retargeted(more, held)
<1>1. /\ plan \in ReplayPlans /\ rLots \in Seq(ReplayLots) /\ entered \in Seq(ReplayLots)
      /\ slices \in Seq(FifoSlices(Nat \X Nat)) BY DEF ReplayTypes
<1>2. /\ plan' = plan /\ rPhase = "next" /\ rPhase' = "exit" /\ rExited' = FALSE /\ rChanged' = FALSE
      /\ slices' = (IF fill THEN held ELSE slices) /\ rLots' = (IF fill THEN new ELSE rLots)
      /\ entered' = (IF fill THEN Append(entered, lot) ELSE entered)
      /\ batch' = batch /\ stored' = stored /\ metrics' = metrics BY DEF NextBar, rResults
<1>3. AllRows' = AllRows BY <1>2 DEF AllRows
<1>4. /\ \A i, j \in DOMAIN AllRows : AllRows[i].lot = AllRows[j].lot => i = j
      /\ \A i, j \in DOMAIN rLots : rLots[i].id = rLots[j].id => i = j
      /\ \A i \in DOMAIN AllRows, j \in DOMAIN rLots : AllRows[i].lot # rLots[j].id
      /\ \A i \in DOMAIN AllRows : \E c \in DOMAIN entered : entered[c].id = AllRows[i].lot
      /\ \A i \in DOMAIN rLots : \E c \in DOMAIN entered : entered[c].id = rLots[i].id
  BY <1>2 DEF BooksInv, Running, LotsAreApart
<1>5. /\ \A i \in DOMAIN AllRows : AllRows[i].status # "OPEN"
      /\ \A s \in Statuses : metrics[s] = Cardinality(With(AllRows, s))
      /\ metrics.realized = Total(Nets(AllRows))
      /\ Total(Costs(AllRows)) + HeldCost = Total(Paid(entered))
      /\ Fifo => Quantity(slices) = Total(Quantities(rLots))
  BY <1>2 DEF BooksInv, Running, BooksBalance
<1>6. Fifo => \A i \in DOMAIN rLots : rLots[i].target = TargetOf(rLots[i], slices) BY <1>2 DEF TargetsAreFresh
<1>7. /\ Fifo' <=> Fifo
      /\ Fifo => /\ HeldCost = Cost(slices) + ReplayFee * Quantity(slices)
                 /\ HeldCost' = Cost(slices') + ReplayFee * Quantity(slices')
      /\ ~ Fifo => HeldCost = Total(Paid(rLots)) /\ HeldCost' = Total(Paid(rLots')) BY <1>2, HeldCosts
<1>8. \A x, q : TargetOf(x, q)' = TargetOf(x, q)
  BY <1>2 DEF TargetOf, AcquisitionOf, Fifo
<1> HIDE DEF lot, fill, held, more, new
<1>9. CASE ~ fill
  <2>1. slices' = slices /\ rLots' = rLots /\ entered' = entered BY <1>2, <1>9
  <2>2. HeldCost' = HeldCost BY <1>7, <2>1
  <2>3. TargetsAreFresh'
    <3>1. Fifo => \A i \in DOMAIN rLots' : rLots'[i].target = TargetOf(rLots'[i], slices')
      BY <1>6, <2>1
    <3> QED BY <1>2, <1>7, <2>1, <1>6 DEF TargetsAreFresh, TargetOf, AcquisitionOf, Fifo
  <2>4. LotsAreApart' BY <1>3, <1>4, <2>1 DEF LotsAreApart
  <2>5. BooksBalance' BY <1>2, <1>3, <1>5, <1>7, <2>1, <2>2 DEF BooksBalance
  <2> QED BY <1>1, <2>1, <2>3, <2>4, <2>5 DEF BooksInv
<1>10. CASE fill
  <2>1. slices' = held /\ rLots' = new /\ entered' = Append(entered, lot) BY <1>2, <1>10
  <2>2. order # <<>> BY <1>10 DEF fill
  <2>3. /\ lot \in ReplayLots /\ (\A i \in DOMAIN entered : entered[i].id # lot.id)
        /\ QueueHas(Nat \X Nat, held, slices, lot.price, lot.qty) BY <2>2, FillIs DEF lot, held
  <2>4. /\ held \in Seq(FifoSlices(Nat \X Nat))
        /\ Quantity(held) = Quantity(slices) + lot.qty /\ Cost(held) = Cost(slices) + lot.price * lot.qty
    BY <2>3 DEF QueueHas
  <2>5. /\ more \in Seq(ReplayLots) /\ Total(Paid(more)) = Total(Paid(rLots)) + PaidFor(lot)
        /\ Total(Quantities(more)) = Total(Quantities(rLots)) + lot.qty
    BY <1>1, <2>3, SumsOfMoreLots DEF more
  <2>6. /\ new \in Seq(ReplayLots) /\ Len(new) = Len(more)
        /\ \A i \in 1 .. Len(more) : /\ new[i].id = more[i].id /\ new[i].price = more[i].price
                                     /\ new[i].qty = more[i].qty
                                     /\ Fifo => new[i].target = TargetOf(new[i], held)
    BY <1>1, <2>4, <2>5, RetargetedIs DEF new
  <2>7. Total(Paid(new)) = Total(Paid(more)) /\ Total(Quantities(new)) = Total(Quantities(more))
    BY <2>5, <2>6, SumsOfSameLots
  <2>8. /\ Len(more) = Len(rLots) + 1 /\ (\A i \in 1 .. Len(rLots) : more[i] = rLots[i]) /\ more[Len(rLots) + 1] = lot
        /\ Len(rLots) \in Nat /\ DOMAIN rLots = 1 .. Len(rLots) /\ DOMAIN new = 1 .. (Len(rLots) + 1)
    BY <1>1, <2>3, <2>6, AppendProperties DEF more
  <2>9. /\ \A i \in DOMAIN entered : i \in DOMAIN entered' /\ entered'[i] = entered[i]
        /\ Len(entered) + 1 \in DOMAIN entered' /\ entered'[Len(entered) + 1] = lot
    BY <1>1, <2>1, <2>3, AppendProperties
  <2>10. Total(Paid(entered')) = Total(Paid(entered)) + PaidFor(lot) BY <1>1, <2>1, <2>3, SumsOfMoreLots
  <2>11. TargetsAreFresh'
    <3>1. Fifo => \A i \in DOMAIN rLots' : rLots'[i].target = TargetOf(rLots'[i], slices') BY <2>1, <2>6, <2>8
    <3> QED BY <1>2, <1>7, <3>1 DEF TargetsAreFresh, TargetOf, AcquisitionOf, Fifo
  <2>12. \A i \in DOMAIN rLots' : \/ i \in DOMAIN rLots /\ rLots'[i].id = rLots[i].id
                                  \/ i = Len(rLots) + 1 /\ i \notin DOMAIN rLots /\ rLots'[i].id = lot.id
    <3> TAKE i \in DOMAIN rLots'
    <3>1. i \in 1 .. (Len(rLots) + 1) /\ rLots'[i].id = more[i].id BY <2>1, <2>6, <2>8
    <3>2. CASE i \in 1 .. Len(rLots) BY <2>8, <3>1, <3>2
    <3>3. CASE i = Len(rLots) + 1 BY <2>8, <3>1, <3>3
    <3> QED BY <2>8, <3>1, <3>2, <3>3
  <2>13. LotsAreApart'
    <3>1. \A i \in DOMAIN rLots : rLots[i].id # lot.id BY <1>4, <2>3
    <3>2. \A i \in DOMAIN AllRows : AllRows[i].lot # lot.id BY <1>4, <2>3
    <3>3. \A i, j \in DOMAIN rLots' : rLots'[i].id = rLots'[j].id => i = j BY <1>4, <2>12, <3>1
    <3>4. \A i \in DOMAIN AllRows', j \in DOMAIN rLots' : AllRows'[i].lot # rLots'[j].id BY <1>3, <1>4, <2>12, <3>2
    <3>5. \A i \in DOMAIN AllRows' : \E c \in DOMAIN entered' : entered'[c].id = AllRows'[i].lot BY <1>3, <1>4, <2>9
    <3>6. \A i \in DOMAIN rLots' : \E c \in DOMAIN entered' : entered'[c].id = rLots'[i].id BY <1>4, <2>9, <2>12
    <3>7. \A i, j \in DOMAIN AllRows' : AllRows'[i].lot = AllRows'[j].lot => i = j BY <1>3, <1>4
    <3> QED BY <3>3, <3>4, <3>5, <3>6, <3>7 DEF LotsAreApart
  <2>14. HeldCost' = HeldCost + PaidFor(lot)
    <3>1. lot.qty \in Nat /\ lot.price \in Nat BY <2>3 DEF ReplayLots
    <3>2. CASE ~ Fifo BY <1>7, <2>1, <2>5, <2>7, <3>2
    <3>3. CASE Fifo
      <4> DEFINE q == lot.qty
                 p == lot.price
                 f == ReplayFee
                 u == Quantity(slices)
                 c == Cost(slices)
      <4>1. q \in Int /\ p \in Int /\ f \in Int /\ u \in Int /\ c \in Int
        <5>1. 0 \in Nat OBVIOUS
        <5>2. c \in Int /\ u \in Nat BY <1>1, <5>1, QueueCosts
        <5> QED BY <3>1, <5>2, ReplayBoundsAreNatural
      <4>2. HeldCost = c + f * u /\ HeldCost' = (c + p * q) + f * (u + q) BY <1>7, <2>1, <2>4, <3>3
      <4>3. PaidFor(lot) = (p + f) * q BY DEF PaidFor
      <4> HIDE DEF q, p, f, u, c
      <4>4. (c + p * q) + f * (u + q) = (c + f * u) + (p + f) * q BY <4>1
      <4> QED BY <4>2, <4>3, <4>4
    <3> QED BY <3>2, <3>3
  <2>15. BooksBalance'
    <3>1. HeldCost \in Int /\ PaidFor(lot) \in Int /\ Total(Costs(AllRows)) \in Int
      <4>1. AllRows \in Seq(ReplayRows) BY DEF ReplayTypes, AllRows
      <4>2. Total(Costs(AllRows)) \in Int BY <4>1, SumsOfRows
      <4>3. lot.qty \in Nat /\ lot.price \in Nat /\ ReplayFee \in Nat BY <2>3, ReplayBoundsAreNatural DEF ReplayLots
      <4>4. PaidFor(lot) \in Int BY <4>3 DEF PaidFor
      <4>5. Total(Paid(rLots)) \in Int BY <1>1, SumsAreOfLots
      <4>6. Cost(slices) \in Int /\ Quantity(slices) \in Nat
        <5>1. 0 \in Nat OBVIOUS
        <5> QED BY <1>1, <5>1, QueueCosts
      <4>7. ReplayFee * Quantity(slices) \in Int BY <4>3, <4>6
      <4> QED BY <1>7, <4>2, <4>4, <4>5, <4>6, <4>7
    <3>2. Total(Costs(AllRows')) + HeldCost' = Total(Paid(entered')) BY <1>3, <1>5, <2>10, <2>14, <3>1
    <3>3. Fifo' => Quantity(slices') = Total(Quantities(rLots')) BY <1>5, <1>7, <2>1, <2>4, <2>5, <2>7
    <3> QED BY <1>2, <1>3, <1>5, <3>2, <3>3 DEF BooksBalance
  <2> QED BY <2>1, <2>4, <2>11, <2>13, <2>15 DEF BooksInv
<1> QED BY <1>9, <1>10

\* The end of a bar gives the lots that are left their targets.
LEMMA BarKeepsBooks ==
  ASSUME ReplayTypes, TargetsAreFresh, BooksInv, EndBar
  PROVE  metrics' \in [Counters -> Int] /\ TargetsAreFresh' /\ BooksInv'
<1> DEFINE new == Retargeted(rLots, slices)
<1>1. /\ plan \in ReplayPlans /\ rLots \in Seq(ReplayLots) /\ entered \in Seq(ReplayLots)
      /\ slices \in Seq(FifoSlices(Nat \X Nat)) /\ metrics \in [Counters -> Int] BY DEF ReplayTypes
<1>2. /\ plan' = plan /\ rPhase = "exit" /\ rPhase' = "next" /\ rChanged' = rChanged
      /\ slices' = slices /\ rLots' = (IF rChanged THEN new ELSE rLots)
      /\ entered' = entered /\ batch' = batch /\ stored' = stored
      /\ metrics' = IF InWindow /\ buy THEN [metrics EXCEPT !.signals = @ + 1] ELSE metrics BY DEF EndBar, rLoop
<1>3. AllRows' = AllRows BY <1>2 DEF AllRows
<1>4. LotsAreApart /\ BooksBalance BY <1>2 DEF BooksInv, Running
<1>5. rChanged = rExited /\ (Fifo /\ ~ rExited => \A i \in DOMAIN rLots : rLots[i].target = TargetOf(rLots[i], slices))
  BY <1>2 DEF TargetsAreFresh
<1>6. /\ Fifo' <=> Fifo
      /\ Fifo => /\ HeldCost = Cost(slices) + ReplayFee * Quantity(slices)
                 /\ HeldCost' = Cost(slices') + ReplayFee * Quantity(slices')
      /\ ~ Fifo => HeldCost = Total(Paid(rLots)) /\ HeldCost' = Total(Paid(rLots')) BY <1>2, HeldCosts
<1>7. metrics' \in [Counters -> Int] /\ metrics'.realized = metrics.realized /\ \A s \in Statuses : metrics'[s] = metrics[s]
  <2>1. /\ "realized" \in Counters /\ "signals" \in Counters /\ "signals" \notin Statuses /\ Statuses \subseteq Counters
    BY DEF Counters, Statuses
  <2>2. CASE InWindow /\ buy BY <1>1, <1>2, <2>1, <2>2
  <2>3. CASE ~ (InWindow /\ buy) BY <1>1, <1>2, <2>1, <2>3
  <2> QED BY <2>2, <2>3
<1>8. /\ new \in Seq(ReplayLots) /\ Len(new) = Len(rLots)
      /\ \A i \in 1 .. Len(rLots) : /\ new[i].id = rLots[i].id /\ new[i].price = rLots[i].price
                                    /\ new[i].qty = rLots[i].qty
                                    /\ Fifo => new[i].target = TargetOf(new[i], slices)
  BY <1>1, RetargetedIs
<1>9. DOMAIN rLots = 1 .. Len(rLots) /\ DOMAIN new = 1 .. Len(rLots) BY <1>1, <1>8
<1>10. Total(Paid(new)) = Total(Paid(rLots)) /\ Total(Quantities(new)) = Total(Quantities(rLots))
  BY <1>1, <1>8, SumsOfSameLots
<1> HIDE DEF new
<1>11. /\ DOMAIN rLots' = DOMAIN rLots /\ (\A i \in DOMAIN rLots : rLots'[i].id = rLots[i].id)
       /\ Total(Paid(rLots')) = Total(Paid(rLots)) /\ Total(Quantities(rLots')) = Total(Quantities(rLots))
  <2>1. CASE rChanged BY <1>2, <1>8, <1>9, <1>10, <2>1
  <2>2. CASE ~ rChanged BY <1>2, <2>2
  <2> QED BY <2>1, <2>2
<1>12. Fifo => \A i \in DOMAIN rLots' : rLots'[i].target = TargetOf(rLots'[i], slices')
  <2>1. CASE rChanged BY <1>2, <1>8, <1>9, <2>1
  <2>2. CASE ~ rChanged BY <1>2, <1>5, <2>2
  <2> QED BY <2>1, <2>2
<1>13. TargetsAreFresh' BY <1>2, <1>6, <1>12 DEF TargetsAreFresh, TargetOf, AcquisitionOf, Fifo
<1>14. HeldCost' = HeldCost BY <1>2, <1>6, <1>11
<1>15. LotsAreApart' BY <1>2, <1>3, <1>4, <1>11 DEF LotsAreApart
<1>16. BooksBalance'
  <2>1. /\ \A i \in DOMAIN AllRows : AllRows[i].status # "OPEN"
        /\ \A s \in Statuses : metrics[s] = Cardinality(With(AllRows, s))
        /\ metrics.realized = Total(Nets(AllRows))
        /\ Total(Costs(AllRows)) + HeldCost = Total(Paid(entered))
        /\ Fifo => Quantity(slices) = Total(Quantities(rLots)) BY <1>4 DEF BooksBalance
  <2> QED BY <1>2, <1>3, <1>6, <1>7, <1>11, <1>14, <2>1 DEF BooksBalance
<1> QED BY <1>7, <1>13, <1>15, <1>16 DEF BooksInv

\* Rows before a row and in front of one.
LEMMA JoinedRows ==
  ASSUME NEW S, NEW s \in Seq(S), NEW t \in Seq(S), NEW x \in S
  PROVE  /\ s \o Append(t, x) = Append(s \o t, x) /\ s \o <<>> = s /\ (s \o Append(t, x)) \o <<>> = Append(s \o t, x)
         /\ s \o Append(t, x) \in Seq(S) /\ s \o t \in Seq(S)
<1>1. s \o Append(t, x) = Append(s \o t, x)
  <2> DEFINE a == s \o Append(t, x)
             j == s \o t
             b == Append(j, x)
             m == Len(s)
             n == Len(t)
  <2>1. Append(t, x) \in Seq(S) /\ Len(Append(t, x)) = n + 1 /\ (\A i \in 1 .. n : Append(t, x)[i] = t[i])
        /\ Append(t, x)[n + 1] = x BY AppendProperties
  <2>2. a \in Seq(S) /\ Len(a) = m + (n + 1)
        /\ \A i \in 1 .. (m + (n + 1)) : a[i] = IF i <= m THEN s[i] ELSE Append(t, x)[i - m]
    BY <2>1, ConcatProperties
  <2>3. j \in Seq(S) /\ Len(j) = m + n /\ \A i \in 1 .. (m + n) : j[i] = IF i <= m THEN s[i] ELSE t[i - m]
    BY ConcatProperties
  <2> HIDE DEF a, j
  <2>4. b \in Seq(S) /\ Len(b) = (m + n) + 1 /\ (\A i \in 1 .. (m + n) : b[i] = j[i]) /\ b[(m + n) + 1] = x
    BY <2>3, AppendProperties
  <2>5. m \in Nat /\ n \in Nat OBVIOUS
  <2> HIDE DEF b, m, n
  <2>6. \A i \in 1 .. Len(a) : a[i] = b[i]
    <3> TAKE i \in 1 .. Len(a)
    <3>1. CASE i <= m
      <4>1. i \in 1 .. (m + n) /\ i \in 1 .. (m + (n + 1)) BY <2>2, <2>5, <3>1
      <4> QED BY <2>2, <2>3, <2>4, <3>1, <4>1
    <3>2. CASE i > m /\ i <= m + n
      <4>1. i \in 1 .. (m + n) /\ i \in 1 .. (m + (n + 1)) /\ ~ (i <= m) /\ i - m \in 1 .. n BY <2>2, <2>5, <3>2
      <4>2. a[i] = t[i - m] BY <2>1, <2>2, <4>1
      <4>3. b[i] = t[i - m] BY <2>3, <2>4, <4>1
      <4> QED BY <4>2, <4>3
    <3>3. CASE i = (m + n) + 1
      <4>1. i \in 1 .. (m + (n + 1)) /\ ~ (i <= m) /\ i - m = n + 1 BY <2>5, <3>3
      <4> QED BY <2>1, <2>2, <2>4, <3>3, <4>1
    <3> QED BY <2>2, <2>5, <3>1, <3>2, <3>3
  <2>7. Len(a) = Len(b) BY <2>2, <2>4, <2>5
  <2>8. a = b BY <2>2, <2>4, <2>6, <2>7, SameSequence
  <2> QED BY <2>8 DEF a, b, j
<1>2. \A u \in Seq(S) : u \o <<>> = u BY ConcatEmptySeq
<1>3. Append(t, x) \in Seq(S) OBVIOUS
<1>4. s \o Append(t, x) \in Seq(S) /\ s \o t \in Seq(S) BY <1>3, ConcatProperties
<1> QED BY <1>1, <1>2, <1>4

\* The rows that are written and those of the batch, together.
LEMMA SetOfJoined ==
  ASSUME NEW S, NEW s \in Seq(S), NEW t \in Seq(S)
  PROVE  ToSet(s) \cup ToSet(t) = {(s \o t)[i] : i \in DOMAIN (s \o t)}
<1> DEFINE m == Len(s)
           n == Len(t)
           j == s \o t
<1>1. j \in Seq(S) /\ Len(j) = m + n /\ \A i \in 1 .. (m + n) : j[i] = IF i <= m THEN s[i] ELSE t[i - m]
  BY ConcatProperties
<1>2. m \in Nat /\ n \in Nat /\ DOMAIN s = 1 .. m /\ DOMAIN t = 1 .. n OBVIOUS
<1>3. DOMAIN j = 1 .. (m + n) BY <1>1
<1> HIDE DEF m, n, j
<1>4. ToSet(s) = {s[i] : i \in 1 .. m} /\ ToSet(t) = {t[i] : i \in 1 .. n} BY <1>2 DEF ToSet
<1>5. \A i \in 1 .. m : i \in 1 .. (m + n) /\ j[i] = s[i] BY <1>1, <1>2
<1>6. \A i \in 1 .. n : m + i \in 1 .. (m + n) /\ j[m + i] = t[i]
  <2> TAKE i \in 1 .. n
  <2>1. m + i \in 1 .. (m + n) /\ ~ (m + i <= m) /\ (m + i) - m = i BY <1>2
  <2> QED BY <1>1, <2>1
<1>7. \A i \in 1 .. (m + n) : j[i] \in {s[c] : c \in 1 .. m} \cup {t[c] : c \in 1 .. n}
  <2> TAKE i \in 1 .. (m + n)
  <2>1. CASE i <= m
    <3>1. i \in 1 .. m BY <1>2, <2>1
    <3> QED BY <1>1, <2>1, <3>1
  <2>2. CASE ~ (i <= m)
    <3>1. i - m \in 1 .. n BY <1>2, <2>2
    <3> QED BY <1>1, <2>2, <3>1
  <2> QED BY <2>1, <2>2
<1> DEFINE A == {s[c] : c \in 1 .. m}
           B == {t[c] : c \in 1 .. n}
           J == {j[i] : i \in 1 .. (m + n)}
<1>8. \A x \in J : x \in A \cup B BY <1>7
<1>9. \A x \in A : x \in J BY <1>5
<1>10. \A x \in B : x \in J BY <1>6
<1>11. ToSet(s) = A /\ ToSet(t) = B /\ J = {j[i] : i \in DOMAIN j} BY <1>3, <1>4
<1> HIDE DEF A, B, J
<1>12. A \cup B = J BY <1>8, <1>9, <1>10
<1> QED BY <1>11, <1>12 DEF j

KeepsProfit(row) == Fifo /\ row.status = "TARGET_HIT" => 100 * row.net >= plan.targetPct * row.cost

\* A profit is kept in every row or in none of the two places a row can be.
LEMMA ProfitOfRows ==
  ASSUME NEW rows \in Seq(ReplayRows), NEW more \in Seq(ReplayRows)
  PROVE  (\A r \in ToSet(rows) \cup ToSet(more) : KeepsProfit(r))
            <=> \A i \in DOMAIN (rows \o more) : KeepsProfit((rows \o more)[i])
<1> DEFINE all == rows \o more
<1>1. ToSet(rows) \cup ToSet(more) = {all[i] : i \in DOMAIN all} BY SetOfJoined
<1> HIDE DEF all
<1>2. (\A r \in ToSet(rows) \cup ToSet(more) : KeepsProfit(r)) <=> \A i \in DOMAIN all : KeepsProfit(all[i]) BY <1>1
<1> QED BY <1>2 DEF all

ClosedBy(row) ==
    /\ row \in ReplayRows /\ row.lot = rLots[at].id /\ row.status # "OPEN" /\ row.cost = AcquisitionOf(rLots[at], slices)
    /\ KeepsProfit(row)

\* The lot that leaves has a row, and its profit if it left at its target.
LEMMA CloseIs ==
  ASSUME ReplayTypes, TargetsAreFresh, BooksInv, rPhase = "exit", at <= Len(rLots), ReplayExitStatus(rLots[at]) # "NONE"
  PROVE  LET lot == rLots[at]
             status == ReplayExitStatus(lot)
             row == TradeRow(lot, status, ExitPrice(lot, status)) IN
         /\ lot \in ReplayLots /\ at \in 1 .. Len(rLots) /\ ClosedBy(row)
         /\ Written(Append(batch, row)) = stored \o Append(batch, row)
         /\ AllRows \in Seq(ReplayRows)
<1> DEFINE lot == rLots[at]
           status == ReplayExitStatus(lot)
           price == ExitPrice(lot, status)
           row == TradeRow(lot, status, price)
<1>1. /\ plan \in ReplayPlans /\ rLots \in Seq(ReplayLots) /\ slices \in Seq(FifoSlices(Nat \X Nat))
      /\ barCandle \in ReplayCandles /\ at \in Nat \ {0}
      /\ batch \in Seq(ReplayRows) /\ stored \in Seq(ReplayRows) BY DEF ReplayTypes
<1>2. at \in 1 .. Len(rLots) /\ at \in DOMAIN rLots /\ lot \in ReplayLots
  <2>1. at \in 1 .. Len(rLots) BY <1>1
  <2> QED BY <1>1, <2>1
<1> HIDE DEF lot
<1>3. /\ status \in Statuses /\ status # "OPEN" /\ price \in Int
      /\ status = "TARGET_HIT" => ~ rExited /\ price = lot.target
  <2>1. status # "NONE" BY DEF lot
  <2> HIDE DEF status
  <2>2. ReplayExitStatus(lot) # "NONE" BY <2>1 DEF status
  <2>3. LET st == ReplayExitStatus(lot) IN
        /\ st \in Statuses /\ st # "OPEN" /\ ExitPrice(lot, st) \in Int
        /\ st = "TARGET_HIT" => ~ rExited /\ ExitPrice(lot, st) = lot.target
    BY <1>1, <1>2, <2>2, ExitIs
  <2> QED BY <2>3 DEF status
<1> HIDE DEF status, price, row
<1>4. RowHas(row, lot, status, price) BY <1>1, <1>2, <1>3, RowIs DEF row
<1>5. /\ row \in ReplayRows /\ row.lot = lot.id /\ row.status = status /\ row.cost = AcquisitionOf(lot, slices)
      /\ row.net = (price - UnitCosts) * lot.qty - row.cost BY <1>3, <1>4 DEF RowHas
<1>6. KeepsProfit(row)
  <2> SUFFICES ASSUME Fifo, row.status = "TARGET_HIT" PROVE 100 * row.net >= plan.targetPct * row.cost BY DEF KeepsProfit
  <2>1. ~ rExited /\ price = lot.target BY <1>3, <1>5
  <2>2. lot.target = TargetOf(lot, slices) BY <1>2, <2>1 DEF TargetsAreFresh, lot
  <2>3. row.cost \in Int BY <1>2, <1>1, <1>5, AcquisitionIsInt
  <2>4. lot.qty \in Nat \ {0} BY <1>2 DEF ReplayLots
  <2>5. plan.targetPct \in Nat BY <1>1, PlanFacts
  <2>6. UnitCosts \in Int
    <3>1. ReplayFee \in Nat /\ ReplaySlip \in Nat BY ReplayBoundsAreNatural
    <3> QED BY <3>1 DEF UnitCosts
  <2>7. price = NetProfitTarget(row.cost, lot.qty, plan.targetPct, UnitCosts) BY <1>5, <2>1, <2>2 DEF TargetOf
  <2> DEFINE paid == row.cost
             qty == lot.qty
             pct == plan.targetPct
             costs == UnitCosts
  <2>8. paid \in Int /\ qty \in Nat \ {0} /\ pct \in Nat /\ costs \in Int BY <2>3, <2>4, <2>5, <2>6
  <2>9. price = NetProfitTarget(paid, qty, pct, costs) /\ row.net = (price - costs) * qty - paid BY <1>5, <2>7
  <2> HIDE DEF paid, qty, pct, costs
  <2>10. 100 * ((price - costs) * qty - paid) >= pct * paid BY <2>8, <2>9, TargetRepays
  <2>11. 100 * row.net >= pct * paid BY <2>9, <2>10
  <2> QED BY <2>11 DEF pct, paid
<1>7. ClosedBy(row) BY <1>3, <1>5, <1>6 DEF ClosedBy, lot
<1>8. AllRows \in Seq(ReplayRows) BY <1>1 DEF AllRows
<1>9. /\ \A i, j \in DOMAIN AllRows : AllRows[i].lot = AllRows[j].lot => i = j
      /\ \A i \in DOMAIN AllRows : AllRows[i].lot # lot.id BY <1>2 DEF BooksInv, Running, LotsAreApart, lot
<1> DEFINE full == Append(batch, row)
           m == Len(stored)
           n == Len(batch)
<1>10. full \in Seq(ReplayRows) /\ Len(full) = n + 1 /\ (\A i \in 1 .. n : full[i] = batch[i]) /\ full[n + 1] = row
  BY <1>1, <1>5, AppendProperties
<1>11. Len(AllRows) = m + n /\ \A i \in 1 .. (m + n) : AllRows[i] = IF i <= m THEN stored[i] ELSE batch[i - m]
  BY <1>1, ConcatProperties DEF AllRows
<1>12. /\ m \in Nat /\ n \in Nat /\ DOMAIN stored = 1 .. m /\ DOMAIN full = 1 .. (n + 1) /\ DOMAIN AllRows = 1 .. (m + n)
  BY <1>1, <1>8, <1>10, <1>11
<1> HIDE DEF full, m, n
<1>13. \A i \in 1 .. m : i \in DOMAIN AllRows /\ AllRows[i] = stored[i] BY <1>11, <1>12
<1>14. \A i \in 1 .. n : m + i \in DOMAIN AllRows /\ AllRows[m + i] = full[i]
  <2> TAKE i \in 1 .. n
  <2>1. m + i \in 1 .. (m + n) /\ ~ (m + i <= m) /\ (m + i) - m = i BY <1>12
  <2> QED BY <1>10, <1>11, <1>12, <2>1
<1>15. \A i \in DOMAIN stored, j \in DOMAIN full : stored[i].lot # full[j].lot
  <2> TAKE i \in DOMAIN stored, j \in DOMAIN full
  <2>1. CASE j \in 1 .. n
    <3>1. i \in DOMAIN AllRows /\ AllRows[i] = stored[i] BY <1>12, <1>13
    <3>2. m + j \in DOMAIN AllRows /\ AllRows[m + j] = full[j] BY <1>14, <2>1
    <3>3. i # m + j BY <1>12, <2>1
    <3> QED BY <1>9, <3>1, <3>2, <3>3
  <2>2. CASE j = n + 1 BY <1>5, <1>9, <1>10, <1>12, <1>13, <2>2
  <2> QED BY <1>12, <2>1, <2>2
<1>16. \A i, j \in DOMAIN full : i # j => full[i].lot # full[j].lot
  <2> TAKE i, j \in DOMAIN full
  <2> HAVE i # j
  <2>1. CASE i \in 1 .. n /\ j \in 1 .. n
    <3>1. m + i \in DOMAIN AllRows /\ AllRows[m + i] = full[i] BY <1>14, <2>1
    <3>2. m + j \in DOMAIN AllRows /\ AllRows[m + j] = full[j] BY <1>14, <2>1
    <3>3. m + i # m + j BY <1>12, <2>1
    <3> QED BY <1>9, <3>1, <3>2, <3>3
  <2>2. CASE i = n + 1 /\ j \in 1 .. n
    <3>1. m + j \in DOMAIN AllRows /\ AllRows[m + j] = full[j] BY <1>14, <2>2
    <3> QED BY <1>5, <1>9, <1>10, <2>2, <3>1
  <2>3. CASE j = n + 1 /\ i \in 1 .. n
    <3>1. m + i \in DOMAIN AllRows /\ AllRows[m + i] = full[i] BY <1>14, <2>3
    <3> QED BY <1>5, <1>9, <1>10, <2>3, <3>1
  <2> QED BY <1>12, <2>1, <2>2, <2>3
<1>17. Written(full) = stored \o full BY <1>1, <1>10, <1>15, <1>16, WrittenAppends
<1> QED BY <1>2, <1>7, <1>8, <1>17 DEF full, row, price, status, lot

\* What KeepsProfit says of every row is what the run checks.
LEMMA ProfitIsKept ==
  ASSUME batch \in Seq(ReplayRows), stored \in Seq(ReplayRows)
  PROVE  TargetKeepsProfit <=> \A i \in DOMAIN AllRows : KeepsProfit(AllRows[i])
<1>1. TargetKeepsProfit <=> \A r \in ToSet(stored) \cup ToSet(batch) : KeepsProfit(r)
  BY DEF TargetKeepsProfit, KeepsProfit
<1> QED BY <1>1, ProfitOfRows DEF AllRows

\* The units of a lot that leaves are those its row has paid for.
LEMMA SaleLeaves ==
  ASSUME plan' = plan, rLots \in Seq(ReplayLots), slices \in Seq(FifoSlices(Nat \X Nat)),
         Fifo => Quantity(slices) = Total(Quantities(rLots)),
         NEW lot \in ReplayLots, NEW left \in Seq(ReplayLots),
         Total(Paid(rLots)) = Total(Paid(left)) + PaidFor(lot),
         Total(Quantities(rLots)) = Total(Quantities(left)) + lot.qty,
         rLots' = left, slices' = IF Fifo THEN Consume(slices, lot.qty) ELSE slices
  PROVE  /\ slices' \in Seq(FifoSlices(Nat \X Nat)) /\ HeldCost \in Int /\ HeldCost' \in Int
         /\ HeldCost = HeldCost' + AcquisitionOf(lot, slices)
         /\ Fifo' => Quantity(slices') = Total(Quantities(rLots'))
<1>1. /\ Fifo' <=> Fifo
      /\ Fifo => /\ HeldCost = Cost(slices) + ReplayFee * Quantity(slices)
                 /\ HeldCost' = Cost(slices') + ReplayFee * Quantity(slices')
      /\ ~ Fifo => HeldCost = Total(Paid(rLots)) /\ HeldCost' = Total(Paid(rLots')) BY HeldCosts
<1>2. /\ Total(Quantities(left)) \in Nat /\ Total(Paid(left)) \in Int
      /\ Total(Paid(rLots)) \in Int BY SumsAreOfLots
<1>3. lot.qty \in Nat /\ lot.price \in Nat /\ ReplayFee \in Nat BY ReplayBoundsAreNatural DEF ReplayLots
<1>4. CASE ~ Fifo
  <2>1. slices' = slices BY <1>4
  <2>2. AcquisitionOf(lot, slices) = PaidFor(lot) BY <1>4 DEF AcquisitionOf, PaidFor
  <2>3. PaidFor(lot) \in Int BY <1>3 DEF PaidFor
  <2> QED BY <1>1, <1>2, <1>4, <2>1, <2>2, <2>3
<1>5. CASE Fifo
  <2>1. slices' = Consume(slices, lot.qty) BY <1>5
  <2>2. lot.qty <= Quantity(slices) BY <1>2, <1>3, <1>5
  <2>3. /\ slices' \in Seq(FifoSlices(Nat \X Nat)) /\ Quantity(slices') = Quantity(slices) - lot.qty
        /\ Cost(slices') = Cost(slices) - MatchCost(slices, lot.qty) BY <1>3, <2>1, <2>2, QueueSale
  <2>4. Cost(slices) \in Int /\ Quantity(slices) \in Nat /\ MatchCost(slices, lot.qty) \in Int BY <1>3, QueueCosts
  <2>5. AcquisitionOf(lot, slices) = MatchCost(slices, lot.qty) + ReplayFee * lot.qty BY <1>5 DEF AcquisitionOf
  <2> DEFINE c == Cost(slices)
             u == Quantity(slices)
             m == MatchCost(slices, lot.qty)
             q == lot.qty
             f == ReplayFee
  <2>6. c \in Int /\ u \in Int /\ m \in Int /\ q \in Int /\ f \in Int BY <1>3, <2>4
  <2>7. HeldCost = c + f * u /\ HeldCost' = (c - m) + f * (u - q) /\ AcquisitionOf(lot, slices) = m + f * q
    BY <1>1, <1>5, <2>3, <2>5
  <2>8. Quantity(slices') = Total(Quantities(rLots')) BY <1>2, <1>3, <1>5, <2>3
  <2> HIDE DEF c, u, m, q, f
  <2>9. c + f * u = ((c - m) + f * (u - q)) + (m + f * q) /\ c + f * u \in Int /\ (c - m) + f * (u - q) \in Int BY <2>6
  <2> QED BY <1>5, <2>3, <2>7, <2>8, <2>9
<1> QED BY <1>4, <1>5

\* A lot that leaves turns into one row.
LEMMA CloseKeepsBooks ==
  ASSUME ReplayTypes, LadderInv, TargetsAreFresh, BooksInv, TargetKeepsProfit, CloseLot
  PROVE  /\ rLots' \in Seq(ReplayLots) /\ slices' \in Seq(FifoSlices(Nat \X Nat)) /\ metrics' \in [Counters -> Int]
         /\ batch' \in Seq(ReplayRows) /\ stored' \in Seq(ReplayRows)
         /\ LadderInv' /\ TargetsAreFresh' /\ BooksInv' /\ TargetKeepsProfit'
<1> DEFINE lot == rLots[at]
           status == ReplayExitStatus(lot)
           row == TradeRow(lot, status, ExitPrice(lot, status))
           full == Append(batch, row)
           left == RemoveAt(rLots, at)
<1>1. /\ rLots \in Seq(ReplayLots) /\ entered \in Seq(ReplayLots) /\ slices \in Seq(FifoSlices(Nat \X Nat))
      /\ batch \in Seq(ReplayRows) /\ stored \in Seq(ReplayRows) /\ metrics \in [Counters -> Int] BY DEF ReplayTypes
<1>2. /\ rPhase = "exit" /\ at <= Len(rLots) /\ status # "NONE"
      /\ rPhase' = rPhase /\ plan' = plan /\ order' = order /\ cycle' = cycle /\ entries' = entries /\ entered' = entered
      /\ slices' = (IF Fifo THEN Consume(slices, lot.qty) ELSE slices) /\ rLots' = left /\ metrics' = Counted(row)
      /\ batch' = (IF Len(full) >= plan.batch THEN <<>> ELSE full)
      /\ stored' = (IF Len(full) >= plan.batch THEN Written(full) ELSE stored)
      /\ rExited' = Fifo /\ rChanged' = Fifo
  BY DEF CloseLot, rMarket
<1>3. /\ lot \in ReplayLots /\ at \in 1 .. Len(rLots) /\ ClosedBy(row)
      /\ Written(full) = stored \o full /\ AllRows \in Seq(ReplayRows)
  BY <1>2, CloseIs
<1> HIDE DEF status, row
<1>4. /\ row \in ReplayRows /\ row.lot = lot.id /\ row.status # "OPEN" /\ row.cost = AcquisitionOf(lot, slices)
      /\ KeepsProfit(row) BY <1>3 DEF ClosedBy
<1>5. /\ stored \o full = Append(AllRows, row) /\ (stored \o full) \o <<>> = Append(AllRows, row)
      /\ stored \o full \in Seq(ReplayRows) BY <1>1, <1>4, JoinedRows DEF AllRows
<1>6. full \in Seq(ReplayRows) BY <1>1, <1>4
<1> HIDE DEF full
<1>7. AllRows' = Append(AllRows, row) /\ batch' \in Seq(ReplayRows) /\ stored' \in Seq(ReplayRows)
  <2>1. CASE Len(full) >= plan.batch
    <3>1. batch' = <<>> /\ stored' = stored \o full BY <1>2, <1>3, <2>1
    <3>2. <<>> \in Seq(ReplayRows) OBVIOUS
    <3> QED BY <1>5, <3>1, <3>2 DEF AllRows
  <2>2. CASE ~ (Len(full) >= plan.batch)
    <3>1. batch' = full /\ stored' = stored BY <1>2, <2>2
    <3> QED BY <1>1, <1>5, <1>6, <3>1 DEF AllRows
  <2> QED BY <2>1, <2>2
<1>8. /\ \A i, j \in DOMAIN AllRows : AllRows[i].lot = AllRows[j].lot => i = j
      /\ \A i, j \in DOMAIN rLots : rLots[i].id = rLots[j].id => i = j
      /\ \A i \in DOMAIN AllRows, j \in DOMAIN rLots : AllRows[i].lot # rLots[j].id
      /\ \A i \in DOMAIN AllRows : \E c \in DOMAIN entered : entered[c].id = AllRows[i].lot
      /\ \A i \in DOMAIN rLots : \E c \in DOMAIN entered : entered[c].id = rLots[i].id
  BY <1>2 DEF BooksInv, Running, LotsAreApart
<1>9. /\ \A i \in DOMAIN AllRows : AllRows[i].status # "OPEN"
      /\ \A s \in Statuses : metrics[s] = Cardinality(With(AllRows, s))
      /\ metrics.realized = Total(Nets(AllRows))
      /\ Total(Costs(AllRows)) + HeldCost = Total(Paid(entered))
      /\ Fifo => Quantity(slices) = Total(Quantities(rLots))
  BY <1>2 DEF BooksInv, Running, BooksBalance
<1>10. /\ left \in Seq(ReplayLots)
       /\ \A j \in DOMAIN left : \E c \in DOMAIN rLots : left[j] = rLots[c]
       /\ \A j \in DOMAIN left : left[j].id # lot.id
       /\ \A i, j \in DOMAIN left : left[i].id = left[j].id => i = j
       /\ Total(Paid(rLots)) = Total(Paid(left)) + PaidFor(lot)
       /\ Total(Quantities(rLots)) = Total(Quantities(left)) + lot.qty
  BY <1>1, <1>3, <1>8, OneLotLess
<1>11. lot = rLots[at] /\ at \in DOMAIN rLots BY <1>1, <1>3
<1> HIDE DEF lot, left
<1>12. /\ slices' \in Seq(FifoSlices(Nat \X Nat)) /\ HeldCost \in Int /\ HeldCost' \in Int
       /\ HeldCost = HeldCost' + row.cost
       /\ Fifo' => Quantity(slices') = Total(Quantities(rLots'))
  BY <1>1, <1>2, <1>3, <1>4, <1>9, <1>10, SaleLeaves
<1>13. /\ metrics' \in [Counters -> Int]
       /\ \A s \in Statuses : metrics'[s] = metrics[s] + (IF row.status = s THEN 1 ELSE 0)
       /\ metrics'.realized = metrics.realized + row.net BY <1>1, <1>2, <1>4, CountedIs
<1>14. TargetsAreFresh'
  <2>1. Fifo' <=> Fifo BY <1>2 DEF Fifo
  <2> QED BY <1>2, <2>1 DEF TargetsAreFresh
<1>15. LadderInv'
  <2>1. MaximumEntries' = MaximumEntries BY <1>2 DEF MaximumEntries
  <2>2. /\ \A i \in DOMAIN entered : entered[i].id[1] \in 1 .. cycle
        /\ \A c \in 1 .. cycle : \E n \in 0 .. MaximumEntries : Numbered(entered, c, n)
        /\ \A i \in DOMAIN rLots : rLots[i].id[1] = cycle
        /\ order = <<>> /\ cycle >= 1 /\ Numbered(entered, cycle, entries)
    <3>1. rLots # <<>> BY <1>1, <1>11
    <3> QED BY <1>2, <3>1 DEF LadderInv
  <2>3. \A i \in DOMAIN rLots' : rLots'[i].id[1] = cycle BY <1>2, <1>10, <2>2
  <2> QED BY <1>2, <2>1, <2>2, <2>3 DEF LadderInv
<1> DEFINE n == Len(AllRows)
           rows == Append(AllRows, row)
<1>16. /\ n \in Nat /\ DOMAIN AllRows = 1 .. n /\ DOMAIN rows = 1 .. (n + 1)
       /\ (\A i \in 1 .. n : rows[i] = AllRows[i]) /\ rows[n + 1] = row
  <2>1. rows \in Seq(ReplayRows) /\ Len(rows) = n + 1 /\ (\A i \in 1 .. n : rows[i] = AllRows[i]) /\ rows[n + 1] = row
    BY <1>3, <1>4, AppendProperties
  <2> HIDE DEF rows
  <2> QED BY <1>3, <2>1
<1>17. AllRows' = rows BY <1>7
<1>18. \A s : Cardinality(With(rows, s)) = Cardinality(With(AllRows, s)) + (IF row.status = s THEN 1 ELSE 0)
  BY <1>3, <1>4, CountOfLonger
<1>19. Total(Nets(rows)) = Total(Nets(AllRows)) + row.net /\ Total(Costs(rows)) = Total(Costs(AllRows)) + row.cost
       /\ Total(Costs(AllRows)) \in Int
  BY <1>3, <1>4, SumsOfRows
<1> HIDE DEF n, rows
<1>20. \A i \in DOMAIN rows : \/ i \in DOMAIN AllRows /\ rows[i] = AllRows[i]
                              \/ i = n + 1 /\ rows[i] = row
  BY <1>16
<1>21. LotsAreApart'
  <2>1. \A i, j \in DOMAIN rows : rows[i].lot = rows[j].lot => i = j
    <3>1. \A i \in DOMAIN AllRows : AllRows[i].lot # row.lot BY <1>4, <1>8, <1>11
    <3> QED BY <1>8, <1>20, <3>1
  <2>2. \A i \in DOMAIN rows, j \in DOMAIN left : rows[i].lot # left[j].id BY <1>4, <1>8, <1>10, <1>20
  <2>3. \A i \in DOMAIN rows : \E c \in DOMAIN entered : entered[c].id = rows[i].lot BY <1>4, <1>8, <1>11, <1>20
  <2>4. \A j \in DOMAIN left : \E c \in DOMAIN entered : entered[c].id = left[j].id BY <1>8, <1>10
  <2> QED BY <1>2, <1>10, <1>17, <2>1, <2>2, <2>3, <2>4 DEF LotsAreApart
<1>22. BooksBalance'
  <2>1. \A i \in DOMAIN rows : rows[i].status # "OPEN" BY <1>4, <1>9, <1>20
  <2>2. \A s \in Statuses : metrics'[s] = Cardinality(With(rows, s)) BY <1>9, <1>13, <1>18
  <2>3. metrics'.realized = Total(Nets(rows)) BY <1>9, <1>13, <1>19
  <2>4. Total(Costs(rows)) + HeldCost' = Total(Paid(entered)) 
    <3>1. row.cost \in Int BY <1>4 DEF ReplayRows
    <3> QED BY <1>9, <1>12, <1>19, <3>1
  <2> QED BY <1>2, <1>12, <1>17, <2>1, <2>2, <2>3, <2>4 DEF BooksBalance
<1>23. TargetKeepsProfit'
  <2>1. \A i \in DOMAIN AllRows : KeepsProfit(AllRows[i]) BY <1>1, ProfitIsKept
  <2>2. \A i \in DOMAIN rows : KeepsProfit(rows[i]) BY <1>4, <1>20, <2>1
  <2>3. \A r \in ToSet(stored') \cup ToSet(batch') : KeepsProfit(r)
    <3>1. stored' \o batch' = rows BY <1>17 DEF AllRows
    <3> QED BY <1>7, <2>2, <3>1, ProfitOfRows
  <2> QED BY <1>2, <2>3 DEF TargetKeepsProfit, KeepsProfit, Fifo
<1> QED BY <1>2, <1>7, <1>10, <1>12, <1>13, <1>14, <1>15, <1>21, <1>22, <1>23 DEF BooksInv

-----------------------------------------------------------------------------
(* The end of a replay. *)

\* The rows of the lots that are open at the end, and what they add to the metrics.
LEMMA OpenRowsAre ==
  ASSUME ReplayTypes
  PROVE  /\ OpenRows \in Seq(ReplayRows) /\ Len(OpenRows) = Len(rLots)
         /\ \A i \in 1 .. Len(rLots) : OpenRows[i].lot = rLots[i].id /\ OpenRows[i].status = "OPEN"
         /\ WithOpenRows \in [Counters -> Int]
         /\ \A s \in Statuses : WithOpenRows[s] = metrics[s] + (IF s = "OPEN" THEN Len(rLots) ELSE 0)
         /\ WithOpenRows.realized = metrics.realized
<1> DEFINE n == Len(rLots)
           open(i) == TradeRow(rLots[i], "OPEN", barCandle.c)
           worth == Total([i \in DOMAIN rLots |-> OpenRows[i].net])
<1>1. /\ rLots \in Seq(ReplayLots) /\ slices \in Seq(FifoSlices(Nat \X Nat)) /\ barCandle \in ReplayCandles
      /\ metrics \in [Counters -> Int] BY DEF ReplayTypes
<1>2. n \in Nat /\ DOMAIN rLots = 1 .. n /\ \A i \in 1 .. n : rLots[i] \in ReplayLots BY <1>1
<1>3. "OPEN" \in Statuses /\ barCandle.c \in Int BY <1>1, CandleFacts DEF Statuses
<1> HIDE DEF n
<1>4. ASSUME NEW i \in 1 .. n PROVE open(i) \in ReplayRows /\ open(i).lot = rLots[i].id /\ open(i).status = "OPEN"
  <2>1. RowHas(open(i), rLots[i], "OPEN", barCandle.c) BY <1>1, <1>2, <1>3, RowIs
  <2> HIDE DEF open
  <2> QED BY <2>1 DEF RowHas
<1>5. OpenRows = [i \in 1 .. n |-> open(i)] BY DEF OpenRows, n
<1> HIDE DEF open
<1>6. OpenRows \in [1 .. n -> ReplayRows] BY <1>4, <1>5
<1>7. OpenRows \in Seq(ReplayRows) /\ Len(OpenRows) = n BY <1>2, <1>6, SeqOfFunction
<1>8. \A i \in 1 .. n : OpenRows[i].lot = rLots[i].id /\ OpenRows[i].status = "OPEN" BY <1>4, <1>5
<1>9. worth \in Int
  <2> DEFINE v == [i \in DOMAIN rLots |-> OpenRows[i].net]
  <2>1. \A i \in 1 .. n : OpenRows[i] \in ReplayRows BY <1>4, <1>5
  <2>2. \A i \in 1 .. n : v[i] \in Int BY <1>2, <2>1 DEF ReplayRows
  <2>3. DOMAIN v = 1 .. n BY <1>2
  <2>4. Len(v) = n BY <1>2, <2>3
  <2> HIDE DEF v
  <2>5. Total(v) \in Int BY <1>2, <2>2, <2>4, SumIsInt DEF Total
  <2> QED BY <2>5 DEF v
<1> HIDE DEF worth
<1>10. /\ "realized" \notin Statuses /\ "unrealized" \notin Statuses /\ "realized" # "unrealized"
       /\ Statuses \subseteq Counters /\ "realized" \in Counters /\ "unrealized" \in Counters BY DEF Statuses, Counters
<1> DEFINE one == [metrics EXCEPT !["OPEN"] = metrics["OPEN"] + n]
           all == [one EXCEPT !.unrealized = metrics.unrealized + worth]
<1>11. WithOpenRows = all BY <1>3, <1>10 DEF WithOpenRows, worth, n
<1>12. one \in [Counters -> Int] /\ (\A s \in Statuses : one[s] = metrics[s] + (IF s = "OPEN" THEN n ELSE 0))
       /\ one["realized"] = metrics["realized"] BY <1>1, <1>2, <1>3, <1>10
<1> HIDE DEF one
<1>13. metrics.unrealized \in Int BY <1>1, <1>10
<1>14. all \in [Counters -> Int] /\ (\A s \in Statuses : all[s] = one[s]) /\ all["realized"] = one["realized"]
  BY <1>9, <1>10, <1>12, <1>13
<1> HIDE DEF all
<1> QED BY <1>7, <1>8, <1>11, <1>12, <1>14 DEF n

\* A sum of what only closed rows have is not changed by the open ones behind them.
LEMMA ClosedSums ==
  ASSUME NEW rows \in Seq(ReplayRows), NEW open \in Seq(ReplayRows),
         \A i \in DOMAIN rows : rows[i].status # "OPEN", \A i \in DOMAIN open : open[i].status = "OPEN"
  PROVE  LET all == rows \o open IN
         /\ Total([i \in DOMAIN all |-> IF IsClosed(all[i]) THEN all[i].net ELSE 0]) = Total(Nets(rows))
         /\ Total([i \in DOMAIN all |-> IF IsClosed(all[i]) THEN all[i].cost ELSE 0]) = Total(Costs(rows))
<1> DEFINE n == Len(rows)
           k == Len(open)
           all == rows \o open
           net == [i \in DOMAIN all |-> IF IsClosed(all[i]) THEN all[i].net ELSE 0]
           cost == [i \in DOMAIN all |-> IF IsClosed(all[i]) THEN all[i].cost ELSE 0]
<1>1. all \in Seq(ReplayRows) /\ Len(all) = n + k /\ \A i \in 1 .. (n + k) : all[i] = IF i <= n THEN rows[i] ELSE open[i - n]
  BY ConcatProperties
<1>2. n \in Nat /\ k \in Nat /\ DOMAIN rows = 1 .. n /\ DOMAIN open = 1 .. k OBVIOUS
<1>3. DOMAIN all = 1 .. (n + k) BY <1>1
<1>4. \A i \in 1 .. n : rows[i].net \in Int /\ rows[i].cost \in Int /\ rows[i].status # "OPEN"
  <2>1. \A i \in 1 .. n : rows[i] \in ReplayRows OBVIOUS
  <2> QED BY <1>2, <2>1 DEF ReplayRows
<1>5. DOMAIN Nets(rows) = 1 .. n /\ DOMAIN Costs(rows) = 1 .. n
      /\ \A i \in 1 .. n : Nets(rows)[i] = rows[i].net /\ Costs(rows)[i] = rows[i].cost BY <1>2 DEF Nets, Costs
<1> HIDE DEF n, k, all
<1>6. Len(Nets(rows)) = n /\ Len(Costs(rows)) = n BY <1>2, <1>5
<1>7. DOMAIN net = 1 .. (n + k) /\ DOMAIN cost = 1 .. (n + k) BY <1>3
<1>8. n + k \in Nat BY <1>2
<1> HIDE DEF net, cost
<1>9. Len(net) = n + k /\ Len(cost) = n + k BY <1>7, <1>8
<1>10. \A i \in 1 .. n : net[i] = Nets(rows)[i] /\ cost[i] = Costs(rows)[i]
  <2> TAKE i \in 1 .. n
  <2>1. i \in 1 .. (n + k) /\ i <= n BY <1>2
  <2>2. all[i] = rows[i] BY <1>1, <2>1
  <2>3. IsClosed(all[i]) BY <1>4, <2>2 DEF IsClosed
  <2> QED BY <1>3, <1>5, <2>1, <2>2, <2>3 DEF net, cost
<1>11. \A i \in (n + 1) .. (n + k) : net[i] = 0 /\ cost[i] = 0
  <2> TAKE i \in (n + 1) .. (n + k)
  <2>1. i \in 1 .. (n + k) /\ ~ (i <= n) /\ i - n \in 1 .. k BY <1>2
  <2>2. all[i] = open[i - n] BY <1>1, <2>1
  <2>3. ~ IsClosed(all[i]) BY <1>2, <2>1, <2>2 DEF IsClosed
  <2> QED BY <1>3, <2>1, <2>3 DEF net, cost
<1>12. \A i \in 1 .. n : Nets(rows)[i] \in Int /\ Costs(rows)[i] \in Int BY <1>4, <1>5
<1>13. Total(net) = Total(Nets(rows)) BY <1>2, <1>6, <1>9, <1>10, <1>11, <1>12, TotalWithZeros
<1>14. Total(cost) = Total(Costs(rows)) BY <1>2, <1>6, <1>9, <1>10, <1>11, <1>12, TotalWithZeros
<1> QED BY <1>13, <1>14 DEF all, net, cost

\* The rows of the lots that are still open are written behind the others.
LEMMA LastRowsAre ==
  ASSUME ReplayTypes, Running, BooksInv
  PROVE  Written(batch \o OpenRows) = AllRows \o OpenRows /\ AllRows \o OpenRows \in Seq(ReplayRows)
<1> DEFINE open == OpenRows
           rest == batch \o open
           m == Len(stored)
           n == Len(batch)
           k == Len(open)
<1>1. batch \in Seq(ReplayRows) /\ stored \in Seq(ReplayRows) /\ rLots \in Seq(ReplayLots) BY DEF ReplayTypes
<1>2. /\ open \in Seq(ReplayRows) /\ k = Len(rLots)
      /\ \A i \in 1 .. Len(rLots) : open[i].lot = rLots[i].id BY OpenRowsAre
<1> HIDE DEF open
<1>3. AllRows \in Seq(ReplayRows) /\ AllRows \o open \in Seq(ReplayRows) BY <1>1, <1>2, ConcatProperties DEF AllRows
<1>4. AllRows \o open = stored \o rest BY <1>1, <1>2, ConcatAssociative DEF AllRows
<1>5. /\ \A i, j \in DOMAIN AllRows : AllRows[i].lot = AllRows[j].lot => i = j
      /\ \A i, j \in DOMAIN rLots : rLots[i].id = rLots[j].id => i = j
      /\ \A i \in DOMAIN AllRows, j \in DOMAIN rLots : AllRows[i].lot # rLots[j].id BY DEF BooksInv, LotsAreApart
<1> DEFINE all == AllRows \o open
           a == Len(AllRows)
<1>6. /\ a \in Nat /\ k \in Nat /\ DOMAIN AllRows = 1 .. a /\ DOMAIN open = 1 .. k /\ DOMAIN rLots = 1 .. k
      /\ m \in Nat /\ n \in Nat /\ DOMAIN stored = 1 .. m /\ DOMAIN batch = 1 .. n BY <1>1, <1>2, <1>3
<1>7. Len(all) = a + k /\ \A i \in 1 .. (a + k) : all[i] = IF i <= a THEN AllRows[i] ELSE open[i - a]
  <2>1. AllRows \in Seq(ReplayRows) /\ open \in Seq(ReplayRows) BY <1>2, <1>3
  <2> HIDE DEF rest, m, n
  <2> QED BY <2>1, ConcatProperties
<1>8. rest \in Seq(ReplayRows) /\ Len(rest) = n + k BY <1>1, <1>2, ConcatProperties
<1> HIDE DEF rest
<1>9. /\ Len(stored \o rest) = m + (n + k)
      /\ \A i \in 1 .. (m + (n + k)) : (stored \o rest)[i] = IF i <= m THEN stored[i] ELSE rest[i - m]
  <2>1. stored \in Seq(ReplayRows) /\ rest \in Seq(ReplayRows) BY <1>1, <1>8
  <2>2. /\ Len(stored \o rest) = m + Len(rest)
        /\ \A i \in 1 .. (m + Len(rest)) : (stored \o rest)[i] = IF i <= m THEN stored[i] ELSE rest[i - m]
    BY <2>1, ConcatProperties
  <2> HIDE DEF m, n, k
  <2> QED BY <1>8, <2>2
<1> HIDE DEF all, m, n, k, a
<1>10. DOMAIN rest = 1 .. (n + k) BY <1>8
<1>11. DOMAIN all = 1 .. (a + k) /\ a + k = m + (n + k) BY <1>3, <1>4, <1>6, <1>7, <1>9 DEF all
<1>12. \A i, j \in 1 .. (a + k) : all[i].lot = all[j].lot => i = j
  <2> TAKE i, j \in 1 .. (a + k)
  <2> HAVE all[i].lot = all[j].lot
  <2>1. CASE i <= a /\ j <= a
    <3>1. i \in DOMAIN AllRows /\ j \in DOMAIN AllRows /\ all[i] = AllRows[i] /\ all[j] = AllRows[j] BY <1>6, <1>7, <2>1
    <3> QED BY <1>5, <3>1
  <2>2. CASE i <= a /\ ~ (j <= a)
    <3>1. i \in DOMAIN AllRows /\ j - a \in DOMAIN rLots /\ all[i] = AllRows[i] /\ all[j] = open[j - a] BY <1>6, <1>7, <2>2
    <3>2. all[j].lot = rLots[j - a].id BY <1>2, <1>6, <3>1
    <3> QED BY <1>5, <3>1, <3>2
  <2>3. CASE ~ (i <= a) /\ j <= a
    <3>1. j \in DOMAIN AllRows /\ i - a \in DOMAIN rLots /\ all[j] = AllRows[j] /\ all[i] = open[i - a] BY <1>6, <1>7, <2>3
    <3>2. all[i].lot = rLots[i - a].id BY <1>2, <1>6, <3>1
    <3> QED BY <1>5, <3>1, <3>2
  <2>4. CASE ~ (i <= a) /\ ~ (j <= a)
    <3>1. i - a \in DOMAIN rLots /\ j - a \in DOMAIN rLots /\ all[j] = open[j - a] /\ all[i] = open[i - a]
      BY <1>6, <1>7, <2>4
    <3>2. all[i].lot = rLots[i - a].id /\ all[j].lot = rLots[j - a].id BY <1>2, <1>6, <3>1
    <3>3. i - a = j - a BY <1>5, <3>1, <3>2
    <3> QED BY <1>6, <3>3
  <2> QED BY <2>1, <2>2, <2>3, <2>4
<1>13. \A i \in 1 .. m : i \in 1 .. (a + k) /\ all[i] = stored[i]
  <2> TAKE i \in 1 .. m
  <2>1. i \in 1 .. (m + (n + k)) /\ i <= m BY <1>6
  <2> QED BY <1>4, <1>9, <1>11, <2>1 DEF all
<1>14. \A j \in 1 .. (n + k) : m + j \in 1 .. (a + k) /\ all[m + j] = rest[j]
  <2> TAKE j \in 1 .. (n + k)
  <2>1. m + j \in 1 .. (m + (n + k)) /\ ~ (m + j <= m) /\ (m + j) - m = j BY <1>6
  <2> QED BY <1>4, <1>9, <1>11, <2>1 DEF all
<1>15. \A i \in DOMAIN stored, j \in DOMAIN rest : stored[i].lot # rest[j].lot
  <2> TAKE i \in DOMAIN stored, j \in DOMAIN rest
  <2>1. i \in 1 .. m /\ j \in 1 .. (n + k) /\ i # m + j BY <1>6, <1>10
  <2> QED BY <1>12, <1>13, <1>14, <2>1
<1>16. \A i, j \in DOMAIN rest : i # j => rest[i].lot # rest[j].lot
  <2> TAKE i, j \in DOMAIN rest
  <2> HAVE i # j
  <2>1. i \in 1 .. (n + k) /\ j \in 1 .. (n + k) /\ m + i # m + j BY <1>6, <1>10
  <2> QED BY <1>12, <1>14, <2>1
<1>17. Written(rest) = stored \o rest BY <1>1, <1>8, <1>15, <1>16, WrittenAppends
<1> QED BY <1>3, <1>4, <1>17 DEF rest, open

\* A replay that ends stores what it has counted.
LEMMA EndKeepsBooks ==
  ASSUME ReplayTypes, BooksInv, TargetKeepsProfit, EndReplay
  PROVE  /\ metrics' \in [Counters -> Int] /\ batch' \in Seq(ReplayRows) /\ stored' \in Seq(ReplayRows)
         /\ TargetKeepsProfit' /\ TradesReconcile'
<1> DEFINE all == AllRows \o OpenRows
           k == Len(rLots)
<1>1. /\ rPhase = "next" /\ rPhase' = "done" /\ plan' = plan /\ rLots' = rLots /\ slices' = slices /\ entered' = entered
      /\ batch' = <<>> /\ stored' = Written(batch \o OpenRows) /\ metrics' = WithOpenRows
  BY DEF EndReplay, LastRows, rBook
<1>2. stored' = all /\ all \in Seq(ReplayRows) BY <1>1, LastRowsAre DEF Running
<1>3. /\ rLots \in Seq(ReplayLots) /\ entered \in Seq(ReplayLots) /\ stored \in Seq(ReplayRows) /\ batch \in Seq(ReplayRows)
      /\ metrics \in [Counters -> Int] BY DEF ReplayTypes
<1>4. /\ OpenRows \in Seq(ReplayRows) /\ Len(OpenRows) = k
      /\ \A i \in 1 .. k : OpenRows[i].lot = rLots[i].id /\ OpenRows[i].status = "OPEN"
      /\ WithOpenRows \in [Counters -> Int]
      /\ \A s \in Statuses : WithOpenRows[s] = metrics[s] + (IF s = "OPEN" THEN k ELSE 0)
      /\ WithOpenRows.realized = metrics.realized BY OpenRowsAre
<1>5. AllRows \in Seq(ReplayRows) BY <1>3 DEF AllRows
<1>6. /\ \A i \in DOMAIN AllRows : AllRows[i].status # "OPEN"
      /\ \A s \in Statuses : metrics[s] = Cardinality(With(AllRows, s))
      /\ metrics.realized = Total(Nets(AllRows))
      /\ Total(Costs(AllRows)) + HeldCost = Total(Paid(entered)) BY <1>1 DEF BooksInv, Running, BooksBalance
<1>7. k \in Nat BY <1>3
<1>8. \A i \in DOMAIN OpenRows : OpenRows[i].status = "OPEN"
  <2>1. DOMAIN OpenRows = 1 .. k BY <1>4
  <2> QED BY <1>4, <2>1
<1> HIDE DEF k
<1>9. /\ Cardinality(With(all, "OPEN")) = k
      /\ \A s : s # "OPEN" => With(all, s) = With(AllRows, s)
  <2>1. AllRows \in Seq(ReplayRows) /\ OpenRows \in Seq(ReplayRows) /\ \A i \in DOMAIN AllRows : AllRows[i].status # "OPEN"
    BY <1>4, <1>5, <1>6
  <2>2. /\ Cardinality(With(AllRows \o OpenRows, "OPEN")) = Len(OpenRows)
        /\ \A s : s # "OPEN" => With(AllRows \o OpenRows, s) = With(AllRows, s) BY <1>8, <2>1, CountOfJoined
  <2> QED BY <1>4, <2>2
<1>10. /\ Total([i \in DOMAIN all |-> IF IsClosed(all[i]) THEN all[i].net ELSE 0]) = Total(Nets(AllRows))
       /\ Total([i \in DOMAIN all |-> IF IsClosed(all[i]) THEN all[i].cost ELSE 0]) = Total(Costs(AllRows))
  BY <1>4, <1>5, <1>6, <1>8, ClosedSums
<1>11. metrics["OPEN"] = 0
  <2>1. With(AllRows, "OPEN") = {} BY <1>6 DEF With
  <2>2. Cardinality({}) = 0 BY FS_EmptySet
  <2>3. "OPEN" \in Statuses BY DEF Statuses
  <2> QED BY <1>6, <2>1, <2>2, <2>3
<1> HIDE DEF all
<1>12. \A s \in Statuses : metrics'[s] = Cardinality(With(all, s))
  <2> TAKE s \in Statuses
  <2>1. CASE s = "OPEN" BY <1>1, <1>4, <1>7, <1>9, <1>11, <2>1
  <2>2. CASE s # "OPEN"
    <3>1. metrics[s] \in Int BY <1>3 DEF Counters
    <3>2. metrics'[s] = metrics[s] BY <1>1, <1>4, <2>2, <3>1
    <3> QED BY <1>6, <1>9, <2>2, <3>2
  <2> QED BY <2>1, <2>2
<1>13. metrics'.realized = Total([i \in DOMAIN all |-> IF IsClosed(all[i]) THEN all[i].net ELSE 0]) BY <1>1, <1>4, <1>6, <1>10
<1>14. HeldCost' = HeldCost BY <1>1 DEF HeldCost, Fifo, AcquisitionOf
<1>15. Total([i \in DOMAIN all |-> IF IsClosed(all[i]) THEN all[i].cost ELSE 0]) + HeldCost'
         = Total([i \in DOMAIN entered |-> (entered[i].price + ReplayFee) * entered[i].qty])
  BY <1>6, <1>10, <1>14 DEF Paid
<1>16. TradesReconcile' BY <1>1, <1>2, <1>12, <1>13, <1>15 DEF TradesReconcile, With, IsClosed
<1>17. TargetKeepsProfit'
  <2>1. \A i \in DOMAIN AllRows : KeepsProfit(AllRows[i]) BY <1>3, ProfitIsKept
  <2>2. \A i \in DOMAIN OpenRows : KeepsProfit(OpenRows[i]) BY <1>8 DEF KeepsProfit
  <2>3. ToSet(AllRows) = {AllRows[i] : i \in DOMAIN AllRows} /\ ToSet(OpenRows) = {OpenRows[i] : i \in DOMAIN OpenRows}
    BY DEF ToSet
  <2>4. \A r \in ToSet(AllRows) \cup ToSet(OpenRows) : KeepsProfit(r) BY <2>1, <2>2, <2>3
  <2>5. \A i \in DOMAIN all : KeepsProfit(all[i]) BY <1>4, <1>5, <2>4, ProfitOfRows DEF all
  <2>6. <<>> \in Seq(ReplayRows) /\ all \o <<>> = all
    <3>1. <<>> \in Seq(ReplayRows) OBVIOUS
    <3> QED BY <1>2, <3>1, ConcatEmptySeq
  <2>7. \A r \in ToSet(all) \cup ToSet(<<>>) : KeepsProfit(r) BY <1>2, <2>5, <2>6, ProfitOfRows
  <2> QED BY <1>1, <1>2, <2>7 DEF TargetKeepsProfit, KeepsProfit, Fifo
<1> QED BY <1>1, <1>2, <1>4, <1>16, <1>17

-----------------------------------------------------------------------------
(* The invariant. *)

\* A replay that has not begun.
LEMMA ReplayBegins ==
  ASSUME ReplayInit
  PROVE  ReplayInv
<1>1. /\ plan \in ReplayPlans /\ rPhase = "next" /\ bar = 0 /\ barCandle = CHOOSE k \in ReplayCandles : TRUE
      /\ rLots = <<>> /\ slices = <<>> /\ order = <<>> /\ cycle = 0 /\ entries = 0 /\ at = 1
      /\ batch = <<>> /\ stored = <<>> /\ entered = <<>> /\ metrics = [f \in Counters |-> 0]
  BY DEF ReplayInit, Counters
<1>2. barCandle \in ReplayCandles
  <2>1. ReplayCandles # {} BY ReplayCandlesAreCandles
  <2> QED BY <1>1, <2>1
<1>3. /\ \A S : <<>> \in Seq(S)
      /\ DOMAIN <<>> = {} /\ Len(<<>>) = 0 OBVIOUS
<1>4. ReplayTypes BY <1>1, <1>2, <1>3 DEF ReplayTypes
<1>5. LadderInv BY <1>1, <1>3 DEF LadderInv
<1>6. TargetsAreFresh BY <1>1, <1>3 DEF TargetsAreFresh
<1>7. AllRows = <<>>
  <2>1. stored \in Seq(ReplayRows) /\ batch = <<>> BY <1>1, <1>3
  <2> QED BY <1>1, <2>1, ConcatEmptySeq DEF AllRows
<1>8. \A f : DOMAIN f = {} => Total(f) = 0
  <2> TAKE f
  <2> HAVE DOMAIN f = {}
  <2>1. 1 .. 0 = {} OBVIOUS
  <2>2. Len(f) = 0 BY <2>1
  <2> QED BY <2>2, SumStep DEF Total
<1>9. BooksBalance
  <2>1. DOMAIN Costs(<<>>) = {} /\ DOMAIN Nets(<<>>) = {} /\ DOMAIN Paid(<<>>) = {} /\ DOMAIN Quantities(<<>>) = {}
    BY <1>3 DEF Costs, Nets, Paid, Quantities
  <2>2. Total(Costs(<<>>)) = 0 /\ Total(Nets(<<>>)) = 0 /\ Total(Paid(<<>>)) = 0 /\ Total(Quantities(<<>>)) = 0
    BY <1>8, <2>1
  <2>3. Quantity(<<>>) = 0 /\ Cost(<<>>) = 0
    <3>1. Quantity(<<>>) = SumTo([i \in DOMAIN <<>> |-> <<>>[i].qty], 0) BY <1>3 DEF Quantity, HeldBefore
    <3>2. Cost(<<>>) = Total([i \in DOMAIN <<>> |-> <<>>[i].price * <<>>[i].qty]) BY DEF Cost
    <3>3. DOMAIN [i \in DOMAIN <<>> |-> <<>>[i].price * <<>>[i].qty] = {} BY <1>3
    <3> QED BY <1>8, <3>1, <3>2, <3>3, SumStep
  <2>4. HeldCost = 0
    <3>1. CASE Fifo
      <4>1. ReplayFee \in Nat BY ReplayBoundsAreNatural
      <4> QED BY <1>1, <2>3, <3>1, <4>1 DEF HeldCost
    <3>2. CASE ~ Fifo
      <4>1. DOMAIN [i \in DOMAIN rLots |-> AcquisitionOf(rLots[i], slices)] = {} BY <1>1, <1>3
      <4> QED BY <1>8, <3>2, <4>1 DEF HeldCost
    <3> QED BY <3>1, <3>2
  <2>5. \A s : With(<<>>, s) = {} BY <1>3 DEF With
  <2>6. \A s \in Statuses : metrics[s] = 0 BY <1>1 DEF Counters
  <2>7. metrics.realized = 0 BY <1>1 DEF Counters
  <2>8. Cardinality({}) = 0 BY FS_EmptySet
  <2>9. \A s \in Statuses : metrics[s] = Cardinality(With(AllRows, s)) BY <1>7, <2>5, <2>6, <2>8
  <2>10. Total(Costs(AllRows)) + HeldCost = Total(Paid(entered)) BY <1>1, <1>7, <2>2, <2>4
  <2>11. Fifo => Quantity(slices) = Total(Quantities(rLots)) BY <1>1, <2>2, <2>3
  <2>12. metrics.realized = Total(Nets(AllRows)) BY <1>7, <2>2, <2>7
  <2>13. \A i \in DOMAIN AllRows : AllRows[i].status # "OPEN" BY <1>3, <1>7
  <2> QED BY <2>9, <2>10, <2>11, <2>12, <2>13 DEF BooksBalance
<1>10. BooksInv BY <1>1, <1>3, <1>7, <1>9 DEF BooksInv, LotsAreApart
<1>11. TargetKeepsProfit BY <1>1, <1>3 DEF TargetKeepsProfit, ToSet
<1>12. TradesReconcile BY <1>1 DEF TradesReconcile
<1> QED BY <1>4, <1>5, <1>6, <1>10, <1>11, <1>12 DEF ReplayInv

\* A replay that stops where it is keeps what it has written.
LEMMA StopKeeps ==
  ASSUME ReplayInv, rPhase' \in {"cancelled", "failed"}, metrics' \in [Counters -> Int],
         UNCHANGED <<plan, bar, barCandle, at>>, UNCHANGED <<rBook, batch, stored>>
  PROVE  ReplayInv'
<1>1. /\ rLots' = rLots /\ slices' = slices /\ order' = order /\ cycle' = cycle /\ entries' = entries /\ entered' = entered
      /\ batch' = batch /\ stored' = stored /\ plan' = plan /\ bar' = bar /\ barCandle' = barCandle /\ at' = at BY DEF rBook
<1>2. ReplayTypes' BY <1>1 DEF ReplayInv, ReplayTypes
<1>3. MaximumEntries' = MaximumEntries BY <1>1 DEF MaximumEntries
<1>4. LadderInv' BY <1>1, <1>3 DEF ReplayInv, LadderInv
<1>5. TargetsAreFresh' /\ BooksInv' /\ TradesReconcile' BY DEF TargetsAreFresh, BooksInv, Running, TradesReconcile
<1>6. TargetKeepsProfit' BY <1>1 DEF ReplayInv, TargetKeepsProfit, Fifo
<1> QED BY <1>2, <1>4, <1>5, <1>6 DEF ReplayInv

\* Every step keeps the invariant.
LEMMA ReplayStep ==
  ASSUME ReplayInv, ReplayNext
  PROVE  ReplayInv'
<1>1. ReplayTypes /\ LadderInv /\ TargetsAreFresh /\ BooksInv /\ TargetKeepsProfit /\ TradesReconcile BY DEF ReplayInv
<1>2. ASSUME NEW k \in ReplayCandles, NEW decision \in BOOLEAN, NextBar(k, decision) PROVE ReplayInv'
  <2>1. /\ rPhase' = "exit" /\ bar' = bar + 1 /\ barCandle' = k /\ order' = <<>> /\ at' = 1 /\ plan' = plan /\ cycle' = cycle
        /\ batch' = batch /\ stored' = stored /\ metrics' = metrics BY <1>2 DEF NextBar, rResults
  <2>2. entered' \in Seq(ReplayLots) /\ rLots' \in Seq(ReplayLots) /\ entries' \in Nat /\ LadderInv'
    BY <1>1, <1>2, FillKeepsLadder
  <2>3. slices' \in Seq(FifoSlices(Nat \X Nat)) /\ TargetsAreFresh' /\ BooksInv' BY <1>1, <1>2, FillKeepsBooks
  <2>4. ReplayTypes' BY <1>1, <2>1, <2>2, <2>3 DEF ReplayTypes
  <2>5. TargetKeepsProfit' BY <1>1, <2>1 DEF TargetKeepsProfit, Fifo
  <2>6. TradesReconcile' BY <2>1 DEF TradesReconcile
  <2> QED BY <2>2, <2>3, <2>4, <2>5, <2>6 DEF ReplayInv
<1>3. CASE KeepLot
  <2>1. /\ at' = at + 1 /\ UNCHANGED <<plan, rPhase, bar, barCandle, rExited, rChanged, batch, stored, metrics>>
        /\ rLots' = rLots /\ slices' = slices /\ order' = order /\ cycle' = cycle /\ entries' = entries /\ entered' = entered
    BY <1>3 DEF KeepLot, rMarket, rBook, rResults
  <2>2. ReplayTypes' BY <1>1, <2>1 DEF ReplayTypes
  <2>3. MaximumEntries' = MaximumEntries /\ AllRows' = AllRows /\ HeldCost' = HeldCost
    BY <2>1 DEF MaximumEntries, AllRows, HeldCost, Fifo, AcquisitionOf
  <2>4. LadderInv' BY <1>1, <2>1, <2>3 DEF LadderInv
  <2>5. TargetsAreFresh' BY <1>1, <2>1 DEF TargetsAreFresh, TargetOf, AcquisitionOf, Fifo
  <2>6. BooksInv' BY <1>1, <2>1, <2>3 DEF BooksInv, Running, LotsAreApart, BooksBalance, Fifo
  <2>7. TargetKeepsProfit' BY <1>1, <2>1 DEF TargetKeepsProfit, Fifo
  <2>8. TradesReconcile'
    <3>1. rPhase = "exit" BY <1>3 DEF KeepLot
    <3> QED BY <2>1, <3>1 DEF TradesReconcile
  <2> QED BY <2>2, <2>4, <2>5, <2>6, <2>7, <2>8 DEF ReplayInv
<1>4. CASE CloseLot
  <2>1. /\ UNCHANGED <<plan, rPhase, bar, barCandle, order, cycle, entries, entered, at>> /\ rPhase = "exit"
    BY <1>4 DEF CloseLot, rMarket
  <2>2. /\ rLots' \in Seq(ReplayLots) /\ slices' \in Seq(FifoSlices(Nat \X Nat)) /\ metrics' \in [Counters -> Int]
        /\ batch' \in Seq(ReplayRows) /\ stored' \in Seq(ReplayRows)
        /\ LadderInv' /\ TargetsAreFresh' /\ BooksInv' /\ TargetKeepsProfit' BY <1>1, <1>4, CloseKeepsBooks
  <2>3. ReplayTypes' BY <1>1, <2>1, <2>2 DEF ReplayTypes
  <2>4. TradesReconcile' BY <2>1 DEF TradesReconcile
  <2> QED BY <2>2, <2>3, <2>4 DEF ReplayInv
<1>5. CASE EndBar
  <2>1. /\ UNCHANGED <<plan, bar, barCandle, slices, entered, at, batch, stored>> /\ rPhase' = "next"
    BY <1>5 DEF EndBar, rLoop
  <2>2. /\ order' = <<>> \/ order' \in Nat \X Nat \X Nat
        /\ cycle' \in Nat /\ entries' \in Nat /\ rLots' \in Seq(ReplayLots) /\ LadderInv' BY <1>1, <1>5, BarKeepsLadder
  <2>3. metrics' \in [Counters -> Int] /\ TargetsAreFresh' /\ BooksInv' BY <1>1, <1>5, BarKeepsBooks
  <2>4. ReplayTypes' BY <1>1, <2>1, <2>2, <2>3 DEF ReplayTypes
  <2>5. TargetKeepsProfit' BY <1>1, <2>1 DEF TargetKeepsProfit, Fifo
  <2>6. TradesReconcile' BY <2>1 DEF TradesReconcile
  <2> QED BY <2>2, <2>3, <2>4, <2>5, <2>6 DEF ReplayInv
<1>6. CASE EndReplay
  <2>1. /\ UNCHANGED <<plan, bar, barCandle, at>> /\ rPhase' = "done"
        /\ rLots' = rLots /\ slices' = slices /\ order' = order /\ cycle' = cycle /\ entries' = entries /\ entered' = entered
    BY <1>6 DEF EndReplay, rBook, rLoop
  <2>2. /\ metrics' \in [Counters -> Int] /\ batch' \in Seq(ReplayRows) /\ stored' \in Seq(ReplayRows)
        /\ TargetKeepsProfit' /\ TradesReconcile' BY <1>1, <1>6, EndKeepsBooks
  <2>3. ReplayTypes' BY <1>1, <2>1, <2>2 DEF ReplayTypes
  <2>4. MaximumEntries' = MaximumEntries BY <2>1 DEF MaximumEntries
  <2>5. LadderInv' BY <1>1, <2>1, <2>4 DEF LadderInv
  <2>6. TargetsAreFresh' /\ BooksInv' BY <2>1 DEF TargetsAreFresh, BooksInv, Running
  <2> QED BY <2>2, <2>3, <2>5, <2>6 DEF ReplayInv
<1>7. CASE CancelReplay
  <2>1. /\ rPhase' = "cancelled" /\ UNCHANGED <<plan, bar, barCandle, at>> /\ UNCHANGED <<rBook, batch, stored>>
        /\ metrics' = metrics BY <1>7 DEF CancelReplay, rLoop, rResults
  <2>2. metrics' \in [Counters -> Int] BY <1>1, <2>1 DEF ReplayTypes
  <2> QED BY <2>1, <2>2, StopKeeps
<1>8. CASE WriteFails
  <2> DEFINE lot == rLots[at]
             status == ReplayExitStatus(lot)
             row == TradeRow(lot, status, ExitPrice(lot, status))
  <2>1. /\ rPhase' = "failed" /\ UNCHANGED <<plan, bar, barCandle, at>> /\ UNCHANGED <<rBook, batch, stored>>
        /\ rPhase = "exit" /\ at <= Len(rLots) /\ status # "NONE" /\ metrics' = Counted(row) BY <1>8 DEF WriteFails, rLoop
  <2>2. ClosedBy(row) BY <1>1, <2>1, CloseIs
  <2> HIDE DEF row
  <2>3. row \in ReplayRows /\ row.status # "OPEN" BY <2>2 DEF ClosedBy
  <2>4. metrics \in [Counters -> Int] BY <1>1 DEF ReplayTypes
  <2>5. metrics' \in [Counters -> Int] BY <2>1, <2>3, <2>4, CountedIs
  <2> QED BY <2>1, <2>5, StopKeeps
<1>9. CASE LastWriteFails
  <2>1. /\ rPhase' = "failed" /\ UNCHANGED <<plan, bar, barCandle, at>> /\ UNCHANGED <<rBook, batch, stored>>
        /\ metrics' = WithOpenRows BY <1>9 DEF LastWriteFails, rLoop
  <2>2. metrics' \in [Counters -> Int] BY <1>1, <2>1, OpenRowsAre
  <2> QED BY <2>1, <2>2, StopKeeps
<1> QED BY <1>2, <1>3, <1>4, <1>5, <1>6, <1>7, <1>8, <1>9 DEF ReplayNext

\* Nothing changes when nothing of the replay does.
LEMMA ReplayStutters ==
  ASSUME ReplayInv, UNCHANGED replayVars
  PROVE  ReplayInv'
<1>1. /\ UNCHANGED <<plan, rPhase, bar, barCandle, rExited, rChanged, at, batch, stored, metrics>>
      /\ rLots' = rLots /\ slices' = slices /\ order' = order /\ cycle' = cycle /\ entries' = entries /\ entered' = entered
  BY DEF replayVars, rMarket, rBook, rLoop, rResults
<1>2. ReplayTypes /\ LadderInv /\ TargetsAreFresh /\ BooksInv /\ TargetKeepsProfit /\ TradesReconcile BY DEF ReplayInv
<1>3. MaximumEntries' = MaximumEntries /\ AllRows' = AllRows /\ HeldCost' = HeldCost
  BY <1>1 DEF MaximumEntries, AllRows, HeldCost, Fifo, AcquisitionOf
<1>4. ReplayTypes' BY <1>1, <1>2 DEF ReplayTypes
<1>5. LadderInv' BY <1>1, <1>2, <1>3 DEF LadderInv
<1>6. TargetsAreFresh' BY <1>1, <1>2 DEF TargetsAreFresh, TargetOf, AcquisitionOf, Fifo
<1>7. BooksInv' BY <1>1, <1>2, <1>3 DEF BooksInv, Running, LotsAreApart, BooksBalance, Fifo
<1>8. TargetKeepsProfit' BY <1>1, <1>2 DEF TargetKeepsProfit, Fifo
<1>9. TradesReconcile' BY <1>1, <1>2, <1>3 DEF TradesReconcile, IsClosed
<1> QED BY <1>4, <1>5, <1>6, <1>7, <1>8, <1>9 DEF ReplayInv

\* The numbers of the ladder are those of the report.
LEMMA LaddersAreRead ==
  ASSUME ReplayInv
  PROVE  ReplayIsSound
<1>1. /\ entered \in Seq(ReplayLots) /\ plan \in ReplayPlans
      /\ \A c \in 1 .. cycle : \E n \in 0 .. MaximumEntries : Numbered(entered, c, n)
  BY DEF ReplayInv, ReplayTypes, LadderInv
<1>2. MaximumEntries \in Nat BY <1>1, PlanFacts
<1>3. ASSUME NEW c \in 1 .. cycle
      PROVE  LET mine == {i \in DOMAIN entered : entered[i].id[1] = c}
             IN  /\ {entered[i].id[2] : i \in mine} = 1 .. Cardinality(mine)
                 /\ Cardinality(mine) <= MaximumEntries
  <2>1. PICK n \in 0 .. MaximumEntries : Numbered(entered, c, n) BY <1>1
  <2>2. n \in Nat /\ n <= MaximumEntries BY <1>2
  <2>3. Cardinality(OfCycle(entered, c)) = n /\ {entered[i].id[2] : i \in OfCycle(entered, c)} = 1 .. n
    BY <1>1, <2>1, <2>2, NumberedCount
  <2> QED BY <2>2, <2>3 DEF OfCycle
<1>4. LaddersAreNumbered BY <1>3 DEF LaddersAreNumbered
<1> QED BY <1>4 DEF ReplayInv, ReplayIsSound

\* A replay, whatever it is asked, whatever the market does and wherever it stops,
\* keeps its books and its ladders (_run_symbol, from the first bar to the last row).
THEOREM ReplayInvariant == ReplaySpec => []ReplayInv
<1>1. ReplayInit => ReplayInv BY ReplayBegins
<1>2. ReplayInv /\ [ReplayNext]_replayVars => ReplayInv' BY ReplayStep, ReplayStutters
<1> QED BY <1>1, <1>2, PTL DEF ReplaySpec

\* The lots of a cycle are numbered without a gap or a repetition and are no more than
\* the ladder allows, no NSE exit at its target falls short of the profit asked for, and
\* a replay that ends reports the trades it stored: for every plan, candles, costs,
\* frame and batch size.
THEOREM ReplaysAreSound == ReplaySpec => []ReplayIsSound
<1>1. ReplayInv => ReplayIsSound BY LaddersAreRead
<1> QED BY <1>1, ReplayInvariant, PTL
=============================================================================
