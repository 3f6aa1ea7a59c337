-------------------------- MODULE PaperFundsProofs --------------------------
(***************************************************************************)
(* The account of the paper broker is not overdrawn as long as no          *)
(* container takes over with an older memory than the tables: proof for    *)
(* any configuration, tape and bound, with handlers cut short by crashes   *)
(* and database errors between any two transactions.                       *)
(*                                                                         *)
(* After such a cut the books need not balance, so nothing here rests on   *)
(* LedgerInv.  What survives a cut is less: rows and views carry prices    *)
(* that repay the costs of a sale, the account in memory is the one in the *)
(* database, and the FIFO queue is a queue.  While a fill runs, the lot it *)
(* is about has its money.                                                 *)
(***************************************************************************)
EXTENDS PaperBrokerProofs

-----------------------------------------------------------------------------
\* What a unit brings in any sale is at least its share of the costs.
Floor == Slippage + UnitFee

Pays(bar) ==
    /\ {"ts", "o", "l", "c"} \subseteq DOMAIN bar /\ {bar.ts, bar.o, bar.l, bar.c} \subseteq Int
    /\ Floor <= bar.o /\ Floor <= bar.l /\ Floor <= bar.c

\* The prices that a frame carries are above that, its moments are numbers.
Sound(x) ==
    /\ "do" \in DOMAIN x
    /\ x.do = "persist" => x.p.ts \in Int /\ x.p.created \in Int
    /\ x.do = "fill" => x.ts \in Int /\ Floor <= x.ref
    /\ x.do \in {"remark", "mark"} => Floor <= x.close
    /\ x.do \in {"consider", "sweep", "exit", "settle", "ladder"} =>
          "bar" \in DOMAIN x /\ Pays(x.bar)

\* Frames below the one that runs: none of them marks.
Solid(frames) == \A k \in DOMAIN frames : Sound(frames[k]) /\ frames[k].do # "mark"
Prices == todo # <<>> => Sound(Head(todo)) /\ Solid(Tail(todo))

RowPays(row) ==
    /\ {"entryTs", "target", "last"} \subseteq DOMAIN row
    /\ {row.entryTs, row.target, row.last} \subseteq Int
    /\ Floor <= row.target /\ Floor <= row.entryPrice /\ (row.status = "OPEN" => Floor <= row.last)
RowsPay == RowsOK /\ \A i \in DOMAIN lots : RowPays(lots[i])

ViewsPay == Shown /\ \A i \in DOMAIN openLots :
    /\ {openLots[i].target, openLots[i].last} \subseteq Int
    /\ Floor <= openLots[i].target /\ Floor <= openLots[i].last

TradeOK(t) ==
    /\ {"at", "qty", "side"} \subseteq DOMAIN t /\ t.at \in Int /\ t.qty \in Nat \ {0}
    /\ t.side = "BUY" => t.lot \in Nat /\ t.price \in Nat \ {0}
AccountOK ==
    /\ cash \in Nat /\ cashView = cash /\ fifo \in Seq(Slices)
    /\ Proper(trades) /\ \A n \in DOMAIN trades : TradeOK(trades[n])

\* A lot that is bought has its money; what is sold brings some.
Affordable(row) == EntryCost(row.entryPrice, row.qty) <= cash
TopOK ==
    LET x == Head(todo)
    IN  /\ Doing("lot") => Fresh(x.lot) /\ RowPays(x.lot) /\ Affordable(x.lot)
        /\ Doing("buy") \/ Doing("debit") =>
              /\ x.id \in DOMAIN lots /\ Fresh(lots[x.id]) /\ ~Viewed(x.id)
              /\ Affordable(lots[x.id])
        /\ Doing("close") =>
              /\ Viewed(x.id) /\ x.status # "OPEN" /\ {x.raw, x.at, x.cost} \subseteq Int
              /\ Floor <= x.raw
        /\ Doing("sell") => Viewed(x.id) /\ {x.price, x.at} \subseteq Int /\ UnitFee <= x.price
        /\ Doing("credit") => Viewed(x.id) /\ x.price \in Int /\ UnitFee <= x.price
        /\ Doing("mark") => /\ "left" \in DOMAIN x /\ Proper(x.left) /\ x.left # <<>>
                            /\ \A a \in DOMAIN x.left : Viewed(x.left[a])

Frames == Proper(todo) /\ Rest(Loose(todo)) /\ LoopOK /\ FillOK

Dated(s) == \A a \in DOMAIN s : s[a].ts \in Int /\ s[a].created \in Int

Funds == RowsPay /\ ViewsPay /\ AccountOK /\ Frames /\ Prices /\ TopOK

\* What holds as long as every owner began with the memory that the tables give.
FundsHold == Feeds /\ Dated(pending) /\ Funds

FundsInv == stale \in BOOLEAN /\ (~stale => FundsHold)

-----------------------------------------------------------------------------
(* Ids in their order. *)

\* below[x] are the members before x in an order without ties.
Ordered(S, below) ==
    /\ \A x \in S : below[x] \in SUBSET S /\ x \notin below[x]
    /\ \A x, y \in S : x # y => x \in below[y] \/ y \in below[x]
    /\ \A x, y \in S : x \in below[y] => below[x] \subseteq below[y]

\* Every place is taken, by one member.
LEMMA RanksByOrder ==
  ASSUME NEW S, IsFiniteSet(S), NEW below, Ordered(S, below)
  PROVE  /\ \A i \in 1..Cardinality(S) : \E x \in S : Cardinality(below[x]) = i - 1
         /\ \A x, y \in S : Cardinality(below[x]) = Cardinality(below[y]) => x = y
<1> DEFINE N == Cardinality(S)
           g == [x \in S |-> Cardinality(below[x]) + 1]
<1>1. N \in Nat BY FS_CardinalityType
<1>2. ASSUME NEW x \in S PROVE IsFiniteSet(below[x]) /\ Cardinality(below[x]) \in 0..(N - 1)
  <2>1. below[x] \in SUBSET S /\ x \notin below[x] BY DEF Ordered
  <2>2. IsFiniteSet(below[x]) /\ Cardinality(below[x]) <= N /\ (Cardinality(below[x]) = N => below[x] = S)
    BY <2>1, FS_Subset
  <2>3. Cardinality(below[x]) \in Nat BY <2>2, FS_CardinalityType
  <2>4. below[x] # S BY <2>1
  <2> HIDE DEF N
  <2> QED BY <1>1, <2>2, <2>3, <2>4
<1>3. ASSUME NEW x \in S, NEW y \in S, x \in below[y] PROVE Cardinality(below[x]) < Cardinality(below[y])
  <2>1. below[x] \subseteq below[y] /\ x \notin below[x] BY <1>3 DEF Ordered
  <2>2. below[x] # below[y] BY <1>3, <2>1
  <2>3. IsFiniteSet(below[y]) /\ Cardinality(below[x]) \in Int /\ Cardinality(below[y]) \in Int BY <1>2
  <2>4. Cardinality(below[x]) <= Cardinality(below[y])
        /\ (Cardinality(below[x]) = Cardinality(below[y]) => below[x] = below[y]) BY <2>1, <2>3, FS_Subset
  <2> QED BY <2>2, <2>3, <2>4
<1>4. ASSUME NEW x \in S, NEW y \in S, Cardinality(below[x]) = Cardinality(below[y]) PROVE x = y
  <2>1. Cardinality(below[x]) \in Int BY <1>2
  <2>2. x \notin below[y] /\ y \notin below[x] BY <1>3, <1>4, <2>1
  <2> QED BY <2>2 DEF Ordered
<1>5. g \in [S -> 1..N]
  <2> HIDE DEF N
  <2>1. \A x \in S : Cardinality(below[x]) + 1 \in 1..N BY <1>1, <1>2
  <2> QED BY <2>1
<1>6. \A x, y \in S : g[x] = g[y] => x = y
  <2> SUFFICES ASSUME NEW x \in S, NEW y \in S, g[x] = g[y] PROVE x = y OBVIOUS
  <2>1. Cardinality(below[x]) + 1 = Cardinality(below[y]) + 1 OBVIOUS
  <2>2. Cardinality(below[x]) \in Int /\ Cardinality(below[y]) \in Int BY <1>2
  <2>3. Cardinality(below[x]) = Cardinality(below[y]) BY <2>1, <2>2
  <2> QED BY <1>4, <2>3
<1>7. \A i \in 1..N : \E x \in S : g[x] = i
  <2> HIDE DEF g
  <2> QED BY <1>5, <1>6, RanksAreTaken
<1>8. ASSUME NEW i \in 1..N PROVE \E x \in S : Cardinality(below[x]) = i - 1
  <2>1. PICK x \in S : g[x] = i BY <1>7
  <2>2. Cardinality(below[x]) + 1 = i /\ Cardinality(below[x]) \in Int BY <1>2, <2>1
  <2>3. Cardinality(below[x]) = i - 1 BY <2>2
  <2> QED BY <2>3
<1> QED BY <1>4, <1>8

\* A sequence of the members of a set, each once.
Lists(s, S) ==
    /\ Proper(s) /\ DOMAIN s = 1..Cardinality(S) /\ Len(s) = Cardinality(S)
    /\ \A a \in DOMAIN s : s[a] \in S
    /\ \A a, b \in DOMAIN s : s[a] = s[b] => a = b

\* s[k] is the member that k - 1 others precede, if there is one.
Placed(s, S, below) ==
    /\ s = [k \in 1..Cardinality(S) |-> s[k]]
    /\ \A k \in 1..Cardinality(S) : (\E i \in S : Cardinality(below[i]) = k - 1)
          => s[k] \in S /\ Cardinality(below[s[k]]) = k - 1

\* Members placed in an order are all there.
LEMMA PlacedLists ==
  ASSUME NEW S, IsFiniteSet(S), NEW below, Ordered(S, below), NEW s, Placed(s, S, below)
  PROVE  Lists(s, S)
<1> DEFINE N == Cardinality(S)
<1>1. N \in Nat BY FS_CardinalityType
<1>2. s = [k \in 1..N |-> s[k]] BY DEF Placed
<1>3. \A k \in 1..N : s[k] \in S /\ Cardinality(below[s[k]]) = k - 1 BY RanksByOrder DEF Placed
<1> HIDE DEF N
<1>4. s \in [1..N -> S] BY <1>2, <1>3
<1>5. Proper(s) BY <1>1, <1>4, SeqOfFunction, ProperSeq
<1>6. DOMAIN s = 1..N /\ Len(s) = N
  <2>1. DOMAIN s = 1..N BY <1>4
  <2>2. DOMAIN s = 1..Len(s) /\ Len(s) \in Nat BY <1>5, ProperDomain
  <2> QED BY <1>1, <2>1, <2>2
<1>7. \A a, b \in DOMAIN s : s[a] = s[b] => a = b
  <2> SUFFICES ASSUME NEW a \in 1..N, NEW b \in 1..N, s[a] = s[b] PROVE a = b BY <1>6
  <2>1. a - 1 = b - 1 BY <1>3
  <2>2. a \in Int /\ b \in Int BY <1>1
  <2> QED BY <2>1, <2>2
<1> QED BY <1>3, <1>5, <1>6, <1>7 DEF Lists, N

\* Lots in the order of their entries.
LEMMA InOrderLists ==
  ASSUME RowsPay, NEW ids \in SUBSET DOMAIN lots PROVE Lists(InOrder(ids), ids)
<1> DEFINE s == InOrder(ids)
           below == [x \in ids |-> {j \in ids : Precedes(j, x)}]
<1>1. IsFiniteSet(ids) BY RowsFinite DEF RowsPay
<1>2. \A i \in ids : lots[i].entryTs \in Int /\ lots[i].num \in Int /\ i \in Int
  <2>1. Proper(lots) BY DEF RowsPay, RowsOK
  <2>2. \A i \in DOMAIN lots : i \in Int BY <2>1, ProperDomain
  <2> QED BY <2>2 DEF RowsPay, RowsOK, RowOK, RowPays
<1>3. Ordered(ids, below)
  <2>1. \A x \in ids : below[x] = {j \in ids : Precedes(j, x)} OBVIOUS
  <2> HIDE DEF below
  <2>2. \A x \in ids : ~Precedes(x, x) BY <1>2 DEF Precedes
  <2>3. \A x, y \in ids : x # y => Precedes(x, y) \/ Precedes(y, x) BY <1>2 DEF Precedes
  <2>4. \A x, y, z \in ids : Precedes(z, x) /\ Precedes(x, y) => Precedes(z, y) BY <1>2 DEF Precedes
  <2>5. \A x \in ids : below[x] \in SUBSET ids /\ x \notin below[x] BY <2>1, <2>2
  <2>6. \A x, y \in ids : x # y => x \in below[y] \/ y \in below[x] BY <2>1, <2>3
  <2>7. \A x, y \in ids : x \in below[y] => below[x] \subseteq below[y] BY <2>1, <2>4
  <2> QED BY <2>5, <2>6, <2>7 DEF Ordered
<1> DEFINE Nth(k) == CHOOSE i \in ids : Cardinality({j \in ids : Precedes(j, i)}) = k - 1
<1>4. s = [k \in 1..Cardinality(ids) |-> Nth(k)] BY DEF InOrder, Ranked
<1>5. Placed(s, ids, below)
  <2>1. \A x \in ids : below[x] = {j \in ids : Precedes(j, x)} OBVIOUS
  <2> HIDE DEF below, s, Nth
  <2>2. s = [k \in 1..Cardinality(ids) |-> s[k]] BY <1>4
  <2>3. ASSUME NEW k \in 1..Cardinality(ids), NEW i \in ids, Cardinality(below[i]) = k - 1
        PROVE  s[k] \in ids /\ Cardinality(below[s[k]]) = k - 1
    <3>1. Cardinality({j \in ids : Precedes(j, i)}) = k - 1 BY <2>1, <2>3
    <3>2. s[k] = Nth(k) BY <1>4
    <3>3. s[k] \in ids /\ Cardinality({j \in ids : Precedes(j, s[k])}) = k - 1 BY <3>1, <3>2 DEF Nth
    <3> QED BY <2>1, <3>3
  <2> QED BY <2>2, <2>3 DEF Placed
<1> HIDE DEF s, below
<1>6. Lists(s, ids) BY <1>1, <1>3, <1>5, PlacedLists
<1> QED BY <1>6 DEF s

\* The domain of a sequence, as a set to put in order.
LEMMA PlacesFinite ==
  ASSUME NEW s, Proper(s)
  PROVE  IsFiniteSet(DOMAIN s) /\ Cardinality(DOMAIN s) = Len(s) /\ \A i \in DOMAIN s : i \in Int
<1> DEFINE n == Len(s)
<1>1. n \in Nat /\ DOMAIN s = 1..n BY ProperDomain
<1> HIDE DEF n
<1>2. 1 \in Int /\ n \in Int BY <1>1
<1>3. IsFiniteSet(1..n) /\ Cardinality(1..n) = IF 1 > n THEN 0 ELSE n - 1 + 1 BY <1>2, FS_Interval
<1>4. Cardinality(1..n) = n BY <1>1, <1>3
<1> QED BY <1>1, <1>3, <1>4 DEF n

\* The trades in the order they were made.
LEMMA TradesInOrder ==
  ASSUME Proper(trades), \A i \in DOMAIN trades : trades[i].at \in Int
  PROVE  Lists(ReplayOrder, DOMAIN trades)
<1> DEFINE ids == DOMAIN trades
           s == ReplayOrder
           below == [x \in ids |-> {j \in ids : MadeBefore(j, x)}]
<1>1. IsFiniteSet(ids) /\ \A i \in ids : trades[i].at \in Int /\ i \in Int BY PlacesFinite
<1> HIDE DEF ids
<1>2. Ordered(ids, below)
  <2>1. \A x \in ids : below[x] = {j \in ids : MadeBefore(j, x)} OBVIOUS
  <2> HIDE DEF below
  <2>2. \A x \in ids : ~MadeBefore(x, x) BY <1>1 DEF MadeBefore
  <2>3. \A x, y \in ids : x # y => MadeBefore(x, y) \/ MadeBefore(y, x) BY <1>1 DEF MadeBefore
  <2>4. \A x, y, z \in ids : MadeBefore(z, x) /\ MadeBefore(x, y) => MadeBefore(z, y) BY <1>1 DEF MadeBefore
  <2>5. \A x \in ids : below[x] \in SUBSET ids /\ x \notin below[x] BY <2>1, <2>2
  <2>6. \A x, y \in ids : x # y => x \in below[y] \/ y \in below[x] BY <2>1, <2>3
  <2>7. \A x, y \in ids : x \in below[y] => below[x] \subseteq below[y] BY <2>1, <2>4
  <2> QED BY <2>5, <2>6, <2>7 DEF Ordered
<1> DEFINE Nth(k) == CHOOSE i \in ids : Cardinality({j \in ids : MadeBefore(j, i)}) = k - 1
<1>3. s = [k \in 1..Cardinality(ids) |-> Nth(k)] BY DEF ReplayOrder, Ranked, ids
<1>4. Placed(s, ids, below)
  <2>1. \A x \in ids : below[x] = {j \in ids : MadeBefore(j, x)} OBVIOUS
  <2> HIDE DEF below, s, Nth
  <2>2. s = [k \in 1..Cardinality(ids) |-> s[k]] BY <1>3
  <2>3. ASSUME NEW k \in 1..Cardinality(ids), NEW i \in ids, Cardinality(below[i]) = k - 1
        PROVE  s[k] \in ids /\ Cardinality(below[s[k]]) = k - 1
    <3>1. Cardinality({j \in ids : MadeBefore(j, i)}) = k - 1 BY <2>1, <2>3
    <3>2. s[k] = Nth(k) BY <1>3
    <3>3. s[k] \in ids /\ Cardinality({j \in ids : MadeBefore(j, s[k])}) = k - 1 BY <3>1, <3>2 DEF Nth
    <3> QED BY <2>1, <3>3
  <2> QED BY <2>2, <2>3 DEF Placed
<1> HIDE DEF s, below
<1>5. Lists(s, ids) BY <1>1, <1>2, <1>4, PlacedLists
<1> QED BY <1>5 DEF s, ids

\* The instructions in the order they were heard.
LEMMA PendingInOrder ==
  ASSUME Proper(pending), Dated(pending)
  PROVE  Lists(PendingOrder, DOMAIN pending)
<1> DEFINE ids == DOMAIN pending
           s == PendingOrder
           below == [x \in ids |-> {j \in ids : HeardBefore(j, x)}]
<1>1. IsFiniteSet(ids) /\ \A i \in ids : pending[i].ts \in Int /\ pending[i].created \in Int /\ i \in Int
  BY PlacesFinite DEF Dated
<1> HIDE DEF ids
<1>2. Ordered(ids, below)
  <2>1. \A x \in ids : below[x] = {j \in ids : HeardBefore(j, x)} OBVIOUS
  <2> HIDE DEF below
  <2>2. \A x \in ids : ~HeardBefore(x, x) BY <1>1 DEF HeardBefore
  <2>3. \A x, y \in ids : x # y => HeardBefore(x, y) \/ HeardBefore(y, x) BY <1>1 DEF HeardBefore
  <2>4. \A x, y, z \in ids : HeardBefore(z, x) /\ HeardBefore(x, y) => HeardBefore(z, y)
    BY <1>1 DEF HeardBefore
  <2>5. \A x \in ids : below[x] \in SUBSET ids /\ x \notin below[x] BY <2>1, <2>2
  <2>6. \A x, y \in ids : x # y => x \in below[y] \/ y \in below[x] BY <2>1, <2>3
  <2>7. \A x, y \in ids : x \in below[y] => below[x] \subseteq below[y] BY <2>1, <2>4
  <2> QED BY <2>5, <2>6, <2>7 DEF Ordered
<1> DEFINE Nth(k) == CHOOSE i \in ids : Cardinality({j \in ids : HeardBefore(j, i)}) = k - 1
<1>3. s = [k \in 1..Cardinality(ids) |-> Nth(k)] BY DEF PendingOrder, Ranked, ids
<1>4. Placed(s, ids, below)
  <2>1. \A x \in ids : below[x] = {j \in ids : HeardBefore(j, x)} OBVIOUS
  <2> HIDE DEF below, s, Nth
  <2>2. s = [k \in 1..Cardinality(ids) |-> s[k]] BY <1>3
  <2>3. ASSUME NEW k \in 1..Cardinality(ids), NEW i \in ids, Cardinality(below[i]) = k - 1
        PROVE  s[k] \in ids /\ Cardinality(below[s[k]]) = k - 1
    <3>1. Cardinality({j \in ids : HeardBefore(j, i)}) = k - 1 BY <2>1, <2>3
    <3>2. s[k] = Nth(k) BY <1>3
    <3>3. s[k] \in ids /\ Cardinality({j \in ids : HeardBefore(j, s[k])}) = k - 1 BY <3>1, <3>2 DEF Nth
    <3> QED BY <2>1, <3>3
  <2> QED BY <2>2, <2>3 DEF Placed
<1> HIDE DEF s, below
<1>5. Lists(s, ids) BY <1>1, <1>2, <1>4, PlacedLists
<1> QED BY <1>5 DEF s, ids

-----------------------------------------------------------------------------
(* Stacks of frames, without the books. *)

\* Quiet frames none of which marks.
Lawful(frames) == Quiets(frames) /\ Solid(frames)

\* Lawful frames can be put together.
LEMMA LawfulConcat == ASSUME NEW f, NEW g, Lawful(f), Lawful(g) PROVE Lawful(f \o g)
<1>1. Quiets(f \o g) BY QuietsConcat DEF Lawful
<1>2. \A k \in DOMAIN (f \o g) : \/ k \in DOMAIN f /\ (f \o g)[k] = f[k]
                                 \/ k - Len(f) \in DOMAIN g /\ (f \o g)[k] = g[k - Len(f)]
  BY ProperConcat DEF Lawful, Quiets
<1> QED BY <1>1, <1>2 DEF Lawful, Solid

\* No frame at all.
LEMMA LawfulNone == Lawful(<<>>)
  BY QuietsNone, ProperEmpty DEF Lawful, Solid

\* One frame.
LEMMA LawfulOne == ASSUME NEW x, Quiet(x), Sound(x), x.do # "mark" PROVE Lawful(<<x>>)
<1>1. Quiets(<<x>>) BY QuietsOne
<1>2. DOMAIN <<x>> = {1} /\ <<x>>[1] = x OBVIOUS
<1> QED BY <1>1, <1>2 DEF Lawful, Solid

\* Two frames.
LEMMA LawfulTwo ==
  ASSUME NEW x, NEW y, Quiet(x), Sound(x), x.do # "mark", Quiet(y), Sound(y), y.do # "mark"
  PROVE  Lawful(<<x, y>>)
<1>1. Quiets(<<x, y>>) BY QuietsTwo
<1>2. DOMAIN <<x, y>> = 1..2 /\ <<x, y>>[1] = x /\ <<x, y>>[2] = y OBVIOUS
<1>3. \A k \in 1..2 : k = 1 \/ k = 2 OBVIOUS
<1> QED BY <1>1, <1>2, <1>3 DEF Lawful, Solid

\* A loop over lawful frames.
LEMMA LawfulLoop ==
  ASSUME NEW x, NEW items,
         items # <<>> => LET y == [x EXCEPT !.left = items] IN Quiet(y) /\ Sound(y) /\ y.do # "mark"
  PROVE  Lawful(Loop(x, items))
<1>1. CASE items = <<>> BY <1>1, LawfulNone DEF Loop
<1>2. CASE items # <<>> BY <1>2, LawfulOne DEF Loop
<1> QED BY <1>1, <1>2

\* Solid frames one above the others.
LEMMA SolidPush ==
  ASSUME NEW x, NEW r, Proper(r), Sound(x), x.do # "mark", Solid(r) PROVE Solid(<<x>> \o r)
<1>1. <<x>> \in Seq({x}) OBVIOUS
<1>2. Proper(<<x>>) BY <1>1, ProperSeq
<1>3. DOMAIN <<x>> = {1} /\ <<x>>[1] = x OBVIOUS
<1>4. \A k \in DOMAIN (<<x>> \o r) : \/ k \in DOMAIN <<x>> /\ (<<x>> \o r)[k] = <<x>>[k]
                                     \/ k - Len(<<x>>) \in DOMAIN r /\ (<<x>> \o r)[k] = r[k - Len(<<x>>)]
  BY <1>2, ProperConcat
<1> QED BY <1>3, <1>4 DEF Solid

\* The frame that runs, and what is below it.
LEMMA FrameRuns ==
  ASSUME Frames, Prices, todo # <<>>
  PROVE  /\ Sound(Head(todo)) /\ Solid(Tail(todo)) /\ Proper(Tail(todo))
         /\ Head(todo).do \in Tight => Loose(todo) = Tail(todo) /\ Rest(Tail(todo))
         /\ Head(todo).do = "exit" => Loose(todo) = todo /\ ExitLoop(Head(todo)) /\ Lawful(Tail(todo))
         /\ Head(todo).do \notin Tight \cup {"exit"} =>
               Loose(todo) = todo /\ Quiet(Head(todo)) /\ Lawful(Tail(todo))
<1>1. Sound(Head(todo)) /\ Solid(Tail(todo)) BY DEF Prices
<1>2. Proper(todo) /\ Rest(Loose(todo)) BY DEF Frames
<1>3. Proper(Tail(todo)) BY <1>2, ProperTail
<1>4. CASE Head(todo).do \in Tight
  <2>1. Loose(todo) = Tail(todo) BY <1>4 DEF Loose
  <2>2. "exit" \notin Tight BY DEF Tight
  <2> QED BY <1>1, <1>2, <1>3, <1>4, <2>1, <2>2
<1>5. CASE Head(todo).do \notin Tight
  <2>1. Loose(todo) = todo BY <1>5 DEF Loose
  <2>2. Rest(todo) BY <1>2, <2>1
  <2>3. Quiets(Tail(todo)) /\ (Quiet(Head(todo)) \/ ExitLoop(Head(todo))) BY <2>2, RestTail
  <2>4. Quiet(Head(todo)) => Head(todo).do # "exit" BY DEF Quiet
  <2>5. ExitLoop(Head(todo)) => Head(todo).do = "exit" BY DEF ExitLoop
  <2> QED BY <1>1, <1>3, <1>5, <2>1, <2>3, <2>4, <2>5 DEF Lawful
<1> QED BY <1>4, <1>5

\* A frame of no fill, no exit and no exit loop runs.
LEMMA LawfulRuns ==
  ASSUME Funds, NEW step, Doing(step), step \notin Tight \cup {"exit"}
  PROVE  /\ todo # <<>> /\ Head(todo).do = step /\ Sound(Head(todo))
         /\ Quiet(Head(todo)) /\ Lawful(Tail(todo))
  BY FrameRuns DEF Doing, Funds

\* After its step.
LEMMA LawfulThen ==
  ASSUME Funds, NEW step, Doing(step), step \notin Tight \cup {"exit"}, NEW f, Lawful(f), Then(f)
  PROVE  Lawful(todo')
<1>1. Lawful(Tail(todo)) BY LawfulRuns
<1>2. todo' = f \o Tail(todo) BY DEF Then
<1> QED BY <1>1, <1>2, LawfulConcat

\* A stack in which neither a fill nor an exit is under way.
LEMMA AfterRest ==
  ASSUME NEW r, Rest(r), Solid(r), todo' = r, \A a \in DOMAIN ToExit(r) : Viewed(ToExit(r)[a].id)'
  PROVE  Frames' /\ Prices' /\ TopOK'
<1>1. StackOK' BY StackRest
<1>2. Frames' BY <1>1 DEF StackOK, Frames
<1> PICK s : s = todo' OBVIOUS
<1>3. s = r /\ Proper(s) BY DEF Rest
<1>4. s # <<>> => /\ Sound(Head(s)) /\ Head(s).do # "mark" /\ Solid(Tail(s))
                  /\ Quiet(Head(s)) \/ ExitLoop(Head(s))
  <2> SUFFICES ASSUME s # <<>> PROVE /\ Sound(Head(s)) /\ Head(s).do # "mark" /\ Solid(Tail(s))
                                     /\ Quiet(Head(s)) \/ ExitLoop(Head(s))
    OBVIOUS
  <2>1. 1 \in DOMAIN s /\ Head(s) = s[1]
        /\ \A k \in DOMAIN Tail(s) : k + 1 \in DOMAIN s /\ Tail(s)[k] = s[k + 1] BY <1>3, ProperTail
  <2>2. Quiet(Head(s)) \/ ExitLoop(Head(s)) BY <1>3, RestTail
  <2> QED BY <1>3, <2>1, <2>2 DEF Solid
<1>5. Prices' BY <1>4 DEF Prices
<1>6. s # <<>> => Head(s).do \notin Tight
  <2>1. "exit" \notin Tight BY DEF Tight
  <2> QED BY <1>4, <2>1 DEF Quiet, ExitLoop
<1>7. TopOK' BY <1>4, <1>6 DEF TopOK, Doing, Tight
<1> QED BY <1>2, <1>5, <1>7

\* A stack of lawful frames.
LEMMA AfterLawful == ASSUME Lawful(todo') PROVE Frames' /\ Prices' /\ TopOK'
<1> PICK r : r = todo' OBVIOUS
<1>1. Quiets(r) /\ Solid(r) BY DEF Lawful
<1>2. Rest(r) /\ ToExit(r) = <<>> BY <1>1, QuietsRest
<1>3. \A a \in DOMAIN ToExit(r) : Viewed(ToExit(r)[a].id)' BY <1>2, ProperEmpty
<1> QED BY <1>1, <1>2, <1>3, AfterRest

\* A fill or an exit is under way.
LEMMA AfterTight ==
  ASSUME NEW x, NEW r, "do" \in DOMAIN x, x.do \in Tight, Rest(r), Solid(r), todo' = <<x>> \o r, TopOK',
         x.do \in {"lot", "buy", "debit"} => Quiets(r),
         \A a \in DOMAIN ToExit(r) :
            /\ Viewed(ToExit(r)[a].id)'
            /\ x.do \in {"close", "sell", "credit"} => ToExit(r)[a].id # x.id
  PROVE  Frames' /\ Prices'
<1> PICK s : s = todo' OBVIOUS
<1>1. s = <<x>> \o r OBVIOUS
<1>2. s # <<>> /\ Head(s) = x /\ Tail(s) = r /\ Proper(s) /\ Loose(s) = r BY <1>1, TightPush
<1>3. LoopOK'
  <2>1. ToExit(Loose(todo')) = ToExit(r) BY <1>2
  <2> QED BY <1>2, <2>1 DEF LoopOK, Doing
<1>4. FillOK' BY <1>2 DEF FillOK, Doing
<1>5. Sound(x) BY DEF Sound, Tight
<1>6. Prices' BY <1>2, <1>5 DEF Prices
<1> QED BY <1>2, <1>3, <1>4, <1>6 DEF Frames

\* The frame of a fill or of an exit, and what is below.
LEMMA TightRuns ==
  ASSUME Funds, NEW step, Doing(step), step \in Tight
  PROVE  /\ todo # <<>> /\ Head(todo).do = step /\ Solid(Tail(todo)) /\ Rest(Tail(todo)) /\ Proper(Tail(todo))
         /\ step \in {"lot", "buy", "debit"} => Lawful(Tail(todo))
         /\ \A a \in DOMAIN ToExit(Tail(todo)) :
               /\ Viewed(ToExit(Tail(todo))[a].id)
               /\ step \in {"close", "sell", "credit"} => ToExit(Tail(todo))[a].id # Head(todo).id
<1>1. todo # <<>> /\ Head(todo).do = step BY DEF Doing
<1>2. /\ Solid(Tail(todo)) /\ Proper(Tail(todo)) /\ Loose(todo) = Tail(todo) /\ Rest(Tail(todo))
  BY <1>1, FrameRuns DEF Funds
<1>3. step \in {"lot", "buy", "debit"} => Quiets(Tail(todo)) BY <1>1, <1>2 DEF Funds, Frames, FillOK
<1>4. \A a \in DOMAIN ToExit(Tail(todo)) :
               /\ Viewed(ToExit(Tail(todo))[a].id)
               /\ step \in {"close", "sell", "credit"} => ToExit(Tail(todo))[a].id # Head(todo).id
  BY <1>1, <1>2 DEF Funds, Frames, LoopOK
<1> QED BY <1>1, <1>2, <1>3, <1>4 DEF Lawful

-----------------------------------------------------------------------------
(* The steps that leave lots and money alone. *)

\* Rows, views and account as they were.
LEMMA AccountStays ==
  ASSUME RowsPay, ViewsPay, AccountOK, UNCHANGED <<lots, openLots, fifo, trades, cash, cashView>>
  PROVE  RowsPay' /\ ViewsPay' /\ AccountOK' /\ \A id : Viewed(id)' <=> Viewed(id)
<1>1. RowsPay' BY DEF RowsPay, RowsOK
<1>2. ViewsPay' BY DEF ViewsPay, Shown
<1>3. AccountOK' BY DEF AccountOK
<1>4. \A id : Viewed(id)' <=> Viewed(id) BY DEF Viewed
<1> QED BY <1>1, <1>2, <1>3, <1>4

\* Nothing but frames is left behind, none of a fill or an exit.
LEMMA FundsStay ==
  ASSUME Funds, Lawful(todo'), UNCHANGED <<lots, openLots, fifo, trades, cash, cashView>>
  PROVE  Funds'
<1>1. RowsPay' /\ ViewsPay' /\ AccountOK' BY AccountStays DEF Funds
<1>2. Frames' /\ Prices' /\ TopOK' BY AfterLawful
<1> QED BY <1>1, <1>2 DEF Funds

\* orders.insert_pending() writes no money.
LEMMA FundsPersisted == ASSUME Funds, Persist PROVE Funds'
<1>1. Doing("persist") /\ "persist" \notin Tight \cup {"exit"} BY DEF Persist, Tight
<1>2. Then(<<>>) /\ UNCHANGED <<lots, openLots, fifo, trades, cash, cashView>> BY DEF Persist
<1>3. Lawful(todo') BY <1>1, <1>2, LawfulNone, LawfulThen
<1> QED BY <1>2, <1>3, FundsStay

\* Deleting the row of a pending instruction writes no money.
LEMMA FundsDeleted == ASSUME Funds, DeletePending PROVE Funds'
<1>1. Doing("delete") /\ "delete" \notin Tight \cup {"exit"} BY DEF DeletePending, Tight
<1>2. Then(<<>>) /\ UNCHANGED <<lots, openLots, fifo, trades, cash, cashView>>
  BY DEF DeletePending, memory
<1>3. Lawful(todo') BY <1>1, <1>2, LawfulNone, LawfulThen
<1> QED BY <1>2, <1>3, FundsStay

\* The rest of a loop over instructions.
LEMMA SoundLoop ==
  ASSUME NEW x, Sound(x), NEW items, {"do", "left"} \subseteq DOMAIN x, x.do \in {"consider", "ladder", "exit"}
  PROVE  LET y == [x EXCEPT !.left = items]
         IN  Sound(y) /\ y.do = x.do /\ y.bar = x.bar /\ y.left = items /\ DOMAIN y = DOMAIN x
<1> DEFINE y == [x EXCEPT !.left = items]
<1>1. "bar" \in DOMAIN x /\ Pays(x.bar) BY DEF Sound
<1>2. DOMAIN y = DOMAIN x /\ y.do = x.do /\ y.bar = x.bar /\ y.left = items BY <1>1, LoopFrame
<1> HIDE DEF y
<1>3. Sound(y) BY <1>1, <1>2 DEF Sound
<1> QED BY <1>2, <1>3 DEF y

\* One instruction of the queue is looked at.
LEMMA FundsConsidered == ASSUME Funds, Consider PROVE Funds'
<1> PICK x : x = Head(todo) OBVIOUS
<1>1. Doing("consider") /\ "consider" \notin Tight \cup {"exit"} BY DEF Consider, Tight
<1>2. x.do = "consider" /\ Quiet(x) /\ Sound(x) BY <1>1, LawfulRuns
<1>3. /\ {"do", "left", "bar"} \subseteq DOMAIN x
      /\ Entries(x.left) /\ x.left # <<>> /\ Priced(x.bar) /\ Pays(x.bar)
  BY <1>2 DEF Quiet, Sound
<1>4. Entries(Tail(x.left)) /\ Head(x.left).dep \in Deployments BY <1>3, EntriesTail
<1>5. Lawful(Others)
  <2> DEFINE y == [x EXCEPT !.left = Tail(x.left)]
  <2>1. DOMAIN y = DOMAIN x /\ y.do = "consider" /\ y.left = Tail(x.left) /\ y.bar = x.bar /\ Sound(y)
    BY <1>2, <1>3, SoundLoop
  <2> HIDE DEF y
  <2>2. Tail(x.left) # <<>> => Quiet(y) BY <1>3, <1>4, <2>1 DEF Quiet, Tight
  <2>3. Lawful(Loop(x, Tail(x.left))) BY <2>1, <2>2, LawfulLoop DEF y
  <2> QED BY <2>3 DEF Others
<1> DEFINE fill == [do |-> "fill", p |-> Item, ref |-> Head(todo).bar.o, ts |-> Head(todo).bar.ts]
           delete == [do |-> "delete", p |-> Item]
<1>6. Item = Head(x.left) BY DEF Item
<1>7. Quiet(delete) /\ Sound(delete) /\ delete.do # "mark" BY DEF Quiet, Sound, Tight
<1>8. Quiet(fill) /\ Sound(fill) /\ fill.do # "mark"
  <2>1. Item.dep \in Deployments /\ Head(todo).bar.o \in Nat \ {0} BY <1>3, <1>4, <1>6 DEF Priced
  <2>2. Head(todo).bar.ts \in Int /\ Floor <= Head(todo).bar.o BY <1>3 DEF Pays
  <2> QED BY <2>1, <2>2 DEF Quiet, Sound, Tight
<1>9. Then(<<delete>> \o Others) \/ Then(<<fill, delete>> \o Others) \/ Then(Others)
  BY DEF Consider
<1> HIDE DEF fill, delete
<1>10. Lawful(<<delete>> \o Others) /\ Lawful(<<fill, delete>> \o Others)
  BY <1>5, <1>7, <1>8, LawfulOne, LawfulTwo, LawfulConcat
<1>11. Lawful(todo') BY <1>1, <1>5, <1>9, <1>10, LawfulThen
<1>12. UNCHANGED <<lots, openLots, fifo, trades, cash, cashView>> BY DEF Consider, db, memory
<1> QED BY <1>11, <1>12, FundsStay

\* The moment of an instruction.
LEMMA NowIsInt == ASSUME MarketOK PROVE Now \in Int /\ Clock \in Nat
<1>1. Clock \in Nat BY DEF MarketOK, Clock
<1>2. DayBars \in Nat \ {0} BY DaysHaveBars
<1> QED BY <1>1, <1>2 DEF Now

\* The ladder exit of a cycle starts the loop or nothing.
LEMMA FundsLadder == ASSUME MarketOK, Funds, Ladder PROVE Funds'
<1> PICK x : x = Head(todo) OBVIOUS
<1>1. Doing("ladder") /\ "ladder" \notin Tight \cup {"exit"} BY DEF Ladder, Tight
<1>2. x.do = "ladder" /\ Quiet(x) /\ Sound(x) BY <1>1, LawfulRuns
<1>3. Pays(x.bar) /\ "bar" \in DOMAIN x /\ "do" \in DOMAIN x BY <1>2 DEF Sound
<1>4. Lawful(Others)
  <2> DEFINE items == Tail(x.left)
             y == [x EXCEPT !.left = items]
  <2> HIDE DEF items
  <2>1. DOMAIN y = DOMAIN x /\ y.do = "ladder" /\ y.bar = x.bar BY <1>2, <1>3, LoopFrame
  <2> HIDE DEF y
  <2>2. Quiet(y) /\ Sound(y) BY <1>3, <2>1 DEF Quiet, Sound, Tight
  <2>3. Lawful(Loop(x, items)) BY <2>1, <2>2, LawfulLoop DEF y
  <2> QED BY <2>3 DEF Others, items
<1> DEFINE p == [sig |-> NoSignal, dep |-> Item, ts |-> Head(todo).bar.ts, price |-> Head(todo).bar.c,
                 created |-> Now, cycle |-> EntryCycle(Item), num |-> EntryNumber(Item) + 1]
           frame == [do |-> "persist", p |-> p]
<1>5. IF LadderDue(Item, Head(todo).bar.c) THEN Then(<<frame>> \o Others) ELSE Then(Others)
  BY DEF Ladder
<1>6. ASSUME LadderDue(Item, Head(todo).bar.c) PROVE Lawful(<<frame>> \o Others)
  <2>1. Item \in Deployments BY <1>6, HeldDeployment DEF LadderDue, Funds, RowsPay, ViewsPay
  <2>2. frame.p.ts \in Int /\ frame.p.created \in Int BY <1>3, NowIsInt DEF Pays
  <2>3. frame.do = "persist" /\ frame.p.dep \in Deployments /\ "do" \in DOMAIN frame BY <2>1
  <2> HIDE DEF frame
  <2>4. Quiet(frame) /\ Sound(frame) BY <2>2, <2>3 DEF Quiet, Sound, Tight
  <2> QED BY <1>4, <2>3, <2>4, LawfulOne, LawfulConcat
<1> HIDE DEF frame
<1>7. Lawful(todo') BY <1>1, <1>4, <1>5, <1>6, LawfulThen
<1>8. UNCHANGED <<lots, openLots, fifo, trades, cash, cashView>> BY DEF Ladder, db, memory
<1> QED BY <1>7, <1>8, FundsStay

-----------------------------------------------------------------------------
(* The marks. *)

\* A stack that marks first.
LEMMA AfterMark ==
  ASSUME NEW y, NEW r, y.do = "mark", Quiet(y), Sound(y), Lawful(r), todo' = <<y>> \o r,
         "left" \in DOMAIN y, Proper(y.left), y.left # <<>>, \A a \in DOMAIN y.left : Viewed(y.left[a])'
  PROVE  Frames' /\ Prices' /\ TopOK'
<1>1. Quiets(<<y>> \o r) BY QuietsOne, QuietsConcat DEF Lawful
<1>2. StackOK' BY <1>1, StackQuiet
<1>3. Frames' BY <1>2 DEF StackOK, Frames
<1> PICK s : s = todo' OBVIOUS
<1>4. s # <<>> /\ Head(s) = y /\ Tail(s) = r BY PushOne DEF Lawful, Quiets
<1>5. Prices' BY <1>4 DEF Prices, Lawful
<1>6. TopOK' BY <1>4 DEF TopOK, Doing
<1> QED BY <1>3, <1>5, <1>6

\* A frame above frames above others.
LEMMA FrameOverFrames ==
  ASSUME NEW y, NEW frames, NEW r, Proper(frames), Proper(r)
  PROVE  (<<y>> \o frames) \o r = <<y>> \o (frames \o r)
<1>1. <<y>> \in Seq({y}) OBVIOUS
<1>2. Proper(<<y>>) BY <1>1, ProperSeq
<1> QED BY <1>2, ThreeStacks

\* The frames of the marks, or the exception.
LEMMA FundsMarks ==
  ASSUME Funds, NEW step, Doing(step), step \notin Tight \cup {"exit"}, NEW ids, \A i \in ids : Viewed(i),
         NEW close \in Int, Floor <= close, NEW frames, Lawful(frames), MarkThen(ids, close, frames),
         UNCHANGED <<lots, openLots, fifo, trades, cash, cashView>>
  PROVE  Funds'
<1>1. CASE Raise
  <2>1. Lawful(todo') BY <1>1, LawfulNone DEF Raise
  <2> QED BY <2>1, FundsStay
<1>2. CASE Then(Loop([do |-> "mark", left |-> <<>>, close |-> close], InOrder(ids)) \o frames)
  <2>1. PICK items : items = InOrder(ids) OBVIOUS
  <2>2. PICK x : x = [do |-> "mark", left |-> <<>>, close |-> close] OBVIOUS
  <2>3. PICK y : y = [x EXCEPT !.left = items] OBVIOUS
  <2>4. PICK t : t = Tail(todo) OBVIOUS
  <2>5. y = [do |-> "mark", left |-> items, close |-> close] BY <2>2, <2>3
  <2>6. Quiet(y) /\ Sound(y) /\ "left" \in DOMAIN y /\ y.left = items /\ y.do = "mark"
    BY <2>5 DEF Quiet, Sound, Tight
  <2>7. Lawful(t)
    <3>1. Lawful(Tail(todo)) BY LawfulRuns
    <3> QED BY <2>4, <3>1
  <2>8. Proper(frames) /\ Proper(t) BY <2>7 DEF Lawful, Quiets
  <2>9. todo' = (Loop(x, items) \o frames) \o t BY <1>2, <2>1, <2>2, <2>4 DEF Then
  <2>10. Lawful(frames \o t) BY <2>7, LawfulConcat
  <2>11. CASE items = <<>>
    <3>1. Loop(x, items) = <<>> BY <2>11 DEF Loop
    <3>2. <<>> \o frames = frames BY <2>8, PushNone
    <3>3. todo' = frames \o t BY <2>9, <3>1, <3>2
    <3>4. Lawful(todo') BY <2>10, <3>3
    <3> QED BY <3>4, FundsStay
  <2>12. CASE items # <<>>
    <3>1. ids \in SUBSET DOMAIN lots
      <4>1. \A i \in ids : \E k \in DOMAIN openLots : openLots[k].id = i BY DEF Viewed
      <4> QED BY <4>1 DEF Funds, ViewsPay, Shown
    <3>2. Lists(items, ids) BY <2>1, <3>1, InOrderLists DEF Funds
    <3>3. Proper(items) /\ \A a \in DOMAIN items : Viewed(items[a]) BY <3>2 DEF Lists
    <3>4. Loop(x, items) = <<y>> BY <2>3, <2>12 DEF Loop
    <3>5. RowsPay' /\ ViewsPay' /\ AccountOK' /\ \A id : Viewed(id)' <=> Viewed(id)
      BY AccountStays DEF Funds
    <3>6. \A a \in DOMAIN items : Viewed(items[a])' BY <3>3, <3>5
    <3>7. todo' = <<y>> \o (frames \o t)
      <4>1. (<<y>> \o frames) \o t = <<y>> \o (frames \o t) BY <2>8, FrameOverFrames
      <4> QED BY <2>9, <3>4, <4>1
    <3>8. Frames' /\ Prices' /\ TopOK' BY <2>6, <2>10, <2>12, <3>3, <3>6, <3>7, AfterMark
    <3> QED BY <3>5, <3>8 DEF Funds
  <2> QED BY <2>11, <2>12
<1> QED BY <1>1, <1>2 DEF MarkThen

\* The ids of some views.
LEMMA IdsViewed ==
  ASSUME NEW views, \A a \in DOMAIN views : Viewed(views[a].id) PROVE \A i \in Ids(views) : Viewed(i)
  BY DEF Ids, ToSet

\* The marks after a fill or an exit.
LEMMA FundsRemarked == ASSUME Funds, Remark PROVE Funds'
<1>1. Doing("remark") /\ "remark" \notin Tight \cup {"exit"} BY DEF Remark, Tight
<1>2. Head(todo).do = "remark" /\ Quiet(Head(todo)) /\ Sound(Head(todo)) BY <1>1, LawfulRuns
<1>3. Head(todo).close \in Int /\ Floor <= Head(todo).close BY <1>2 DEF Quiet, Sound
<1>4. MarkThen(Ids(openLots), Head(todo).close, <<>>) BY DEF Remark
<1>5. \A i \in Ids(openLots) : Viewed(i)
  <2>1. \A a \in DOMAIN openLots : Viewed(openLots[a].id) BY DEF Viewed
  <2> QED BY <2>1, IdsViewed
<1>6. UNCHANGED <<lots, openLots, fifo, trades, cash, cashView>> BY DEF Remark, db, memory
<1> QED BY <1>1, <1>3, <1>4, <1>5, <1>6, LawfulNone, FundsMarks

\* The marks at the end of a bar, and the ladders after them.
LEMMA FundsSettled == ASSUME Funds, Settle PROVE Funds'
<1>1. Doing("settle") /\ "settle" \notin Tight \cup {"exit"} BY DEF Settle, Tight
<1>2. Head(todo).do = "settle" /\ Quiet(Head(todo)) /\ Sound(Head(todo)) BY <1>1, LawfulRuns
<1>3. Pays(Head(todo).bar) BY <1>2 DEF Sound
<1>4. Head(todo).bar.c \in Int /\ Floor <= Head(todo).bar.c BY <1>3 DEF Pays
<1> DEFINE remaining == InScope(Head(todo).ch)
           x == [do |-> "ladder", left |-> <<>>, bar |-> Head(todo).bar]
           items == DeploymentsOf(remaining)
           y == [x EXCEPT !.left = items]
<1>5. MarkThen(Ids(remaining), Head(todo).bar.c, Loop(x, items)) BY DEF Settle
<1>6. Quiet(y) /\ Sound(y) /\ y.do # "mark"
  <2>1. y = [do |-> "ladder", left |-> items, bar |-> Head(todo).bar] OBVIOUS
  <2> HIDE DEF items
  <2>2. y.do = "ladder" /\ y.bar = Head(todo).bar /\ "do" \in DOMAIN y /\ "bar" \in DOMAIN y BY <2>1
  <2> HIDE DEF y
  <2> QED BY <1>3, <2>2 DEF Quiet, Sound, Tight
<1>7. \A i \in Ids(remaining) : Viewed(i)
  <2>1. \A a \in DOMAIN remaining : Viewed(remaining[a].id) BY ScopeViewed DEF Funds, ViewsPay
  <2> HIDE DEF remaining
  <2> QED BY <2>1, IdsViewed
<1> HIDE DEF x, items, remaining
<1>8. Lawful(Loop(x, items)) BY <1>6, LawfulLoop
<1>9. UNCHANGED <<lots, openLots, fifo, trades, cash, cashView>> BY DEF Settle, db, memory
<1> QED BY <1>1, <1>4, <1>5, <1>7, <1>8, <1>9, FundsMarks

-----------------------------------------------------------------------------
(* A mark. *)

\* A sale, of more than there is too, leaves slices that are not empty, and
\* what it takes has cost something.
LEMMA SaleLeaves ==
  ASSUME NEW slices \in Seq(Slices), NEW qty \in Nat
  PROVE  Consume(slices, qty) \in Seq(Slices) /\ MatchCost(slices, qty) \in Nat
<1> DEFINE left == Consume(slices, qty)
           len == Len(slices)
           n == Exhausted(slices, qty)
           k == len - n
           T(i) == Taken(slices, qty, i)
           m == [i \in DOMAIN slices |-> slices[i].price * T(i)]
<1>0. Slices = FifoSlices(Nat) BY DEF Slices, FifoSlices
<1>1. /\ len \in Nat /\ DOMAIN slices = 1..len
      /\ \A i \in 1..len : slices[i].price \in Nat \ {0} /\ slices[i].qty \in Nat \ {0}
  BY <1>0, HeldSteps
<1>2. n \in 0..len BY <1>0, ExhaustedIs
<1>3. \A i \in 1..len : T(i) \in Nat /\ T(i) <= slices[i].qty /\ (i <= n <=> T(i) = slices[i].qty)
  BY <1>0, TakenBounds
<1>4. left = [i \in 1..k |-> [slices[n + i] EXCEPT !.qty = slices[n + i].qty - T(n + i)]] BY DEF Consume
<1>5. k \in Nat /\ n \in Nat /\ n + k = len BY <1>1, <1>2
<1> HIDE DEF n, k, left, T
<1>6. ASSUME NEW i \in 1..k PROVE left[i] \in Slices
  <2>1. n + i \in 1..len /\ ~ (n + i <= n) BY <1>1, <1>5
  <2>2. slices[n + i] \in Slices BY <1>1, <2>1
  <2>3. T(n + i) \in Nat /\ T(n + i) <= slices[n + i].qty /\ T(n + i) # slices[n + i].qty BY <1>3, <2>1
  <2>4. slices[n + i].qty \in Nat BY <1>1, <2>1
  <2>5. slices[n + i].qty - T(n + i) \in Nat \ {0}
    <3> DEFINE a == slices[n + i].qty
               b == T(n + i)
    <3>1. a \in Nat /\ b \in Nat /\ b <= a /\ b # a BY <2>3, <2>4
    <3> HIDE DEF a, b
    <3>2. a - b \in Nat \ {0} BY <3>1
    <3> QED BY <3>2 DEF a, b
  <2>6. left[i] = [slices[n + i] EXCEPT !.qty = slices[n + i].qty - T(n + i)] BY <1>4
  <2> QED BY <2>2, <2>5, <2>6 DEF Slices
<1>7. left \in Seq(Slices)
  <2>1. left \in [1..k -> Slices] BY <1>4, <1>6
  <2> QED BY <1>5, <2>1, SeqOfFunction
<1>8. MatchCost(slices, qty) \in Nat
  <2>1. DOMAIN m = 1..len BY <1>1
  <2>2. Len(m) = len BY <1>1, <2>1
  <2>3. MatchCost(slices, qty) = SumTo(m, len) BY <2>2 DEF MatchCost, Total, T
  <2>4. \A i \in 1..len : m[i] \in Int /\ m[i] >= 0
    <3> TAKE i \in 1..len
    <3> DEFINE a == slices[i].price
               b == T(i)
    <3>1. m[i] = a * b /\ a \in Nat /\ b \in Nat BY <1>1, <1>3
    <3> HIDE DEF a, b, m
    <3>2. a * b \in Nat BY <3>1
    <3> QED BY <3>1, <3>2
  <2> HIDE DEF m, len
  <2>5. \A j, l \in 0..len : j <= l => SumTo(m, j) <= SumTo(m, l) BY <1>1, <2>4, SumGrows
  <2>6. SumTo(m, len) \in Int /\ SumTo(m, 0) = 0 BY <1>1, <2>4, SumIsInt, SumStep
  <2>7. 0 \in 0..len /\ len \in 0..len /\ 0 <= len BY <1>1
  <2>8. SumTo(m, 0) <= SumTo(m, len) BY <2>5, <2>7
  <2> QED BY <2>3, <2>6, <2>8
<1> QED BY <1>7, <1>8 DEF left

\* Rounding up what is not negative does not make it so.
LEMMA CeilDivIsNatural == ASSUME NEW a \in Nat, NEW b \in Nat \ {0} PROVE CeilDiv(a, b) \in Nat
<1>1. CeilDiv(a, b) \in Int BY CeilDivIsInt
<1>2. a + b - 1 \in Nat BY DEF CeilDiv
<1>3. \A x \in Nat : x \div b >= 0 OBVIOUS
<1> QED BY <1>1, <1>2, <1>3 DEF CeilDiv

\* The target that a mark computes repays the costs of its sale.
LEMMA MarkTargetPays ==
  ASSUME RowsOK, AccountOK, NSE, NEW id \in DOMAIN lots
  PROVE  LET target == NetProfitTarget(AcquisitionCost(id) + UnitFee * lots[id].qty, lots[id].qty,
                                       Config[lots[id].dep].targetPct, Slippage + UnitFee)
         IN  target \in Int /\ Floor <= target
<1> DEFINE qty == lots[id].qty
           cost == AcquisitionCost(id)
           pct == Config[lots[id].dep].targetPct
<1>1. qty \in Nat \ {0} /\ UnitFee \in Nat /\ Slippage \in Nat BY RowNumbers, CostsAreNatural
<1>2. cost \in Nat
  <2>1. cost = MatchCost(fifo, qty) BY DEF AcquisitionCost
  <2> HIDE DEF cost, qty
  <2> QED BY <1>1, <2>1, SaleLeaves DEF AccountOK
<1>3. pct \in Nat
  <2>1. lots[id].dep \in Deployments BY DEF RowsOK, RowOK
  <2> QED BY <2>1, ConfigsAreValid
<1> HIDE DEF qty, cost, pct
<1>4. \A a, b \in Nat : a * b \in Nat /\ a + b \in Nat OBVIOUS
<1> DEFINE paid == (cost + UnitFee * qty) * (100 + pct)
<1>5. paid \in Nat
  <2>1. UnitFee * qty \in Nat BY <1>1, <1>4
  <2>2. cost + UnitFee * qty \in Nat /\ 100 + pct \in Nat BY <1>2, <1>3, <1>4, <2>1
  <2> QED BY <1>4, <2>2
<1> HIDE DEF paid
<1>6. CeilDiv(paid, 100) \in Nat
  <2>1. 100 \in Nat \ {0} OBVIOUS
  <2> QED BY <1>5, <2>1, CeilDivIsNatural
<1> DEFINE each == CeilDiv(CeilDiv(paid, 100), qty)
<1>7. each \in Nat BY <1>1, <1>6, CeilDivIsNatural
<1>8. NetProfitTarget(cost + UnitFee * qty, qty, pct, Slippage + UnitFee) = each + (Slippage + UnitFee)
  BY DEF NetProfitTarget, paid
<1> HIDE DEF each
<1>9. each + (Slippage + UnitFee) \in Int /\ Slippage + UnitFee <= each + (Slippage + UnitFee) BY <1>1, <1>7
<1> QED BY <1>8, <1>9 DEF Floor, qty, cost, pct

\* Rows of the same lots that still pay.
LEMMA RowsStillPay ==
  ASSUME RowsPay, SameRows,
         \A i \in DOMAIN lots : /\ {"entryTs", "target", "last"} \subseteq DOMAIN lots'[i]
                                /\ {lots'[i].entryTs, lots'[i].target, lots'[i].last} \subseteq Int
                                /\ Floor <= lots'[i].target /\ Floor <= lots'[i].last
                                \/ lots'[i] = lots[i]
  PROVE  RowsPay'
<1>1. Proper(lots') /\ DOMAIN lots' = DOMAIN lots BY DEF SameRows
<1>2. \A i \in DOMAIN lots : RowOK(lots'[i]) BY DEF RowsPay, RowsOK, RowOK, SameRows, SameLot
<1>3. \A i \in DOMAIN lots : lots'[i].entryPrice = lots[i].entryPrice BY DEF SameRows, SameLot
<1>4. \A i \in DOMAIN lots : RowPays(lots'[i]) BY <1>3 DEF RowsPay, RowPays
<1> QED BY <1>1, <1>2, <1>4 DEF RowsPay, RowsOK

\* lots.mark() at prices that pay.
LEMMA MarkPays ==
  ASSUME RowsPay, NEW id, NEW cost, NEW target \in Int, NEW unreal, NEW last \in Int,
         Floor <= target, Floor <= last, MarkRow(id, cost, target, unreal, last)
  PROVE  RowsPay' /\ SameRows
<1>1. SameRows BY MarkKeepsRows DEF RowsPay
<1>2. ASSUME NEW i \in DOMAIN lots
      PROVE  \/ /\ {"entryTs", "target", "last"} \subseteq DOMAIN lots'[i]
                /\ {lots'[i].entryTs, lots'[i].target, lots'[i].last} \subseteq Int
                /\ Floor <= lots'[i].target /\ Floor <= lots'[i].last
             \/ lots'[i] = lots[i]
  <2>1. CASE lots[id].status # "OPEN" BY <2>1 DEF MarkRow
  <2>2. CASE lots[id].status = "OPEN"
    <3> DEFINE row == [lots[id] EXCEPT !.cost = cost, !.target = target, !.unreal = unreal, !.last = last]
    <3>1. lots' = [lots EXCEPT ![id] = row] BY <2>2 DEF MarkRow
    <3>2. i # id => lots'[i] = lots[i]
      <4> HIDE DEF row
      <4> QED BY <3>1
    <3>3. i = id => lots'[i] = row
      <4> HIDE DEF row
      <4> QED BY <3>1
    <3>4. ASSUME i = id
          PROVE  /\ {"entryTs", "target", "last"} \subseteq DOMAIN row
                 /\ row.entryTs = lots[i].entryTs /\ row.target = target /\ row.last = last
      <4> PICK old : old = lots[i] OBVIOUS
      <4>1. {"entryTs", "target", "last"} \subseteq DOMAIN old BY DEF RowsPay, RowPays
      <4>2. row = [old EXCEPT !.cost = cost, !.target = target, !.unreal = unreal, !.last = last] BY <3>4
      <4>3. LET new == [old EXCEPT !.cost = cost, !.target = target, !.unreal = unreal, !.last = last]
            IN  /\ DOMAIN new = DOMAIN old
                /\ new.entryTs = old.entryTs /\ new.target = target /\ new.last = last
        BY <4>1
      <4> HIDE DEF row
      <4> QED BY <4>1, <4>2, <4>3
    <3> HIDE DEF row
    <3>5. lots[i].entryTs \in Int BY DEF RowsPay, RowPays
    <3> QED BY <3>2, <3>3, <3>4, <3>5
  <2> QED BY <2>1, <2>2
<1>3. RowsPay' BY <1>1, <1>2, RowsStillPay
<1> QED BY <1>1, <1>3

\* The target in the view of a lot.
LEMMA ViewTargetPays ==
  ASSUME ViewsPay, NEW id, Viewed(id)
  PROVE  /\ ViewOf(id).target \in Int /\ Floor <= ViewOf(id).target
         /\ ViewOf(id).last \in Int /\ Floor <= ViewOf(id).last
         /\ id \in DOMAIN lots
<1>1. PICK i \in DOMAIN openLots : openLots[i].id = id /\ ViewOf(id) = openLots[i] BY ViewOfIs
<1> QED BY <1>1 DEF ViewsPay, Shown

\* lots.mark() of the next lot, its row and its view.
LEMMA FundsMarked == ASSUME Funds, Mark PROVE Funds'
<1> PICK x : x = Head(todo) OBVIOUS
<1> PICK id : id = Item OBVIOUS
<1>1. Doing("mark") /\ "mark" \notin Tight \cup {"exit"} BY DEF Mark, Tight
<1>2. todo # <<>> /\ x.do = "mark" /\ Quiet(x) /\ Sound(x) /\ Lawful(Tail(todo)) BY <1>1, LawfulRuns
<1>3. "do" \in DOMAIN x /\ "close" \in DOMAIN x /\ x.close \in Int /\ Floor <= x.close BY <1>2 DEF Quiet, Sound
<1>4. Proper(x.left) /\ x.left # <<>> /\ \A a \in DOMAIN x.left : Viewed(x.left[a])
  BY <1>1 DEF Funds, TopOK
<1>5. /\ Proper(Tail(x.left)) /\ 1 \in DOMAIN x.left /\ Head(x.left) = x.left[1]
      /\ \A k \in DOMAIN Tail(x.left) : k + 1 \in DOMAIN x.left /\ Tail(x.left)[k] = x.left[k + 1]
  BY <1>4, ProperTail
<1>6. Viewed(id) BY <1>4, <1>5 DEF Item
<1> DEFINE target == IF NSE THEN NetProfitTarget(AcquisitionCost(id) + UnitFee * lots[id].qty, lots[id].qty,
                                                 Config[lots[id].dep].targetPct, Slippage + UnitFee)
                     ELSE ViewOf(id).target
           cost == AcquisitionCost(id)
           unreal == (x.close - UnitFee) * lots[id].qty - cost
           view == [id |-> id, target |-> target, cost |-> cost, unreal |-> unreal, last |-> x.close]
<1>7. /\ MarkRow(id, cost, target, unreal, x.close)
      /\ openLots' = [i \in DOMAIN openLots |-> IF openLots[i].id = id THEN view ELSE openLots[i]]
      /\ Then(Others) /\ UNCHANGED <<trades, cash, fifo, cashView>>
  BY DEF Mark
<1>8. target \in Int /\ Floor <= target
  <2>1. id \in DOMAIN lots /\ ViewOf(id).target \in Int /\ Floor <= ViewOf(id).target
    BY <1>6, ViewTargetPays DEF Funds
  <2>2. CASE NSE BY <2>1, <2>2, MarkTargetPays DEF Funds, RowsPay
  <2>3. CASE ~NSE BY <2>1, <2>3
  <2> QED BY <2>2, <2>3
<1>9. view.id = id /\ view.target = target /\ view.last = x.close OBVIOUS
<1> HIDE DEF target, cost, unreal
<1>10. RowsPay' /\ SameRows BY <1>3, <1>7, <1>8, MarkPays DEF Funds
<1> HIDE DEF view
<1>11. DOMAIN openLots' = DOMAIN openLots BY <1>7
<1>12. \A i \in DOMAIN openLots : openLots'[i] = IF openLots[i].id = id THEN view ELSE openLots[i] BY <1>7
<1>13. Proper(openLots')
  <2> DEFINE n == Len(openLots)
             S == ToSet(openLots) \cup {view}
  <2>1. n \in Nat /\ DOMAIN openLots = 1..n BY ProperDomain DEF Funds, ViewsPay, Shown
  <2>2. \A i \in DOMAIN openLots : openLots'[i] \in S BY <1>12 DEF ToSet
  <2>3. openLots' \in [1..n -> S]
    <3> HIDE DEF S, n
    <3> QED BY <1>7, <1>11, <2>1, <2>2
  <2> HIDE DEF S, n
  <2> QED BY <2>1, <2>3, SeqOfFunction, ProperSeq
<1>14. \A i \in DOMAIN openLots : openLots'[i].id = openLots[i].id BY <1>9, <1>12
<1>15. ViewsPay'
  <2>1. DOMAIN lots' = DOMAIN lots BY <1>10 DEF SameRows
  <2>2. \A i \in DOMAIN openLots : /\ {openLots'[i].target, openLots'[i].last} \subseteq Int
                                    /\ Floor <= openLots'[i].target /\ Floor <= openLots'[i].last
    BY <1>3, <1>8, <1>9, <1>12 DEF Funds, ViewsPay
  <2>3. /\ \A i \in DOMAIN openLots : openLots'[i].id \in DOMAIN lots
        /\ \A i, j \in DOMAIN openLots : openLots'[i].id = openLots'[j].id => i = j
    BY <1>14 DEF Funds, ViewsPay, Shown
  <2> QED BY <1>11, <1>13, <2>1, <2>2, <2>3 DEF ViewsPay, Shown
<1>16. AccountOK' BY <1>7 DEF Funds, AccountOK
<1>17. \A a \in DOMAIN Tail(x.left) : Viewed(Tail(x.left)[a])'
  <2>1. \A i : Viewed(i)' <=> Viewed(i) BY <1>11, <1>14 DEF Viewed
  <2> QED BY <1>4, <1>5, <2>1
<1>18. Then(Others) BY <1>7
<1>19. Frames' /\ Prices' /\ TopOK'
  <2> DEFINE items == Tail(x.left)
             y == [x EXCEPT !.left = items]
             r == Tail(todo)
  <2>1. Others = IF items = <<>> THEN <<>> ELSE <<y>> BY DEF Others, Loop
  <2> HIDE DEF items
  <2>3. todo' = Others \o r BY <1>18 DEF Then
  <2>4. CASE items = <<>>
    <3>1. todo' = <<>> \o r BY <2>1, <2>3, <2>4
    <3>2. <<>> \o r = r BY <1>2, PushNone DEF Lawful, Quiets
    <3>3. Lawful(todo') BY <1>2, <3>1, <3>2
    <3> QED BY <3>3, AfterLawful
  <2>5. CASE items # <<>>
    <3>1. "left" \in DOMAIN x BY <1>1 DEF Funds, TopOK
    <3>2. DOMAIN y = DOMAIN x /\ y.do = "mark" /\ y.close = x.close /\ y.left = items BY <1>2, <1>3, <3>1, LoopFrame
    <3>3. todo' = <<y>> \o r BY <2>1, <2>3, <2>5
    <3> HIDE DEF y, r
    <3>4. Quiet(y) /\ Sound(y) BY <1>3, <3>2 DEF Quiet, Sound, Tight
    <3>5. Proper(y.left) /\ y.left # <<>> /\ \A a \in DOMAIN y.left : Viewed(y.left[a])'
      BY <1>5, <1>17, <2>5, <3>2 DEF items
    <3> QED BY <1>2, <3>1, <3>2, <3>3, <3>4, <3>5, AfterMark DEF r
  <2> QED BY <2>4, <2>5
<1> QED BY <1>10, <1>15, <1>16, <1>19 DEF Funds

-----------------------------------------------------------------------------
(* A fill. *)

\* Rounding up the price with a percentage on top gives no less than the price.
LEMMA TargetAbovePrice ==
  ASSUME NEW price \in Nat, NEW pct \in Nat
  PROVE  /\ CeilDiv(price * (100 + pct), 100) \in Int
         /\ price <= CeilDiv(price * (100 + pct), 100)
<1> DEFINE more == price * pct
           a == price * (100 + pct)
<1>1. more \in Nat OBVIOUS
<1>2. a = price * 100 + more OBVIOUS
<1> HIDE DEF more, a
<1>3. a \in Int /\ price * 100 <= a + 100 - 1 BY <1>1, <1>2
<1>4. \A b \in Int : price * 100 <= b => price <= b \div 100 OBVIOUS
<1>5. CeilDiv(a, 100) = (a + 100 - 1) \div 100 BY DEF CeilDiv
<1>6. (a + 100 - 1) \in Int BY <1>3
<1> QED BY <1>3, <1>4, <1>5, <1>6 DEF a

\* The row of an admitted order pays, and its money is there.
LEMMA NewLotPays ==
  ASSUME RowsOK, Shown, AccountOK, NEW p, p.dep \in Deployments, NEW ref \in Nat \ {0}, Floor <= ref,
         NEW ts \in Int, ~Rejected(p, ref, ts)
  PROVE  LET row == NewLot(p, ref, ts) IN Fresh(row) /\ RowPays(row) /\ Affordable(row)
<1> DEFINE cfg == Config[p.dep]
           price == BuyPrice(ref)
           qty == LotQuantity(p.dep, EntryNumber(p.dep), ref)
           target == CeilDiv(price * (100 + cfg.targetPct), 100)
           row == NewLot(p, ref, ts)
<1>1. Fresh(row) BY NewLotIsFresh
<1>2. /\ row.entryPrice = price /\ row.qty = qty /\ row.target = target /\ row.last = price
      /\ row.entryTs = ts /\ row.status = "OPEN"
      /\ {"entryTs", "target", "last"} \subseteq DOMAIN row
  BY DEF NewLot
<1>3. Slippage \in Nat /\ UnitFee \in Nat BY CostsAreNatural
<1>4. price \in Nat /\ Floor <= price BY <1>3 DEF BuyPrice, Floor
<1>5. cfg.targetPct \in Nat BY ConfigsAreValid
<1>6. target \in Int /\ price <= target BY <1>4, <1>5, TargetAbovePrice
<1>7. ~ (EntryCost(price, qty) > cashView) BY DEF Rejected, Unaffordable
<1> HIDE DEF target, row, price, qty
<1>8. RowPays(row)
  <2>1. Floor \in Int BY <1>3 DEF Floor
  <2>2. Floor <= target BY <1>4, <1>6, <2>1
  <2> QED BY <1>2, <1>4, <1>6, <2>2 DEF RowPays
<1>9. Affordable(row)
  <2>1. row.qty \in Nat BY <1>1 DEF Fresh, RowOK
  <2>2. EntryCost(price, qty) \in Int
    <3>1. qty \in Int BY <1>2, <2>1
    <3>2. (price + UnitFee) * qty \in Int BY <1>3, <1>4, <3>1
    <3> QED BY <3>2 DEF EntryCost
  <2>3. cash \in Int /\ cashView = cash BY DEF AccountOK
  <2>4. EntryCost(price, qty) <= cash BY <1>7, <2>2, <2>3
  <2> QED BY <1>2, <2>4 DEF Affordable
<1> QED BY <1>1, <1>8, <1>9 DEF row

\* A pending entry is filled or refused: no money has moved yet.
LEMMA FundsAtFill == ASSUME Funds, FillEntry PROVE Funds'
<1> PICK x : x = Head(todo) OBVIOUS
<1> PICK lot : lot = NewLot(x.p, x.ref, x.ts) OBVIOUS
<1> PICK r : r = Tail(todo) OBVIOUS
<1>1. Doing("fill") /\ "fill" \notin Tight \cup {"exit"} BY DEF FillEntry, Tight
<1>2. todo # <<>> /\ x.do = "fill" /\ Quiet(x) /\ Sound(x) /\ Lawful(r) BY <1>1, LawfulRuns
<1>3. x.p.dep \in Deployments /\ x.ref \in Nat \ {0} /\ x.ts \in Int /\ Floor <= x.ref
  BY <1>2 DEF Quiet, Sound
<1>4. UNCHANGED <<lots, openLots, fifo, trades, cash, cashView>> BY DEF FillEntry, memory
<1>5. \/ Then(<<>>)
      \/ ~Rejected(x.p, x.ref, x.ts) /\ Then(<<[do |-> "lot", lot |-> lot]>>)
  BY DEF FillEntry
<1>6. CASE Then(<<>>)
  <2>1. Lawful(todo') BY <1>1, <1>6, LawfulNone, LawfulThen
  <2> QED BY <1>4, <2>1, FundsStay
<1>7. CASE ~Rejected(x.p, x.ref, x.ts) /\ Then(<<[do |-> "lot", lot |-> lot]>>)
  <2> PICK y : y = [do |-> "lot", lot |-> lot] OBVIOUS
  <2>1. y.do = "lot" /\ y.do \in Tight /\ y.lot = lot /\ "do" \in DOMAIN y BY DEF Tight
  <2>2. Fresh(lot) /\ RowPays(lot) /\ Affordable(lot)
    BY <1>3, <1>7, NewLotPays DEF Funds, RowsPay, ViewsPay
  <2>3. todo' = <<y>> \o r BY <1>7 DEF Then
  <2>4. Quiets(r) /\ Solid(r) /\ Rest(r) /\ ToExit(r) = <<>> BY <1>2, QuietsRest DEF Lawful
  <2>5. todo' # <<>> /\ Head(todo') = y BY <2>1, <2>3, <2>4, TightPush
  <2>6. Affordable(lot)' BY <1>4, <2>2 DEF Affordable
  <2>7. TopOK' BY <2>1, <2>2, <2>5, <2>6 DEF TopOK, Doing
  <2>8. \A a \in DOMAIN ToExit(r) :
            /\ Viewed(ToExit(r)[a].id)'
            /\ y.do \in {"close", "sell", "credit"} => ToExit(r)[a].id # y.id
    BY <2>4, ProperEmpty
  <2>9. Frames' /\ Prices' BY <2>1, <2>3, <2>4, <2>7, <2>8, AfterTight
  <2>10. RowsPay' /\ ViewsPay' /\ AccountOK' BY <1>4, AccountStays DEF Funds
  <2> QED BY <2>7, <2>9, <2>10 DEF Funds
<1> QED BY <1>5, <1>6, <1>7

\* The next frame of a fill.
LEMMA FillGoesOn ==
  ASSUME Funds, NEW step, Doing(step), step \in {"lot", "buy", "debit"},
         NEW y, "do" \in DOMAIN y, y.do \in {"buy", "debit"}, Then(<<y>>), (Head(todo') = y => TopOK')
  PROVE  Frames' /\ Prices' /\ TopOK'
<1> PICK r : r = Tail(todo) OBVIOUS
<1>1. step \in Tight /\ y.do \in Tight BY DEF Tight
<1>2. Lawful(r) BY <1>1, TightRuns
<1>3. Quiets(r) /\ Solid(r) /\ Rest(r) /\ ToExit(r) = <<>> BY <1>2, QuietsRest DEF Lawful
<1>4. todo' = <<y>> \o r BY DEF Then
<1>5. Head(todo') = y BY <1>1, <1>3, <1>4, TightPush
<1>6. \A a \in DOMAIN ToExit(r) :
            /\ Viewed(ToExit(r)[a].id)'
            /\ y.do \in {"close", "sell", "credit"} => ToExit(r)[a].id # y.id
    BY <1>3, ProperEmpty
<1>7. TopOK' BY <1>5
<1>8. Frames' /\ Prices' BY <1>1, <1>3, <1>4, <1>6, <1>7, AfterTight
<1> QED BY <1>7, <1>8

\* lots.insert()
LEMMA FundsAtInsert == ASSUME Funds, InsertLot PROVE Funds'
<1> PICK lot : lot = Head(todo).lot OBVIOUS
<1> PICK n : n = Len(lots) + 1 OBVIOUS
<1> DEFINE y == Step("buy", n)
<1>1. Doing("lot") /\ Fresh(lot) /\ RowPays(lot) /\ Affordable(lot) BY DEF InsertLot, Funds, TopOK
<1>2. lots' = Append(lots, lot) /\ Then(<<y>>) /\ UNCHANGED <<trades, cash, openLots, fifo, cashView>>
  BY DEF InsertLot, memory
<1>3. Proper(lots) BY DEF Funds, RowsPay, RowsOK
<1>4. /\ Proper(lots') /\ DOMAIN lots' = 1..n /\ lots'[n] = lot
      /\ \A i \in DOMAIN lots : i \in DOMAIN lots' /\ lots'[i] = lots[i]
      /\ \A i \in DOMAIN lots' : i \in DOMAIN lots \/ i = n
  BY <1>2, <1>3, ProperAppend
<1>5. n \in DOMAIN lots' /\ n \notin DOMAIN lots BY <1>3, <1>4, ProperDomain
<1>6. RowsPay'
  <2>1. RowOK(lot) BY <1>1 DEF Fresh
  <2>2. \A i \in DOMAIN lots' : RowOK(lots'[i]) /\ RowPays(lots'[i])
    BY <1>1, <1>4, <2>1 DEF Funds, RowsPay, RowsOK
  <2> QED BY <1>4, <2>2 DEF RowsPay, RowsOK
<1>7. openLots' = openLots BY <1>2
<1>8. ViewsPay' BY <1>4, <1>7 DEF Funds, ViewsPay, Shown
<1>9. AccountOK' BY <1>2 DEF Funds, AccountOK
<1>10. ~Viewed(n)' BY <1>5, <1>7 DEF Viewed, Funds, ViewsPay, Shown
<1>11. Affordable(lot)' BY <1>1, <1>2 DEF Affordable
<1>12. y.do = "buy" /\ y.id = n /\ "do" \in DOMAIN y BY DEF Step
<1> HIDE DEF y
<1>13. Head(todo') = y => TopOK' BY <1>1, <1>4, <1>5, <1>10, <1>11, <1>12 DEF TopOK, Doing
<1>14. Frames' /\ Prices' /\ TopOK' BY <1>1, <1>2, <1>12, <1>13, FillGoesOn
<1> QED BY <1>6, <1>8, <1>9, <1>14 DEF Funds

\* trades.insert() of the BUY, and its slice.
LEMMA FundsAtBuy == ASSUME Funds, InsertBuy PROVE Funds'
<1> PICK id : id = Head(todo).id OBVIOUS
<1> PICK y : y = Step("debit", id) OBVIOUS
<1> PICK t : t = [lot |-> id, side |-> "BUY", qty |-> lots[id].qty,
                  price |-> lots[id].entryPrice, at |-> 2 * lots[id].entryTs] OBVIOUS
<1>1. /\ Doing("buy") /\ Then(<<y>>) /\ trades' = Append(trades, t)
      /\ fifo' = (IF NSE THEN Add(fifo, id, lots[id].entryPrice, lots[id].qty) ELSE fifo)
      /\ UNCHANGED <<lots, cash, openLots, cashView>>
  BY DEF InsertBuy
<1>2. id \in DOMAIN lots /\ Fresh(lots[id]) /\ ~Viewed(id) /\ Affordable(lots[id])
  BY <1>1 DEF Funds, TopOK
<1>3. lots[id].qty \in Nat \ {0} /\ lots[id].entryPrice \in Nat \ {0} /\ id \in Nat
  BY <1>2, RowNumbers DEF Funds, RowsPay
<1>4. TradeOK(t)
  <2>1. lots[id].entryTs \in Int BY <1>2 DEF Funds, RowsPay, RowPays
  <2>2. 2 * lots[id].entryTs \in Int BY <2>1
  <2> QED BY <1>3, <2>2 DEF TradeOK
<1>5. Proper(trades') /\ \A n \in DOMAIN trades' : TradeOK(trades'[n])
  <2>1. Proper(trades) /\ \A n \in DOMAIN trades : TradeOK(trades[n]) BY DEF Funds, AccountOK
  <2>2. /\ Proper(trades')
        /\ \A i \in DOMAIN trades : trades'[i] = trades[i]
        /\ trades'[Len(trades) + 1] = t
        /\ \A i \in DOMAIN trades' : i \in DOMAIN trades \/ i = Len(trades) + 1
    <3>1. trades' = Append(trades, t) /\ Proper(trades) BY <1>1, <2>1
    <3> QED BY <3>1, ProperAppend
  <2> QED BY <1>4, <2>1, <2>2
<1>6. fifo' \in Seq(Slices)
  <2>1. fifo \in Seq(Slices) BY DEF Funds, AccountOK
  <2> DEFINE p == lots[id].entryPrice
             q == lots[id].qty
  <2>2. fifo' = (IF NSE THEN Add(fifo, id, p, q) ELSE fifo) BY <1>1
  <2>3. id \in Nat /\ p \in Nat \ {0} /\ q \in Nat \ {0} BY <1>3
  <2> HIDE DEF p, q
  <2>4. Bought(fifo, id, p, q) BY <2>1, <2>3 DEF Bought
  <2>5. Added(Add(fifo, id, p, q), fifo, p, q) BY <2>4, PurchaseIsAdded
  <2> QED BY <2>1, <2>2, <2>5 DEF Added
<1>7. RowsPay' BY <1>1 DEF Funds, RowsPay, RowsOK
<1>8. ViewsPay' BY <1>1 DEF Funds, ViewsPay, Shown
<1>9. AccountOK' BY <1>1, <1>5, <1>6 DEF Funds, AccountOK
<1>10. y.do = "debit" /\ y.id = id /\ "do" \in DOMAIN y BY DEF Step
<1>11. id \in DOMAIN lots' /\ Fresh(lots'[id]) /\ ~Viewed(id)' /\ Affordable(lots[id])' /\ lots' = lots
  BY <1>1, <1>2 DEF Viewed, Affordable
<1>12. Head(todo') = y => TopOK' BY <1>10, <1>11 DEF TopOK, Doing
<1>13. Frames' /\ Prices' /\ TopOK' BY <1>1, <1>10, <1>12, FillGoesOn
<1> QED BY <1>7, <1>8, <1>9, <1>13 DEF Funds

\* accounts.debit() of what the lot costs, which was there when its order was made.
LEMMA FundsAtDebit == ASSUME Funds, Debit PROVE Funds'
<1> PICK id : id = Head(todo).id OBVIOUS
<1> PICK v : v = View(id, lots[id]) OBVIOUS
<1> PICK cost : cost = EntryCost(lots[id].entryPrice, lots[id].qty) OBVIOUS
<1> PICK y : y = [do |-> "remark", close |-> lots[id].entryPrice] OBVIOUS
<1>1. /\ Doing("debit") /\ Then(<<y>>) /\ cash' = cash - cost /\ cashView' = cash'
      /\ openLots' = Append(openLots, v) /\ UNCHANGED <<lots, trades, fifo>>
  BY DEF Debit
<1>2. id \in DOMAIN lots /\ Fresh(lots[id]) /\ ~Viewed(id) /\ Affordable(lots[id])
  BY <1>1 DEF Funds, TopOK
<1>3. cost \in Int /\ cost <= cash /\ lots[id].entryPrice \in Int
  <2>1. cost \in Int /\ lots[id].entryPrice \in Int BY <1>2, RowNumbers DEF Funds, RowsPay
  <2> QED BY <1>2, <2>1 DEF Affordable
<1>4. RowPays(lots[id]) /\ lots[id].status = "OPEN" BY <1>2 DEF Funds, RowsPay, Fresh
<1>5. /\ v.id = id /\ {v.target, v.last} \subseteq Int /\ Floor <= v.target /\ Floor <= v.last
  BY <1>4 DEF View, RowPays
<1>6. Lawful(todo')
  <2>1. todo' = <<y>> \o Tail(todo) BY <1>1 DEF Then
  <2>2. Lawful(Tail(todo)) BY <1>1, TightRuns DEF Tight
  <2>3. y.do = "remark" /\ y.close = lots[id].entryPrice /\ "do" \in DOMAIN y /\ "close" \in DOMAIN y OBVIOUS
  <2>4. Floor <= lots[id].entryPrice BY <1>4 DEF RowPays
  <2>5. Quiet(y) /\ Sound(y) BY <1>3, <2>3, <2>4 DEF Quiet, Sound, Tight
  <2> QED BY <2>1, <2>2, <2>3, <2>5, LawfulOne, LawfulConcat
<1>7. Frames' /\ Prices' /\ TopOK' BY <1>6, AfterLawful
<1>8. RowsPay' BY <1>1 DEF Funds, RowsPay, RowsOK
<1>9. AccountOK'
  <2>1. cash \in Nat BY DEF Funds, AccountOK
  <2>2. cash - cost \in Nat BY <1>3, <2>1
  <2> QED BY <1>1, <2>2 DEF Funds, AccountOK
<1>10. Shown /\ \A i \in DOMAIN openLots : openLots[i].id # id
  BY <1>2 DEF Funds, ViewsPay, Viewed
<1>11. /\ Proper(openLots') /\ \A i \in DOMAIN openLots : openLots'[i] = openLots[i]
       /\ \A i \in DOMAIN openLots' : \/ i \in DOMAIN openLots
                                      \/ i = Len(openLots) + 1 /\ openLots'[i] = v
  BY <1>1, <1>10, ProperAppend DEF Shown
<1>12. \A i \in DOMAIN openLots' : openLots'[i].id \in DOMAIN lots
  BY <1>2, <1>5, <1>10, <1>11 DEF Shown
<1>13. \A i \in DOMAIN openLots' : /\ {openLots'[i].target, openLots'[i].last} \subseteq Int
                                   /\ Floor <= openLots'[i].target /\ Floor <= openLots'[i].last
  BY <1>5, <1>11 DEF Funds, ViewsPay
<1>14. \A i, j \in DOMAIN openLots' : openLots'[i].id = openLots'[j].id => i = j
  <2> TAKE i, j \in DOMAIN openLots'
  <2> HAVE openLots'[i].id = openLots'[j].id
  <2>1. CASE i \in DOMAIN openLots /\ j \in DOMAIN openLots BY <2>1, <1>10, <1>11 DEF Shown
  <2>2. CASE i \in DOMAIN openLots /\ openLots'[j] = v BY <2>2, <1>5, <1>10, <1>11
  <2>3. CASE j \in DOMAIN openLots /\ openLots'[i] = v BY <2>3, <1>5, <1>10, <1>11
  <2>4. CASE i = Len(openLots) + 1 /\ j = Len(openLots) + 1 BY <2>4
  <2> QED BY <1>11, <2>1, <2>2, <2>3, <2>4
<1>15. lots' = lots BY <1>1
<1>16. ViewsPay' BY <1>11, <1>12, <1>13, <1>14, <1>15 DEF ViewsPay, Shown
<1> QED BY <1>7, <1>8, <1>9, <1>16 DEF Funds

\* accounts.reset() puts the starting balance back.
LEMMA FundsWiped == ASSUME Funds, Wipe PROVE Funds'
<1>1. Doing("wipe") /\ "wipe" \notin Tight \cup {"exit"} BY DEF Wipe, Tight
<1>2. /\ lots' = <<>> /\ trades' = <<>> /\ cash' = StartingBalance /\ cashView' = StartingBalance
      /\ openLots' = <<>> /\ fifo' = <<>> /\ Then(<<>>)
  BY DEF Wipe
<1>3. Lawful(todo') BY <1>1, <1>2, LawfulNone, LawfulThen
<1>4. Frames' /\ Prices' /\ TopOK' BY <1>3, AfterLawful
<1>5. RowsPay' BY <1>2, ProperEmpty DEF RowsPay, RowsOK
<1>6. ViewsPay' BY <1>2, ProperEmpty DEF ViewsPay, Shown
<1>7. AccountOK' BY <1>2, ProperEmpty, CostsAreNatural DEF AccountOK
<1> QED BY <1>4, <1>5, <1>6, <1>7 DEF Funds

-----------------------------------------------------------------------------
(* An exit. *)

\* The exit rules of a bar start the loop over their lots.
LEMMA FundsSwept == ASSUME Funds, Sweep PROVE Funds'
<1> PICK x : x = Head(todo) OBVIOUS
<1> PICK left : left = InScope(x.ch) OBVIOUS
<1>1. Doing("sweep") /\ "sweep" \notin Tight \cup {"exit"} BY DEF Sweep, Tight
<1>2. todo # <<>> /\ x.do = "sweep" /\ Quiet(x) /\ Sound(x) /\ Lawful(Tail(todo)) BY <1>1, LawfulRuns
<1>3. Priced(x.bar) /\ Pays(x.bar) BY <1>2 DEF Quiet, Sound
<1> DEFINE loop == [do |-> "exit", left |-> <<>>, bar |-> x.bar]
           settle == [do |-> "settle", bar |-> x.bar, ch |-> x.ch]
           exit == [do |-> "exit", left |-> left, bar |-> x.bar]
<1>4. Quiet(settle) /\ Sound(settle) /\ settle.do = "settle"
  <2>1. settle.do = "settle" /\ settle.bar = x.bar /\ {"do", "bar"} \subseteq DOMAIN settle OBVIOUS
  <2> HIDE DEF settle
  <2> QED BY <1>3, <2>1 DEF Quiet, Sound, Tight
<1>5. Then(Loop(loop, left) \o <<settle>>) BY DEF Sweep
<1>6. [loop EXCEPT !.left = left] = exit OBVIOUS
<1>7. exit.do = "exit" /\ exit.left = left /\ exit.bar = x.bar /\ DOMAIN exit = {"do", "left", "bar"} OBVIOUS
<1> HIDE DEF loop, settle, exit
<1>8. UNCHANGED <<lots, openLots, fifo, trades, cash, cashView>> BY DEF Sweep, db
<1>9. Lawful(<<settle>>) BY <1>4, LawfulOne
<1>10. CASE left = <<>>
  <2>1. Loop(loop, left) = <<>> BY <1>10 DEF Loop
  <2>2. Lawful(<<>> \o <<settle>>) BY <1>9, LawfulNone, LawfulConcat
  <2>3. Lawful(todo') BY <1>1, <1>5, <2>1, <2>2, LawfulThen
  <2> QED BY <1>8, <2>3, FundsStay
<1>11. CASE left # <<>>
  <2>1. Loop(loop, left) = <<exit>> BY <1>6, <1>11 DEF Loop
  <2>2. Proper(<<exit>>) /\ Proper(<<settle>>) /\ Proper(Tail(todo))
    <3>1. <<exit>> \in Seq({exit}) OBVIOUS
    <3> QED BY <1>2, <1>9, <3>1, ProperSeq DEF Lawful, Quiets
  <2>3. todo' = (<<exit>> \o <<settle>>) \o Tail(todo) BY <1>5, <2>1 DEF Then
  <2>4. todo' = <<exit>> \o (<<settle>> \o Tail(todo)) BY <2>2, <2>3, ThreeStacks
  <2> PICK r : r = <<settle>> \o Tail(todo) OBVIOUS
  <2>5. Lawful(r) BY <1>2, <1>9, LawfulConcat
  <2>6. /\ Proper(left) /\ \A a, b \in DOMAIN left : left[a].id = left[b].id => a = b
        /\ \A a \in DOMAIN left : Viewed(left[a].id)
    BY ScopeViewed DEF Funds, ViewsPay
  <2>7. ExitLoop(exit) BY <1>3, <1>7, <1>11, <2>6 DEF ExitLoop
  <2> PICK s : s = <<exit>> \o r OBVIOUS
  <2>8. Rest(s) /\ ToExit(s) = left BY <1>7, <2>5, <2>7, ExitRest DEF Lawful
  <2>9. Sound(exit) /\ exit.do # "mark" BY <1>3, <1>7 DEF Sound
  <2>10. Solid(s) BY <2>5, <2>9, SolidPush DEF Lawful, Quiets
  <2>11. todo' = s BY <2>4
  <2>12. RowsPay' /\ ViewsPay' /\ AccountOK' /\ \A id : Viewed(id)' <=> Viewed(id)
    BY <1>8, AccountStays DEF Funds
  <2>13. \A a \in DOMAIN ToExit(s) : Viewed(ToExit(s)[a].id)' BY <2>6, <2>8, <2>12
  <2>14. Frames' /\ Prices' /\ TopOK' BY <2>8, <2>10, <2>11, <2>13, AfterRest
  <2> QED BY <2>12, <2>14 DEF Funds
<1> QED BY <1>10, <1>11

\* An exit is at a price that repays the costs of the sale.
LEMMA ExitPricePays ==
  ASSUME RowsPay, ViewsPay, NEW id, Viewed(id), NEW bar, Pays(bar), NEW status, status = ExitStatus(id, bar),
         status # "OPEN"
  PROVE  ExitPrice(id, bar, status) \in Int /\ Floor <= ExitPrice(id, bar, status)
<1>1. /\ ViewOf(id).target \in Int /\ Floor <= ViewOf(id).target /\ id \in DOMAIN lots
  BY ViewTargetPays
<1>2. lots[id].stop \in Int BY <1>1 DEF RowsPay, RowsOK, RowOK
<1>3. bar.c \in Int /\ Floor <= bar.c /\ bar.l \in Int /\ Floor <= bar.l BY DEF Pays
<1>4. Floor \in Int BY CostsAreNatural DEF Floor
<1>5. \/ status = "STOPPED" /\ bar.l <= lots[id].stop
      \/ status = "TARGET_HIT" \/ status = "EXPIRED"
  BY DEF ExitStatus
<1>6. CASE status = "STOPPED" /\ bar.l <= lots[id].stop
  <2>1. Floor <= lots[id].stop BY <1>2, <1>3, <1>4, <1>6
  <2> QED BY <1>2, <1>6, <2>1 DEF ExitPrice
<1>7. CASE status = "TARGET_HIT" BY <1>1, <1>7 DEF ExitPrice
<1>8. CASE status = "EXPIRED" BY <1>3, <1>8 DEF ExitPrice
<1> QED BY <1>5, <1>6, <1>7, <1>8

\* What a lot cost is not negative.
LEMMA AcquisitionIsNatural ==
  ASSUME RowsOK, AccountOK, NEW id \in DOMAIN lots PROVE AcquisitionCost(id) \in Nat
<1>1. lots[id].qty \in Nat /\ lots[id].entryPrice \in Nat BY RowNumbers
<1>2. CASE NSE
  <2>1. fifo \in Seq(Slices) BY DEF AccountOK
  <2>2. MatchCost(fifo, lots[id].qty) \in Nat BY <1>1, <2>1, SaleLeaves
  <2> QED BY <1>2, <2>2 DEF AcquisitionCost
<1>3. CASE ~NSE
  <2>1. \A a, b \in Nat : a * b \in Nat OBVIOUS
  <2> QED BY <1>1, <1>3, <2>1 DEF AcquisitionCost, AcquisitionCostOfLot
<1> QED BY <1>2, <1>3

\* An exit begins above what is left to do: its row is marked with its price.
LEMMA ExitStarts ==
  ASSUME Funds, NEW x, "do" \in DOMAIN x, x.do = "close", Viewed(x.id), x.status # "OPEN",
         {x.raw, x.at, x.cost} \subseteq Int, Floor <= x.raw,
         NEW r, Rest(r), Solid(r), todo' = <<x>> \o r,
         \A a \in DOMAIN ToExit(r) : Viewed(ToExit(r)[a].id) /\ ToExit(r)[a].id # x.id,
         MarkRow(x.id, x.cost, ViewOf(x.id).target, 0, x.raw),
         UNCHANGED <<openLots, fifo, trades, cash, cashView>>
  PROVE  Funds'
<1>1. ViewOf(x.id).target \in Int /\ Floor <= ViewOf(x.id).target BY ViewTargetPays DEF Funds
<1>2. RowsPay' /\ SameRows
  <2> DEFINE target == ViewOf(x.id).target
  <2>1. target \in Int /\ Floor <= target BY <1>1
  <2>2. MarkRow(x.id, x.cost, target, 0, x.raw) OBVIOUS
  <2> HIDE DEF target
  <2>3. x.raw \in Int OBVIOUS
  <2> QED BY <2>1, <2>2, <2>3, MarkPays DEF Funds
<1>3. ViewsPay'
  <2>1. DOMAIN lots' = DOMAIN lots /\ openLots' = openLots BY <1>2 DEF SameRows
  <2> QED BY <2>1 DEF Funds, ViewsPay, Shown
<1>4. AccountOK' BY DEF Funds, AccountOK
<1>5. \A id : Viewed(id)' <=> Viewed(id) BY DEF Viewed
<1>6. x.do \in Tight BY DEF Tight
<1>7. todo' # <<>> /\ Head(todo') = x BY <1>6, TightPush
<1>8. TopOK' BY <1>5, <1>7 DEF TopOK, Doing
<1>9. \A a \in DOMAIN ToExit(r) :
         /\ Viewed(ToExit(r)[a].id)'
         /\ x.do \in {"close", "sell", "credit"} => ToExit(r)[a].id # x.id
  BY <1>5
<1>10. Frames' /\ Prices' BY <1>6, <1>8, <1>9, AfterTight
<1> QED BY <1>2, <1>3, <1>4, <1>8, <1>10 DEF Funds

\* The loop comes to its next lot.
LEMMA FundsInExit == ASSUME Funds, Exit PROVE Funds'
<1> PICK x : x = Head(todo) OBVIOUS
<1> PICK left : left = x.left OBVIOUS
<1> PICK id : id = Item.id OBVIOUS
<1> PICK status : status = ExitStatus(id, x.bar) OBVIOUS
<1> PICK t : t = Tail(todo) OBVIOUS
<1> PICK r : r = Loop(x, Tail(left)) \o t OBVIOUS
<1>1. todo # <<>> /\ x.do = "exit" BY DEF Exit, Doing
<1>2. Loose(todo) = todo /\ ExitLoop(x) /\ Lawful(t) /\ Sound(x) BY <1>1, FrameRuns DEF Funds
<1>3. Rest(r) /\ ToExit(r) = Tail(left) /\ Proper(Others) BY <1>2, LoopRest DEF Others, Lawful
<1>4. \A a \in DOMAIN left : Viewed(left[a].id)
  <2>1. ToExit(Loose(todo)) = left BY <1>1, <1>2 DEF ToExit
  <2> QED BY <2>1 DEF Funds, Frames, LoopOK
<1>5. /\ {"do", "left", "bar"} \subseteq DOMAIN x /\ Proper(left) /\ left # <<>> /\ Priced(x.bar)
      /\ \A a, b \in DOMAIN left : left[a].id = left[b].id => a = b
  BY <1>2 DEF ExitLoop
<1>6. /\ 1 \in DOMAIN left /\ Head(left) = left[1]
      /\ \A k \in DOMAIN Tail(left) : k + 1 \in DOMAIN left /\ Tail(left)[k] = left[k + 1]
      /\ Proper(Tail(left))
  BY <1>5, ProperTail
<1>7. id = left[1].id /\ Viewed(id) BY <1>4, <1>6 DEF Item
<1>8. \A a \in DOMAIN Tail(left) : Viewed(Tail(left)[a].id) /\ Tail(left)[a].id # id
  <2> TAKE a \in DOMAIN Tail(left)
  <2>1. a + 1 \in DOMAIN left /\ Tail(left)[a] = left[a + 1] BY <1>6
  <2>2. a + 1 # 1
    <3>1. a \in 1..Len(Tail(left)) /\ Len(Tail(left)) \in Nat BY <1>6, ProperDomain
    <3> QED BY <3>1
  <2> QED BY <1>4, <1>5, <1>6, <1>7, <2>1, <2>2
<1>9. UNCHANGED <<openLots, fifo, trades, cash, cashView>> BY DEF Exit, memory
<1>10. Pays(x.bar) BY <1>1, <1>2 DEF Sound
<1>11. Solid(r)
  <2> DEFINE items == Tail(left)
             y == [x EXCEPT !.left = items]
  <2>1. CASE items = <<>>
    <3>1. Loop(x, items) = <<>> BY <2>1 DEF Loop
    <3>2. <<>> \o t = t BY <1>2, PushNone DEF Lawful, Quiets
    <3> QED BY <1>2, <3>1, <3>2 DEF Lawful
  <2>2. CASE items # <<>>
    <3>1. Loop(x, items) = <<y>> BY <2>2 DEF Loop
    <3>2. Sound(y) /\ y.do = "exit"
      <4> HIDE DEF items
      <4>1. Sound(x) /\ {"do", "left"} \subseteq DOMAIN x /\ x.do = "exit" BY <1>1, <1>2, <1>5
      <4> QED BY <4>1, SoundLoop
    <3> HIDE DEF y
    <3>3. Solid(<<y>> \o t) BY <1>2, <3>2, SolidPush DEF Lawful, Quiets
    <3> QED BY <3>1, <3>3
  <2> QED BY <2>1, <2>2
<1>12. CASE status = "OPEN"
  <2>1. Then(Others) /\ UNCHANGED lots BY <1>12 DEF Exit
  <2>2. todo' = r BY <2>1 DEF Then, Others
  <2>3. UNCHANGED <<lots, openLots, fifo, trades, cash, cashView>> BY <1>9, <2>1
  <2>4. RowsPay' /\ ViewsPay' /\ AccountOK' /\ \A i : Viewed(i)' <=> Viewed(i)
    BY <2>3, AccountStays DEF Funds
  <2>5. \A a \in DOMAIN ToExit(r) : Viewed(ToExit(r)[a].id)' BY <1>3, <1>8, <2>4
  <2>6. Frames' /\ Prices' /\ TopOK' BY <1>3, <1>11, <2>2, <2>5, AfterRest
  <2> QED BY <2>4, <2>6 DEF Funds
<1>13. CASE status # "OPEN"
  <2> PICK raw : raw = ExitPrice(id, x.bar, status) OBVIOUS
  <2>1. BeginClose(id, status, raw, 2 * x.bar.ts) BY <1>13 DEF Exit
  <2>2. raw \in Int /\ Floor <= raw BY <1>7, <1>10, <1>13, ExitPricePays DEF Funds
  <2>3. CASE NSE /\ ~CanConsume(fifo, lots[id].qty)
    <3>1. Raise /\ UNCHANGED lots BY <2>1, <2>3 DEF BeginClose
    <3>2. Lawful(todo') BY <3>1, LawfulNone DEF Raise
    <3>3. UNCHANGED <<lots, openLots, fifo, trades, cash, cashView>> BY <1>9, <3>1
    <3> QED BY <3>2, <3>3, FundsStay
  <2>4. CASE ~ (NSE /\ ~CanConsume(fifo, lots[id].qty))
    <3> PICK cost : cost = AcquisitionCost(id) OBVIOUS
    <3> PICK at : at = 2 * x.bar.ts OBVIOUS
    <3>0. PICK y : y = [do |-> "close", id |-> id, status |-> status, raw |-> raw, at |-> at, cost |-> cost]
      OBVIOUS
    <3>1. MarkRow(id, cost, ViewOf(id).target, 0, raw) /\ Then(<<y>> \o Others)
      BY <2>1, <2>4, <3>0 DEF BeginClose
    <3>2. /\ y.do = "close" /\ y.id = id /\ y.raw = raw /\ y.status = status
          /\ y.cost = cost /\ y.at = at /\ "do" \in DOMAIN y
      BY <3>0
    <3>3. todo' = <<y>> \o r
      <4>1. Then(<<y>> \o Others) BY <3>1
      <4>2. ExitLoop(Head(todo)) /\ Quiets(Tail(todo)) BY <1>2 DEF Lawful
      <4>3. todo' = <<y>> \o (Others \o Tail(todo)) BY <4>1, <4>2, LoopPushed
      <4> QED BY <4>3 DEF Others
    <3>4. cost \in Int
      <4>1. id \in DOMAIN lots BY <1>7, ViewTargetPays DEF Funds
      <4> QED BY <4>1, AcquisitionIsNatural DEF Funds, RowsPay
    <3>5. at \in Int BY <1>10 DEF Pays
    <3>6. /\ Viewed(y.id) /\ y.status # "OPEN" /\ {y.raw, y.at, y.cost} \subseteq Int /\ Floor <= y.raw
      BY <1>7, <1>13, <2>2, <3>2, <3>4, <3>5
    <3>7. \A a \in DOMAIN ToExit(r) : Viewed(ToExit(r)[a].id) /\ ToExit(r)[a].id # y.id BY <1>3, <1>8, <3>2
    <3>8. MarkRow(y.id, y.cost, ViewOf(y.id).target, 0, y.raw) BY <3>1, <3>2
    <3>9. Rest(r) BY <1>3
    <3> QED BY <1>9, <1>11, <3>2, <3>3, <3>6, <3>7, <3>8, <3>9, ExitStarts
  <2> QED BY <2>3, <2>4
<1> QED BY <1>12, <1>13

\* The next frame of an exit.
LEMMA ExitGoesOn ==
  ASSUME Funds, NEW step, Doing(step), step \in {"close", "sell"},
         NEW y, "do" \in DOMAIN y, y.do \in {"sell", "credit"}, y.id = Head(todo).id, Then(<<y>>),
         UNCHANGED openLots, (Head(todo') = y => TopOK')
  PROVE  Frames' /\ Prices' /\ TopOK'
<1> PICK r : r = Tail(todo) OBVIOUS
<1>1. step \in Tight /\ y.do \in Tight /\ y.do \notin {"lot", "buy", "debit"} BY DEF Tight
<1>2. Rest(r) /\ Solid(r) BY <1>1, TightRuns
<1>3. \A a \in DOMAIN ToExit(r) : Viewed(ToExit(r)[a].id) /\ ToExit(r)[a].id # Head(todo).id
  BY <1>1, TightRuns
<1>4. todo' = <<y>> \o r BY DEF Then
<1>5. Head(todo') = y BY <1>1, <1>2, <1>4, TightPush
<1>6. \A a \in DOMAIN ToExit(r) :
            /\ Viewed(ToExit(r)[a].id)'
            /\ y.do \in {"close", "sell", "credit"} => ToExit(r)[a].id # y.id
  BY <1>3 DEF Viewed
<1>7. TopOK' BY <1>5
<1>8. Frames' /\ Prices' BY <1>1, <1>2, <1>4, <1>6, <1>7, AfterTight
<1> QED BY <1>7, <1>8

\* lots.close() at the price after slippage.
LEMMA FundsAtClose == ASSUME Funds, Close PROVE Funds'
<1> PICK x : x = Head(todo) OBVIOUS
<1> PICK id : id = x.id OBVIOUS
<1> PICK old : old = lots[id] OBVIOUS
<1> PICK price : price = SellPrice(x.raw) OBVIOUS
<1> PICK pnl : pnl = (price - 2 * UnitFee) * old.qty - x.cost OBVIOUS
<1> PICK row : row = [old EXCEPT !.status = x.status, !.exitAt = x.at, !.cost = x.cost,
                                 !.pnl = pnl, !.unreal = 0, !.last = price] OBVIOUS
<1> PICK y : y = [do |-> "sell", id |-> id, price |-> price, at |-> x.at] OBVIOUS
<1>1. /\ Then(<<y>>) /\ Doing("close")
      /\ lots' = (IF old.status # "OPEN" THEN lots ELSE [lots EXCEPT ![id] = row])
      /\ UNCHANGED <<trades, cash, openLots, fifo, cashView>>
  BY DEF Close, memory
<1>2. Viewed(id) /\ x.status # "OPEN" /\ {x.raw, x.at, x.cost} \subseteq Int /\ Floor <= x.raw
  BY <1>1 DEF Funds, TopOK
<1>3. id \in DOMAIN lots BY <1>2, ViewTargetPays DEF Funds
<1>4. /\ RowOK(old) /\ RowPays(old) /\ old.qty \in Nat
      /\ {"dep", "num", "entryPrice", "qty", "stop", "status", "pnl"} \subseteq DOMAIN old
      /\ {"entryTs", "target", "last"} \subseteq DOMAIN old
  BY <1>3 DEF Funds, RowsPay, RowsOK, RowOK, RowPays
<1>5. price \in Int /\ pnl \in Int /\ UnitFee <= price
  <2>1. Slippage \in Int /\ UnitFee \in Int BY CostsAreNatural
  <2>2. price \in Int /\ UnitFee <= price BY <1>2, <2>1 DEF SellPrice, Floor
  <2>3. \A a, b, c, d \in Int : (a - 2 * b) * c - d \in Int OBVIOUS
  <2>4. old.qty \in Int /\ x.cost \in Int BY <1>2, <1>4
  <2> QED BY <2>1, <2>2, <2>3, <2>4
<1>6. /\ row.dep = old.dep /\ row.num = old.num /\ row.entryPrice = old.entryPrice /\ row.qty = old.qty
      /\ row.stop = old.stop /\ row.status = x.status /\ row.pnl = pnl /\ DOMAIN row = DOMAIN old
      /\ row.entryTs = old.entryTs /\ row.target = old.target /\ row.last = price
  BY <1>4
<1>7. RowOK(row) BY <1>2, <1>4, <1>5, <1>6 DEF RowOK
<1>8. RowPays(row) BY <1>2, <1>4, <1>5, <1>6 DEF RowPays
<1>9. RowsPay'
  <2>1. CASE lots' = lots BY <2>1 DEF Funds, RowsPay, RowsOK
  <2>2. CASE lots' = [lots EXCEPT ![id] = row]
    <3>1. /\ Proper(lots') /\ DOMAIN lots' = DOMAIN lots
          /\ \A i \in DOMAIN lots : lots'[i] = IF i = id THEN row ELSE lots[i]
      BY <2>2, ProperUpdate DEF Funds, RowsPay, RowsOK
    <3>2. \A i \in DOMAIN lots' : RowOK(lots'[i]) /\ RowPays(lots'[i])
      BY <1>7, <1>8, <3>1 DEF Funds, RowsPay, RowsOK
    <3> QED BY <3>1, <3>2 DEF RowsPay, RowsOK
  <2> QED BY <1>1, <2>1, <2>2
<1>10. DOMAIN lots' = DOMAIN lots /\ openLots' = openLots BY <1>1
<1>11. ViewsPay' BY <1>10 DEF Funds, ViewsPay, Shown
<1>12. AccountOK' BY <1>1 DEF Funds, AccountOK
<1>13. Viewed(id)' BY <1>2, <1>10 DEF Viewed
<1>14. y.do = "sell" /\ y.id = id /\ y.price = price /\ y.at = x.at /\ "do" \in DOMAIN y OBVIOUS
<1>15. x.at \in Int BY <1>2
<1>16. Head(todo') = y => TopOK' BY <1>5, <1>13, <1>14, <1>15 DEF TopOK, Doing
<1>17. Frames' /\ Prices' /\ TopOK' BY <1>1, <1>14, <1>16, ExitGoesOn
<1> QED BY <1>9, <1>11, <1>12, <1>17 DEF Funds

\* trades.insert() of the SELL, and the slices it takes, fewer than its units when a handler was cut short.
LEMMA FundsAtSale == ASSUME Funds, InsertSell PROVE Funds'
<1> PICK x : x = Head(todo) OBVIOUS
<1> PICK id : id = x.id OBVIOUS
<1> PICK qty : qty = lots[id].qty OBVIOUS
<1> PICK t : t = [lot |-> id, side |-> "SELL", qty |-> qty, price |-> x.price, at |-> x.at] OBVIOUS
<1> PICK y : y = [do |-> "credit", id |-> id, price |-> x.price] OBVIOUS
<1>1. /\ Then(<<y>>) /\ Doing("sell") /\ trades' = Append(trades, t)
      /\ fifo' = (IF NSE THEN Consume(fifo, qty) ELSE fifo)
      /\ UNCHANGED <<lots, cash, openLots, cashView>>
  BY DEF InsertSell
<1>2. Viewed(id) /\ {x.price, x.at} \subseteq Int /\ UnitFee <= x.price BY <1>1 DEF Funds, TopOK
<1>3. id \in DOMAIN lots BY <1>2, ViewTargetPays DEF Funds
<1>4. qty \in Nat \ {0} BY <1>3, RowNumbers DEF Funds, RowsPay
<1>5. TradeOK(t) BY <1>2, <1>4 DEF TradeOK
<1>6. Proper(trades') /\ \A n \in DOMAIN trades' : TradeOK(trades'[n])
  <2>1. Proper(trades) /\ \A n \in DOMAIN trades : TradeOK(trades[n]) BY DEF Funds, AccountOK
  <2>2. /\ Proper(trades')
        /\ \A i \in DOMAIN trades : trades'[i] = trades[i]
        /\ trades'[Len(trades) + 1] = t
        /\ \A i \in DOMAIN trades' : i \in DOMAIN trades \/ i = Len(trades) + 1
    BY <1>1, <2>1, ProperAppend
  <2> QED BY <1>5, <2>1, <2>2
<1>7. fifo' \in Seq(Slices)
  <2>1. fifo \in Seq(Slices) BY DEF Funds, AccountOK
  <2>2. Consume(fifo, qty) \in Seq(Slices) BY <1>4, <2>1, SaleLeaves
  <2> QED BY <1>1, <2>1, <2>2
<1>8. RowsPay' BY <1>1 DEF Funds, RowsPay, RowsOK
<1>9. ViewsPay' BY <1>1 DEF Funds, ViewsPay, Shown
<1>10. AccountOK' BY <1>1, <1>6, <1>7 DEF Funds, AccountOK
<1>11. Viewed(id)' BY <1>1, <1>2 DEF Viewed
<1>12. y.do = "credit" /\ y.id = id /\ y.price = x.price /\ "do" \in DOMAIN y OBVIOUS
<1>13. x.price \in Int BY <1>2
<1>14. Head(todo') = y => TopOK' BY <1>2, <1>11, <1>12, <1>13 DEF TopOK, Doing
<1>15. openLots' = openLots /\ Doing("sell") /\ Then(<<y>>) /\ y.id = Head(todo).id BY <1>1, <1>12
<1>16. Frames' /\ Prices' /\ TopOK' BY <1>12, <1>14, <1>15, ExitGoesOn
<1> QED BY <1>8, <1>9, <1>10, <1>16 DEF Funds

\* accounts.credit() of what the sale brings, never less than nothing.
LEMMA FundsAtCredit == ASSUME Funds, Credit PROVE Funds'
<1> PICK x : x = Head(todo) OBVIOUS
<1> PICK id : id = x.id OBVIOUS
<1> PICK qty : qty = lots[id].qty OBVIOUS
<1> PICK proceeds : proceeds = ExitProceeds(x.price, qty) OBVIOUS
<1> PICK r : r = Tail(todo) OBVIOUS
<1>1. /\ Then(<<>>) /\ Doing("credit") /\ cash' = cash + proceeds /\ cashView' = cash'
      /\ openLots' = Without(openLots, id) /\ UNCHANGED <<lots, trades, fifo>>
  BY DEF Credit, Without
<1>2. Viewed(id) /\ x.price \in Int /\ UnitFee <= x.price BY <1>1 DEF Funds, TopOK
<1>3. id \in DOMAIN lots BY <1>2, ViewTargetPays DEF Funds
<1>4. proceeds \in Nat
  <2>1. qty \in Nat BY <1>3, RowNumbers DEF Funds, RowsPay
  <2>2. x.price - UnitFee \in Nat BY <1>2, CostsAreNatural
  <2>3. \A a, b \in Nat : a * b \in Nat OBVIOUS
  <2>4. (x.price - UnitFee) * qty \in Nat BY <2>1, <2>2, <2>3
  <2> QED BY <2>4 DEF ExitProceeds
<1>5. Rest(r) /\ Solid(r) /\ Proper(r) BY <1>1, TightRuns DEF Tight
<1>6. \A a \in DOMAIN ToExit(r) : Viewed(ToExit(r)[a].id) /\ ToExit(r)[a].id # id
  BY <1>1, TightRuns DEF Tight
<1>7. todo' = r
  <2>1. todo' = <<>> \o r BY <1>1 DEF Then
  <2> QED BY <1>5, <2>1, PushNone
<1> PICK rest : rest = Without(openLots, id) OBVIOUS
<1>8. Shown BY DEF Funds, ViewsPay
<1>9. /\ Proper(rest)
      /\ \A a \in DOMAIN rest : \E i \in DOMAIN openLots : rest[a] = openLots[i] /\ openLots[i].id # id
      /\ \A i \in DOMAIN openLots : openLots[i].id # id => \E a \in DOMAIN rest : rest[a] = openLots[i]
      /\ \A a, b \in DOMAIN rest : rest[a].id = rest[b].id => a = b
  BY <1>8, OthersStay DEF Shown
<1>10. openLots' = rest /\ lots' = lots BY <1>1
<1>11. ViewsPay'
  <2>1. \A a \in DOMAIN rest : /\ rest[a].id \in DOMAIN lots
                               /\ {rest[a].target, rest[a].last} \subseteq Int
                               /\ Floor <= rest[a].target /\ Floor <= rest[a].last
    BY <1>8, <1>9 DEF Funds, ViewsPay, Shown
  <2> QED BY <1>9, <1>10, <2>1 DEF ViewsPay, Shown
<1>12. ASSUME NEW a \in DOMAIN ToExit(r) PROVE Viewed(ToExit(r)[a].id)'
  <2>1. Viewed(ToExit(r)[a].id) /\ ToExit(r)[a].id # id BY <1>6
  <2>2. PICK i \in DOMAIN openLots : openLots[i].id = ToExit(r)[a].id BY <2>1 DEF Viewed
  <2>3. PICK b \in DOMAIN rest : rest[b] = openLots[i] BY <1>9, <2>1, <2>2
  <2>4. \E c \in DOMAIN rest : rest[c].id = ToExit(r)[a].id BY <2>2, <2>3
  <2> QED BY <1>10, <2>4 DEF Viewed
<1>13. Frames' /\ Prices' /\ TopOK' BY <1>5, <1>7, <1>12, AfterRest
<1>14. RowsPay' BY <1>10 DEF Funds, RowsPay, RowsOK
<1>15. AccountOK'
  <2>1. cash \in Nat BY DEF Funds, AccountOK
  <2>2. cash + proceeds \in Nat BY <1>4, <2>1
  <2> QED BY <1>1, <2>2 DEF Funds, AccountOK
<1> QED BY <1>11, <1>13, <1>14, <1>15 DEF Funds

-----------------------------------------------------------------------------
(* The handlers start, the market goes on. *)

\* What a step of a handler keeps.
LEMMA HandlerFunds == ASSUME MarketOK, Funds, HandlerStep PROVE Funds'
<1>1. CASE Persist \/ Consider \/ DeletePending BY <1>1, FundsPersisted, FundsConsidered, FundsDeleted
<1>2. CASE FillEntry \/ InsertLot \/ InsertBuy \/ Debit
  BY <1>2, FundsAtFill, FundsAtInsert, FundsAtBuy, FundsAtDebit
<1>3. CASE Remark \/ Mark BY <1>3, FundsRemarked, FundsMarked
<1>4. CASE Sweep \/ Exit \/ Close \/ InsertSell \/ Credit
  BY <1>4, FundsSwept, FundsInExit, FundsAtClose, FundsAtSale, FundsAtCredit
<1>5. CASE Settle \/ Ladder \/ Wipe BY <1>5, FundsSettled, FundsLadder, FundsWiped
<1> QED BY <1>1, <1>2, <1>3, <1>4, <1>5 DEF HandlerStep

\* Every price of a candle repays the costs of a sale.
LEMMA CandlePays ==
  ASSUME MarketOK, NEW i \in 1..Clock
  PROVE  /\ {tape[i].o, tape[i].l, tape[i].c} \subseteq Int
         /\ Floor <= tape[i].o /\ Floor <= tape[i].l /\ Floor <= tape[i].c
<1> PICK k : k = tape[i] OBVIOUS
<1>1. k \in Candles BY DEF MarketOK, Clock
<1>2. {k.o, k.l, k.c} \subseteq Int /\ k.l <= Min({k.o, k.c}) BY <1>1, CandlesAreCandles
<1>3. Floor <= k.l BY <1>1, SalesPay DEF Floor
<1>4. Floor \in Int BY CostsAreNatural DEF Floor
<1> PICK o : o = k.o OBVIOUS
<1> PICK c : c = k.c OBVIOUS
<1> PICK l : l = k.l OBVIOUS
<1>5. o \in Int /\ c \in Int /\ l \in Int /\ l <= Min({o, c}) /\ Floor <= l BY <1>2, <1>3
<1>6. Min({o, c}) = (IF o <= c THEN o ELSE c) BY <1>5, OfTwo
<1>7. Floor <= o /\ Floor <= c BY <1>4, <1>5, <1>6
<1> QED BY <1>5, <1>7

\* So does every price of a bar made of candles.
LEMMA BarPays ==
  ASSUME MarketOK, NEW ts \in Nat, NEW len \in Nat \ {0}, ts + len <= Clock
  PROVE  Pays(BarAt(ts, len))
<1> DEFINE bars == (ts + 1)..(ts + len)
           lows == {tape[i].l : i \in bars}
           bar == BarAt(ts, len)
<1>1. Clock \in Nat BY DEF MarketOK, Clock
<1>2. ts + 1 \in bars /\ ts + len \in bars /\ \A i \in bars : i \in 1..Clock BY <1>1
<1>3. \A i \in bars : /\ {tape[i].o, tape[i].l, tape[i].c} \subseteq Int
                      /\ Floor <= tape[i].o /\ Floor <= tape[i].l /\ Floor <= tape[i].c
  BY <1>2, CandlePays
<1>4. /\ bar.ts = ts /\ bar.o = tape[ts + 1].o /\ bar.c = tape[ts + len].c /\ bar.l = Min(lows)
      /\ {"ts", "o", "l", "c"} \subseteq DOMAIN bar
  BY DEF BarAt
<1>5. IsFiniteSet(bars)
  <2>1. ts + 1 \in Int /\ ts + len \in Int OBVIOUS
  <2> QED BY <2>1, FS_Interval
<1> HIDE DEF bars
<1>6. IsFiniteSet(lows)
  <2> DEFINE f == [i \in bars |-> tape[i].l]
  <2>1. f \in Surjection(bars, lows) BY DEF Surjection
  <2> HIDE DEF f, lows
  <2> QED BY <1>5, <2>1, FS_Surjection
<1>7. lows \in SUBSET Int /\ lows # {} BY <1>2, <1>3
<1>8. Min(lows) \in lows
  <2> HIDE DEF lows
  <2> QED BY <1>6, <1>7, MinIsLeast
<1>9. bar.l \in Int /\ Floor <= bar.l BY <1>3, <1>4, <1>8
<1> HIDE DEF bar, lows
<1>10. {bar.ts, bar.o, bar.l, bar.c} \subseteq Int /\ Floor <= bar.o /\ Floor <= bar.c BY <1>2, <1>3, <1>4, <1>9
<1> QED BY <1>4, <1>9, <1>10 DEF Pays, bar

\* on_signal() moves no money.
LEMMA FundsSignal == ASSUME MarketOK, Funds, NEW d \in Deployments, OnSignal(d) PROVE Funds'
<1> DEFINE ts == LatestBar(d)
           p == [sig |-> <<d, ts>>, dep |-> d, ts |-> ts, price |-> tape[ts + Span(d)].c,
                 created |-> Now, cycle |-> 0, num |-> 0]
           persist == [do |-> "persist", p |-> p]
           fill == [do |-> "fill", p |-> p, ref |-> p.price, ts |-> ts]
<1>1. /\ todo = <<>> /\ ts >= 0
      /\ todo' = <<>> \/ todo' = <<persist>> \/ todo' = <<fill>>
      /\ UNCHANGED <<lots, openLots, fifo, trades, cash, cashView>>
  BY DEF OnSignal, Idle, db, memory
<1>2. p.price \in Nat \ {0} /\ ts \in Int BY <1>1, SignalPrice
<1>3. Floor <= p.price
  <2> DEFINE n == Span(d)
             m == (Clock \div n) * n
  <2>1. n \in Nat \ {0} /\ Clock \in Nat BY FeedLengths DEF MarketOK, Clock
  <2>2. m \in Int /\ m <= Clock BY <2>1, WholeBars
  <2>3. ts = m - n BY DEF LatestBar
  <2>4. p.price = tape[ts + n].c OBVIOUS
  <2> HIDE DEF n, m, ts, p
  <2>5. ts + n = m /\ m \in 1..Clock BY <1>1, <1>2, <2>1, <2>2, <2>3
  <2>6. Floor <= tape[m].c BY <2>5, CandlePays
  <2> QED BY <2>4, <2>5, <2>6
<1>4. p.dep = d /\ p.ts = ts /\ p.created = Now OBVIOUS
<1>5. /\ persist.do = "persist" /\ persist.p = p /\ "do" \in DOMAIN persist
      /\ fill.do = "fill" /\ fill.p = p /\ fill.ref = p.price /\ fill.ts = ts /\ "do" \in DOMAIN fill
  OBVIOUS
<1>6. Now \in Int BY NowIsInt
<1> HIDE DEF persist, fill, p, ts
<1>7. Quiet(persist) /\ Quiet(fill) BY <1>2, <1>4, <1>5 DEF Quiet, Tight
<1>8. Sound(persist) /\ Sound(fill) BY <1>2, <1>3, <1>4, <1>5, <1>6 DEF Sound
<1>9. Lawful(todo') BY <1>1, <1>5, <1>7, <1>8, LawfulNone, LawfulOne
<1> QED BY <1>1, <1>9, FundsStay

\* on_candle() starts the frames of its bar.
LEMMA FundsCandle == ASSUME Feeds, Funds, NEW ch \in Channels, OnCandle(ch) PROVE Funds'
<1> PICK ts : ts = NextTs(ch) OBVIOUS
<1> PICK bar : bar = BarAt(ts, FeedLen(ch)) OBVIOUS
<1> DEFINE consider == [do |-> "consider", left |-> <<>>, bar |-> bar, ch |-> ch]
           y == [consider EXCEPT !.left = queue]
           sweep == [do |-> "sweep", bar |-> bar, ch |-> ch]
<1>1. /\ todo = <<>> /\ ts + FeedLen(ch) <= Clock
      /\ todo' = Loop(consider, queue) \o <<sweep>>
      /\ UNCHANGED <<lots, openLots, fifo, trades, cash, cashView>>
  BY DEF OnCandle, Idle, db
<1>2. ts \in Nat /\ Priced(bar) BY <1>1, NextBar DEF Feeds
<1>3. Pays(bar)
  <2>1. FeedLen(ch) \in Nat \ {0} BY FeedLengths
  <2> QED BY <1>1, <1>2, <2>1, BarPays DEF Feeds
<1>4. queue # <<>> => Quiet(y) /\ Sound(y) /\ y.do # "mark"
  <2>1. y.do = "consider" /\ y.left = queue /\ y.bar = bar /\ DOMAIN y = {"do", "left", "bar", "ch"} OBVIOUS
  <2> HIDE DEF y
  <2>2. queue # <<>> => Quiet(y) BY <1>2, <2>1 DEF Quiet, Tight, Feeds
  <2>3. Sound(y) BY <1>3, <2>1 DEF Sound
  <2> QED BY <2>1, <2>2, <2>3
<1>5. Quiet(sweep) /\ Sound(sweep) /\ sweep.do # "mark"
  <2>1. sweep.do = "sweep" /\ sweep.bar = bar /\ {"do", "bar"} \subseteq DOMAIN sweep OBVIOUS
  <2> HIDE DEF sweep
  <2> QED BY <1>2, <1>3, <2>1 DEF Quiet, Tight, Sound
<1> HIDE DEF consider, sweep
<1>6. Lawful(Loop(consider, queue)) BY <1>4, LawfulLoop
<1>7. Lawful(todo') BY <1>1, <1>5, <1>6, LawfulOne, LawfulConcat
<1> QED BY <1>1, <1>7, FundsStay

\* A lot closed from the user interface begins its exit at its last price.
LEMMA FundsByHand ==
  ASSUME MarketOK, Funds, NEW id \in Ids(openLots), CloseLotManually(id) PROVE Funds'
<1> PICK price : price = ViewOf(id).last OBVIOUS
<1> PICK cost : cost = AcquisitionCost(id) OBVIOUS
<1> DEFINE x == [do |-> "close", id |-> id, status |-> "CLOSED", raw |-> price, at |-> Now, cost |-> cost]
           y == [do |-> "remark", close |-> price]
<1>1. /\ todo = <<>> /\ UNCHANGED <<openLots, fifo, trades, cash, cashView>>
      /\ IF NSE /\ ~CanConsume(fifo, lots[id].qty) THEN UNCHANGED <<lots, todo>>
         ELSE MarkRow(id, cost, ViewOf(id).target, 0, price) /\ todo' = <<x, y>>
  BY DEF CloseLotManually, Idle, memory
<1>2. Viewed(id) BY DEF Ids, ToSet, Viewed
<1>3. price \in Int /\ Floor <= price /\ id \in DOMAIN lots BY <1>2, ViewTargetPays DEF Funds
<1>4. cost \in Int BY <1>3, AcquisitionIsNatural DEF Funds, RowsPay
<1>5. Now \in Int BY NowIsInt
<1>6. /\ x.do = "close" /\ x.id = id /\ x.raw = price /\ x.status = "CLOSED" /\ x.cost = cost /\ x.at = Now
      /\ "do" \in DOMAIN x
      /\ y.do = "remark" /\ y.close = price /\ DOMAIN y = {"do", "close"}
  OBVIOUS
<1> HIDE DEF x, y
<1>7. CASE NSE /\ ~CanConsume(fifo, lots[id].qty)
  <2>1. UNCHANGED <<lots, openLots, fifo, trades, cash, cashView>> /\ todo' = <<>> BY <1>1, <1>7
  <2>2. Lawful(todo') BY <2>1, LawfulNone
  <2> QED BY <2>1, <2>2, FundsStay
<1>8. CASE ~ (NSE /\ ~CanConsume(fifo, lots[id].qty))
  <2> PICK r : r = <<y>> OBVIOUS
  <2> PICK z : z = x OBVIOUS
  <2>1. MarkRow(id, cost, ViewOf(id).target, 0, price) /\ todo' = <<x, y>> BY <1>1, <1>8
  <2>2. Quiet(y) /\ Sound(y) /\ y.do # "mark" BY <1>3, <1>6 DEF Quiet, Tight, Sound
  <2>3. Lawful(r) BY <2>2, LawfulOne
  <2>4. Rest(r) /\ ToExit(r) = <<>> /\ Solid(r) BY <2>3, QuietsRest DEF Lawful
  <2>5. todo' = <<z>> \o r BY <2>1, FrameAbove
  <2>6. \A a \in DOMAIN ToExit(r) : Viewed(ToExit(r)[a].id) /\ ToExit(r)[a].id # z.id BY <2>4, ProperEmpty
  <2>7. /\ "do" \in DOMAIN z /\ z.do = "close" /\ Viewed(z.id) /\ z.status # "OPEN"
        /\ {z.raw, z.at, z.cost} \subseteq Int /\ Floor <= z.raw
    BY <1>2, <1>3, <1>4, <1>5, <1>6
  <2>8. MarkRow(z.id, z.cost, ViewOf(z.id).target, 0, z.raw) BY <1>6, <2>1
  <2>9. UNCHANGED <<openLots, fifo, trades, cash, cashView>> BY <1>1
  <2> QED BY <2>4, <2>5, <2>6, <2>7, <2>8, <2>9, ExitStarts
<1> QED BY <1>7, <1>8

\* A reset asked for, a candle printed, a worker built again and an exception move no money.
LEMMA FundsBetween ==
  ASSUME Funds, \/ ResetAccount \/ PrintBar \/ DatabaseError
                \/ \E d \in Deployments : ReconcileWorkers(d)
  PROVE  Funds'
<1> DEFINE x == [do |-> "wipe"]
<1>1. UNCHANGED <<lots, openLots, fifo, trades, cash, cashView>>
  BY DEF ResetAccount, PrintBar, DatabaseError, ReconcileWorkers, db, memory
<1>2. todo' = <<x>> \/ todo' = <<>>
  BY DEF ResetAccount, PrintBar, DatabaseError, Raise, ReconcileWorkers, Idle, handler
<1>3. x.do = "wipe" /\ "do" \in DOMAIN x OBVIOUS
<1> HIDE DEF x
<1>4. Quiet(x) /\ Sound(x) /\ x.do # "mark" BY <1>3 DEF Quiet, Tight, Sound
<1>5. Lawful(todo') BY <1>2, <1>4, LawfulNone, LawfulOne
<1> QED BY <1>1, <1>5, FundsStay

\* A step that changes nothing.
LEMMA FundsStutter == ASSUME Funds, StartStandby \/ UNCHANGED vars PROVE Funds'
<1>1. UNCHANGED <<lots, trades, cash, openLots, fifo, todo, cashView>>
  BY OwnerGoesOn DEF db, memory, handler
<1>2. RowsPay' /\ ViewsPay' /\ AccountOK' /\ \A id : Viewed(id)' <=> Viewed(id)
  BY <1>1, AccountStays DEF Funds
<1>3. Frames' BY <1>1 DEF Funds, Frames, LoopOK, FillOK, Doing, Viewed
<1>4. Prices' BY <1>1 DEF Funds, Prices
<1>5. TopOK' BY <1>1 DEF Funds, TopOK, Doing, Viewed, Affordable
<1> QED BY <1>2, <1>3, <1>4, <1>5 DEF Funds

-----------------------------------------------------------------------------
(* A process that starts again. *)

\* One trade more of those that are replayed.
Replayed(slices, t) == IF t.side = "BUY" THEN Add(slices, t.lot, t.price, t.qty) ELSE Consume(slices, t.qty)
IsReplay(f, made, n) ==
    f = [k \in 0..n |-> IF k = 0 THEN <<>> ELSE Replayed(f[k - 1], made[k])]

\* The recursion of Replay defines a function.
LEMMA ReplayExists ==
  ASSUME NEW made, NEW n \in Nat PROVE \E f : IsReplay(f, made, n)
<1> DEFINE S == {m \in Nat : \E f : IsReplay(f, made, m)}
<1>1. 0 \in S
  <2>1. IsReplay([k \in 0..0 |-> <<>>], made, 0) BY DEF IsReplay
  <2> QED BY <2>1
<1>2. ASSUME NEW m \in Nat, m \in S PROVE m + 1 \in S
  <2>1. PICK f : IsReplay(f, made, m) BY <1>2
  <2> DEFINE last == Replayed(f[m], made[m + 1])
             g == [k \in 0..(m + 1) |-> IF k <= m THEN f[k] ELSE last]
  <2>2. IsReplay(g, made, m + 1)
    <3>1. \A k \in 0..m : f[k] = IF k = 0 THEN <<>> ELSE Replayed(f[k - 1], made[k]) BY <2>1 DEF IsReplay
    <3>2. \A k \in 0..(m + 1) : g[k] = IF k = 0 THEN <<>> ELSE Replayed(g[k - 1], made[k])
      <4> TAKE k \in 0..(m + 1)
      <4>1. CASE k <= m
        <5>1. k \in 0..m /\ (k # 0 => k - 1 \in 0 .. (m + 1) /\ k - 1 <= m) BY <4>1
        <5>2. g[k] = f[k] /\ (k # 0 => g[k - 1] = f[k - 1]) BY <5>1, <4>1
        <5> QED BY <5>1, <5>2, <3>1
      <4>2. CASE k = m + 1
        <5>1. k # 0 /\ k - 1 = m /\ ~ (k <= m) /\ m \in 0 .. (m + 1) /\ m <= m BY <4>2
        <5>2. g[k] = last /\ g[k - 1] = f[m] BY <5>1
        <5> QED BY <5>1, <5>2, <4>2
      <4> QED BY <4>1, <4>2
    <3> HIDE DEF g
    <3>3. g = [k \in 0..(m + 1) |-> g[k]] BY DEF g
    <3> QED BY <3>2, <3>3 DEF IsReplay
  <2> QED BY <2>2
<1> HIDE DEF S
<1>3. n \in S BY <1>1, <1>2, CountUp
<1> QED BY <1>3 DEF S

\* The trades as they are read back.
Made == [k \in 0..Len(trades) |-> trades[ReplayOrder[k]]]

\* Replay adds them up, one after the other.
LEMMA ReplayIs ==
  ASSUME NSE, Len(trades) \in Nat
  PROVE  \E f : IsReplay(f, Made, Len(trades)) /\ Replay = f[Len(trades)]
<1> DEFINE n == Len(trades)
           order == ReplayOrder
           step(f, k) == IF k = 0 THEN <<>>
                         ELSE LET t == trades[order[k]]
                              IN  IF t.side = "BUY" THEN Add(f[k - 1], t.lot, t.price, t.qty)
                                  ELSE Consume(f[k - 1], t.qty)
           h == CHOOSE f : f = [k \in 0..n |-> step(f, k)]
<1>1. ASSUME NEW f PROVE IsReplay(f, Made, n) <=> f = [k \in 0..n |-> step(f, k)]
  <2>1. \A k \in 0..n : Made[k] = trades[order[k]] BY DEF Made
  <2>2. \A k \in 0..n : (IF k = 0 THEN <<>> ELSE Replayed(f[k - 1], Made[k])) = step(f, k)
    BY <2>1 DEF Replayed
  <2> DEFINE a == [k \in 0..n |-> IF k = 0 THEN <<>> ELSE Replayed(f[k - 1], Made[k])]
             b == [k \in 0..n |-> step(f, k)]
  <2>3. a = b
    <3> HIDE DEF n, order, step
    <3> QED BY <2>2
  <2>4. IsReplay(f, Made, n) <=> f = a BY DEF IsReplay
  <2> HIDE DEF a, b
  <2>5. IsReplay(f, Made, n) <=> f = b BY <2>3, <2>4
  <2> QED BY <2>5 DEF b
<1>2. PICK f : IsReplay(f, Made, n) BY ReplayExists
<1>3. h = [k \in 0..n |-> step(h, k)]
  <2> HIDE DEF step
  <2> QED BY <1>1, <1>2
<1>4. Replay = h[n] BY DEF Replay
<1> HIDE DEF h
<1>5. IsReplay(h, Made, n) BY <1>1, <1>3
<1> QED BY <1>4, <1>5

\* What is read back are slices that are not empty.
LEMMA ReplayFits ==
  ASSUME AccountOK PROVE Replay \in Seq(Slices)
<1>1. CASE ~NSE
  <2>1. Replay = <<>> BY <1>1 DEF Replay
  <2> QED BY <2>1
<1>2. CASE NSE
  <2> DEFINE n == Len(trades)
  <2>1. Proper(trades) /\ \A i \in DOMAIN trades : TradeOK(trades[i]) BY DEF AccountOK
  <2>2. n \in Nat BY <2>1, ProperDomain
  <2>3. PICK f : IsReplay(f, Made, n) /\ Replay = f[n] BY <1>2, <2>2, ReplayIs
  <2>4. \A k \in 0..n : f[k] = IF k = 0 THEN <<>> ELSE Replayed(f[k - 1], Made[k])
    BY <2>3 DEF IsReplay
  <2>5. \A k \in 1..n : TradeOK(Made[k])
    <3>1. \A i \in DOMAIN trades : trades[i].at \in Int BY <2>1 DEF TradeOK
    <3>2. Lists(ReplayOrder, DOMAIN trades) BY <2>1, <3>1, TradesInOrder
    <3>3. Cardinality(DOMAIN trades) = n BY <2>1, PlacesFinite
    <3>4. \A k \in 1..n : ReplayOrder[k] \in DOMAIN trades BY <3>2, <3>3 DEF Lists
    <3>5. \A k \in 1..n : Made[k] = trades[ReplayOrder[k]] BY <2>2 DEF Made
    <3> QED BY <2>1, <3>4, <3>5
  <2> DEFINE S == {k \in Nat : k <= n => f[k] \in Seq(Slices)}
  <2> HIDE DEF n
  <2>6. 0 \in S
    <3>1. 0 \in 0..n BY <2>2
    <3>2. f[0] = <<>> BY <2>4, <3>1
    <3>3. f[0] \in Seq(Slices) BY <3>2
    <3> QED BY <3>3
  <2>7. ASSUME NEW k \in Nat, k \in S PROVE k + 1 \in S
    <3> SUFFICES ASSUME k + 1 <= n PROVE f[k + 1] \in Seq(Slices) OBVIOUS
    <3> PICK t : t = Made[k + 1] OBVIOUS
    <3> PICK old : old = f[k] OBVIOUS
    <3>1. k + 1 \in 0..n /\ k + 1 \in 1..n /\ k <= n /\ (k + 1) - 1 = k /\ k + 1 # 0 BY <2>2
    <3>2. old \in Seq(Slices) BY <2>7, <3>1
    <3>3. f[k + 1] = Replayed(old, t) BY <2>4, <3>1
    <3>4. TradeOK(t) BY <2>5, <3>1
    <3>5. CASE t.side = "BUY"
      <4>1. Bought(old, t.lot, t.price, t.qty) BY <3>2, <3>4, <3>5 DEF Bought, TradeOK
      <4>2. Added(Add(old, t.lot, t.price, t.qty), old, t.price, t.qty) BY <4>1, PurchaseIsAdded
      <4> QED BY <3>3, <3>5, <4>2 DEF Added, Replayed
    <3>6. CASE t.side # "BUY"
      <4>1. t.qty \in Nat BY <3>4 DEF TradeOK
      <4>2. Consume(old, t.qty) \in Seq(Slices) BY <3>2, <4>1, SaleLeaves
      <4> QED BY <3>3, <3>6, <4>2 DEF Replayed
    <3> QED BY <3>5, <3>6
  <2> HIDE DEF S
  <2>8. n \in S BY <2>2, <2>6, <2>7, CountUp
  <2>9. f[n] \in Seq(Slices) BY <2>2, <2>8 DEF S
  <2> QED BY <2>3, <2>9 DEF n
<1> QED BY <1>1, <1>2

\* The views of the open rows.
LEMMA StoredViewsPay ==
  ASSUME RowsPay, openLots' = StoredLots, lots' = lots PROVE ViewsPay'
<1> DEFINE open == {i \in DOMAIN lots : lots[i].status = "OPEN"}
           order == InOrder(open)
           n == Cardinality(open)
<1> PICK stored : stored = StoredLots OBVIOUS
<1>1. Lists(order, open)
  <2>1. open \in SUBSET DOMAIN lots OBVIOUS
  <2> HIDE DEF open
  <2> QED BY <2>1, InOrderLists
<1>2. stored = [k \in DOMAIN order |-> View(order[k], lots[order[k]])] BY DEF StoredLots
<1>3. /\ DOMAIN order = 1..n /\ n \in Nat
      /\ \A k \in 1..n : order[k] \in open
      /\ \A j, k \in 1..n : order[j] = order[k] => j = k
  <2>1. DOMAIN order = 1..n /\ Len(order) = n /\ Proper(order) BY <1>1 DEF Lists
  <2>2. Len(order) \in Nat BY <2>1, ProperDomain
  <2> QED BY <1>1, <2>1, <2>2 DEF Lists
<1>4. \A k \in 1..n : order[k] \in DOMAIN lots /\ lots[order[k]].status = "OPEN" BY <1>3
<1> HIDE DEF open, order, n
<1>5. DOMAIN stored = 1..n BY <1>2, <1>3
<1>6. \A k \in 1..n : /\ stored[k].id = order[k] /\ stored[k].target = lots[order[k]].target
                      /\ stored[k].last = lots[order[k]].last
  BY <1>2, <1>3 DEF View
<1>7. \A k \in 1..n : /\ {stored[k].target, stored[k].last} \subseteq Int
                      /\ Floor <= stored[k].target /\ Floor <= stored[k].last
  BY <1>4, <1>6 DEF RowsPay, RowPays
<1>8. Proper(stored)
  <2>1. stored = [k \in 1..n |-> stored[k]] BY <1>2, <1>3
  <2>2. \A k \in 1..n : stored[k] \in {stored[j] : j \in 1..n} OBVIOUS
  <2>3. stored \in [1..n -> {stored[j] : j \in 1..n}] BY <2>1, <2>2
  <2> QED BY <1>3, <2>3, SeqOfFunction, ProperSeq
<1>9. openLots' = stored OBVIOUS
<1>10. Shown' BY <1>3, <1>4, <1>5, <1>6, <1>8, <1>9 DEF Shown
<1> QED BY <1>5, <1>7, <1>9, <1>10 DEF ViewsPay

\* The account that a process finds is the one it had, its inventory is what the trades say.
LEMMA FundsRebuilt == ASSUME Funds, Rebuilds PROVE Funds'
<1>1. /\ todo' = <<>> /\ openLots' = StoredLots /\ fifo' = Replay /\ cashView' = cash
      /\ UNCHANGED <<lots, trades, cash>>
  BY DEF Rebuilds, OwnerEnds, Remember, StoredMemory, db
<1>2. lots' = lots BY <1>1
<1>3. RowsPay' BY <1>2 DEF Funds, RowsPay, RowsOK
<1>4. ViewsPay' BY <1>1, <1>2, StoredViewsPay DEF Funds
<1>5. AccountOK'
  <2>1. Replay \in Seq(Slices) BY ReplayFits DEF Funds
  <2> QED BY <1>1, <2>1 DEF Funds, AccountOK
<1>6. Lawful(todo') BY <1>1, LawfulNone
<1>7. Frames' /\ Prices' /\ TopOK' BY <1>6, AfterLawful
<1> QED BY <1>3, <1>4, <1>5, <1>7 DEF Funds

\* So are the instructions that wait.
LEMMA FeedsRebuilt == ASSUME Feeds, Dated(pending), Rebuilds PROVE Feeds'
<1>1. /\ hold' = <<>> /\ queue' = StoredPending /\ UNCHANGED pending
  BY DEF Rebuilds, OwnerEnds, Remember, StoredMemory, db
<1>2. Entries(queue')
  <2> PICK rows : rows = StoredPending OBVIOUS
  <2> PICK n : n = Len(pending) OBVIOUS
  <2>1. n \in Nat /\ DOMAIN pending = 1..n /\ Proper(pending) BY ProperDomain DEF Feeds, Entries
  <2>2. rows = [k \in 1..n |-> pending[PendingOrder[k]]] BY <2>1 DEF StoredPending
  <2>3. Lists(PendingOrder, DOMAIN pending) /\ Cardinality(DOMAIN pending) = n
    BY <2>1, PendingInOrder, PlacesFinite
  <2>4. \A k \in 1..n : PendingOrder[k] \in DOMAIN pending BY <2>3 DEF Lists
  <2>5. \A k \in 1..n : rows[k] = pending[PendingOrder[k]] BY <2>2
  <2>6. rows \in [1..n -> ToSet(pending)] BY <2>2, <2>4 DEF ToSet
  <2>7. Proper(rows) /\ DOMAIN rows = 1..n BY <2>1, <2>6, SeqOfFunction, ProperSeq
  <2>8. \A k \in 1..n : rows[k].dep \in Deployments BY <2>4, <2>5 DEF Feeds, Entries
  <2> QED BY <1>1, <2>7, <2>8 DEF Entries
<1>3. MarketOK' BY MarketRebuilt DEF Rebuilds
<1> QED BY <1>1, <1>2, <1>3, EntriesNone DEF Feeds

-----------------------------------------------------------------------------
(* The invariant. *)

\* The moments in the stored instructions.
LEMMA DatedHandler == ASSUME Feeds, Dated(pending), Funds, HandlerStep PROVE Dated(pending')
<1>1. CASE Persist
  <2>1. Doing("persist") /\ "persist" \notin Tight \cup {"exit"} BY <1>1 DEF Persist, Tight
  <2> PICK p : p = Head(todo).p OBVIOUS
  <2>2. Head(todo).do = "persist" /\ Sound(Head(todo)) BY <2>1, LawfulRuns
  <2>3. p.ts \in Int /\ p.created \in Int BY <2>2 DEF Sound
  <2>4. pending' = pending \/ pending' = Append(pending, p) BY <1>1 DEF Persist
  <2>5. Proper(pending) BY DEF Feeds, Entries
  <2> DEFINE more == Append(pending, p)
  <2>6. \A a \in DOMAIN more : more[a] = p \/ (a \in DOMAIN pending /\ more[a] = pending[a])
    <3>1. /\ DOMAIN more = 1..(Len(pending) + 1) /\ more[Len(pending) + 1] = p
          /\ \A i \in DOMAIN pending : more[i] = pending[i]
      BY <2>5, ProperAppend
    <3>2. Len(pending) \in Nat /\ DOMAIN pending = 1..Len(pending) BY <2>5, ProperDomain
    <3> HIDE DEF more
    <3>3. \A a \in DOMAIN more : a \in DOMAIN pending \/ a = Len(pending) + 1 BY <3>1, <3>2
    <3> QED BY <3>1, <3>3
  <2> HIDE DEF more
  <2>7. Dated(more) BY <2>3, <2>6 DEF Dated
  <2> QED BY <2>4, <2>7 DEF more
<1>2. CASE DeletePending
  <2>0. PICK places : places = {i \in DOMAIN pending : pending[i] # Head(todo).p} OBVIOUS
  <2>1. pending' = Only(pending, places) BY <1>2, <2>0 DEF DeletePending
  <2>2. Proper(pending) BY DEF Feeds, Entries
  <2> PICK rest : rest = Only(pending, places) OBVIOUS
  <2>3. \A a \in DOMAIN rest : \E i \in DOMAIN pending : rest[a] = pending[i] BY <2>2, OnlyKeeps
  <2>4. Dated(rest) BY <2>3 DEF Dated
  <2> QED BY <2>1, <2>4
<1>3. CASE Wipe
  <2>1. pending' = <<>> BY <1>3 DEF Wipe
  <2> QED BY <2>1, ProperEmpty DEF Dated
<1>4. CASE \/ Consider \/ FillEntry \/ InsertLot \/ InsertBuy \/ Debit \/ Remark \/ Mark \/ Sweep
           \/ Exit \/ Close \/ InsertSell \/ Credit \/ Settle \/ Ladder
  <2>1. pending' = pending
    BY <1>4 DEF Consider, FillEntry, InsertLot, InsertBuy, Debit, Remark, Mark, Sweep, Exit, Close,
                InsertSell, Credit, Settle, Ladder, db
  <2> QED BY <2>1
<1> QED BY <1>1, <1>2, <1>3, <1>4 DEF HandlerStep

\* The first state is funded.
LEMMA FundsInitially == Init => FundsHold
<1> SUFFICES ASSUME Init PROVE FundsHold OBVIOUS
<1>1. /\ lots = <<>> /\ trades = <<>> /\ pending = <<>> /\ cash = StartingBalance /\ cashView = StartingBalance
      /\ openLots = <<>> /\ fifo = <<>> /\ todo = <<>>
  BY DEF Init
<1>2. RowsPay BY <1>1, ProperEmpty DEF RowsPay, RowsOK
<1>3. ViewsPay BY <1>1, ProperEmpty DEF ViewsPay, Shown
<1>4. AccountOK BY <1>1, ProperEmpty, CostsAreNatural DEF AccountOK
<1>5. ~Doing("lot") /\ ~Doing("buy") /\ ~Doing("debit") /\ ~Doing("close") /\ ~Doing("sell")
      /\ ~Doing("credit") /\ ~Doing("mark")
  BY <1>1 DEF Doing
<1>6. Frames
  <2> PICK s : s = todo OBVIOUS
  <2>1. s = <<>> BY <1>1
  <2>2. Rest(s) /\ ToExit(s) = <<>> /\ Proper(s) BY <2>1, QuietsNone, QuietsRest, ProperEmpty
  <2>3. Loose(s) = s BY <2>1 DEF Loose
  <2>4. LoopOK BY <2>2, <2>3, ProperEmpty DEF LoopOK
  <2>5. FillOK BY <1>5 DEF FillOK
  <2> QED BY <2>2, <2>3, <2>4, <2>5 DEF Frames
<1>7. Prices BY <1>1 DEF Prices
<1>8. TopOK BY <1>5 DEF TopOK
<1>9. Dated(pending) BY <1>1, ProperEmpty DEF Dated
<1>10. Feeds BY FeedsInitially
<1> QED BY <1>2, <1>3, <1>4, <1>6, <1>7, <1>8, <1>9, <1>10 DEF FundsHold, Funds

\* One step, of the process or of what happens to it.
LEMMA FundsStep == FundsHold /\ [Next]_vars /\ ~stale' => FundsHold'
<1> SUFFICES ASSUME FundsHold, [Next]_vars, ~stale' PROVE FundsHold' OBVIOUS
<1>1. Feeds /\ MarketOK /\ Dated(pending) /\ Funds BY DEF FundsHold, Feeds
<1>2. CASE HandlerStep
  <2>1. ASSUME NEW step, Doing(step), step \in {"persist", "consider"} PROVE Quiet(Head(todo))
    <3>1. step \notin Tight \cup {"exit"} BY <2>1 DEF Tight
    <3> QED BY <1>1, <2>1, <3>1, LawfulRuns
  <2>2. Doing("persist") \/ Doing("consider") => Quiet(Head(todo)) BY <2>1
  <2>3. Feeds' BY <1>1, <1>2, <2>2, HandlerFeeds
  <2>4. Funds' BY <1>1, <1>2, HandlerFunds
  <2>5. Dated(pending') BY <1>1, <1>2, DatedHandler
  <2> QED BY <2>3, <2>4, <2>5 DEF FundsHold
<1>3. ASSUME NEW d \in Deployments, OnSignal(d) PROVE FundsHold'
  <2>1. pending' = pending BY <1>3 DEF OnSignal, db
  <2>2. Dated(pending') BY <1>1, <2>1
  <2>3. Feeds' /\ Funds' BY <1>1, <1>3, SignalFeeds, FundsSignal
  <2> QED BY <2>2, <2>3 DEF FundsHold
<1>4. ASSUME NEW d \in Deployments, ReconcileWorkers(d) PROVE FundsHold'
  <2>1. pending' = pending BY <1>4 DEF ReconcileWorkers, db
  <2>2. Dated(pending') BY <1>1, <2>1
  <2>3. Feeds' /\ Funds' BY <1>1, <1>4, WorkerFeeds, FundsBetween
  <2> QED BY <2>2, <2>3 DEF FundsHold
<1>5. ASSUME NEW ch \in Channels, OnCandle(ch) PROVE FundsHold'
  <2>1. pending' = pending BY <1>5 DEF OnCandle, db
  <2>2. Dated(pending') BY <1>1, <2>1
  <2>3. Feeds' /\ Funds' BY <1>1, <1>5, CandleFeeds, FundsCandle
  <2> QED BY <2>2, <2>3 DEF FundsHold
<1>6. ASSUME NEW id \in Ids(openLots), CloseLotManually(id) PROVE FundsHold'
  <2>1. UNCHANGED <<tape, cursor, queue, hold, pending>> BY <1>6 DEF CloseLotManually, memory, world
  <2>2. Feeds' BY <1>1, <2>1 DEF Feeds, MarketOK, FeedLen, Span
  <2>3. Funds' BY <1>1, <1>6, FundsByHand
  <2>4. Dated(pending') BY <1>1, <2>1
  <2> QED BY <2>2, <2>3, <2>4 DEF FundsHold
<1>7. CASE ResetAccount
  <2>1. pending' = <<>> BY <1>7 DEF ResetAccount
  <2>2. Dated(pending') BY <2>1, ProperEmpty DEF Dated
  <2>3. Feeds' /\ Funds' BY <1>1, <1>7, ResetFeeds, FundsBetween
  <2> QED BY <2>2, <2>3 DEF FundsHold
<1>8. CASE PrintBar
  <2>1. pending' = pending BY <1>8 DEF PrintBar, db
  <2>2. Dated(pending') BY <1>1, <2>1
  <2>3. Feeds' /\ Funds' BY <1>1, <1>8, BarFeeds, FundsBetween
  <2> QED BY <2>2, <2>3 DEF FundsHold
<1>9. CASE Crash \/ TakeOver
  <2>1. Rebuilds BY <1>9, OwnersRebuild
  <2>2. pending' = pending BY <2>1 DEF Rebuilds, OwnerEnds, db
  <2>3. Dated(pending') BY <1>1, <2>2
  <2>4. Feeds' /\ Funds' BY <1>1, <2>1, FeedsRebuilt, FundsRebuilt
  <2> QED BY <2>3, <2>4 DEF FundsHold
<1>10. CASE DatabaseError
  <2>1. UNCHANGED <<tape, cursor, queue, hold, pending>> BY <1>10 DEF DatabaseError, memory, db, world
  <2>2. Feeds' BY <1>1, <2>1 DEF Feeds, MarketOK, FeedLen, Span
  <2>3. Dated(pending') BY <1>1, <2>1
  <2>4. Funds' BY <1>1, <1>10, FundsBetween
  <2> QED BY <2>2, <2>3, <2>4 DEF FundsHold
<1>11. CASE StartStandby \/ UNCHANGED vars
  <2>1. UNCHANGED <<tape, cursor, queue, hold, pending>> BY <1>11, OwnerGoesOn DEF memory, db, handler
  <2>2. Feeds' BY <1>1, <2>1 DEF Feeds, MarketOK, FeedLen, Span
  <2>3. Dated(pending') BY <1>1, <2>1
  <2>4. Funds' BY <1>1, <1>11, FundsStutter
  <2> QED BY <2>2, <2>3, <2>4 DEF FundsHold
<1> QED BY <1>2, <1>3, <1>4, <1>5, <1>6, <1>7, <1>8, <1>9, <1>10, <1>11 DEF Next

\* Once a container took over with an older memory, one did.
LEMMA StaleStays ==
  ASSUME stale \in BOOLEAN, [Next]_vars PROVE stale' \in BOOLEAN /\ (stale => stale')
<1>1. CASE HandlerStep
  BY <1>1 DEF HandlerStep, Consider, Persist, FillEntry, DeletePending, InsertLot, InsertBuy, Debit,
              Remark, Mark, Sweep, Exit, Close, InsertSell, Credit, Settle, Ladder, Wipe, world
<1>2. CASE \/ \E d \in Deployments : OnSignal(d) \/ ReconcileWorkers(d)
           \/ \E ch \in Channels : OnCandle(ch)
           \/ \E id \in Ids(openLots) : CloseLotManually(id)
           \/ ResetAccount \/ PrintBar \/ DatabaseError
  BY <1>2 DEF OnSignal, ReconcileWorkers, OnCandle, CloseLotManually, ResetAccount, PrintBar,
              DatabaseError, world
<1>3. CASE Crash \/ TakeOver BY <1>3 DEF Crash, TakeOver
<1>4. CASE StartStandby \/ UNCHANGED vars BY <1>4, OwnerGoesOn
<1> QED BY <1>1, <1>2, <1>3, <1>4 DEF Next

\* Between any two transactions, whatever was cut short before, unless a container took over
\* with an older memory: the account that is checked is the one that is debited, a lot whose
\* order was admitted has its money until it is debited, and every exit brings at least its costs.
THEOREM FundsInvariant == Spec => []FundsInv
<1>1. Init => FundsInv BY FundsInitially DEF Init, FundsInv
<1>2. FundsInv /\ [Next]_vars => FundsInv'
  <2> SUFFICES ASSUME FundsInv, [Next]_vars PROVE FundsInv' OBVIOUS
  <2>1. stale' \in BOOLEAN /\ (stale => stale') BY StaleStays DEF FundsInv
  <2>2. ASSUME ~stale' PROVE FundsHold' BY <2>1, <2>2, FundsStep DEF FundsInv
  <2> QED BY <2>1, <2>2 DEF FundsInv
<1> QED BY <1>1, <1>2, PTL DEF Spec

\* The account is not overdrawn (_fill_entry, accounts.debit), for every configuration and tape,
\* with any number of crashes, database errors, manual closes, resets and take-overs, as long as
\* every container that takes over has the memory that the tables give.
THEOREM NeverOverdrawn == Spec => []NoOverdraft
<1>1. FundsInv => NoOverdraft
  <2> SUFFICES ASSUME FundsInv, ~stale PROVE cash >= 0 BY DEF NoOverdraft
  <2>1. cash \in Nat BY DEF FundsInv, FundsHold, Funds, AccountOK
  <2> QED BY <2>1
<1> QED BY <1>1, FundsInvariant, PTL
=============================================================================
