---------------------------- MODULE PaperBroker ----------------------------
(***************************************************************************)
(* The paper broker of one market (backend/paper_trading/broker.py), one   *)
(* symbol of it, with the repositories it writes and the two workers that  *)
(* feed it candles (backend/signals/workers.py).                           *)
(*                                                                         *)
(* The broker's lock makes its handlers mutually exclusive, but a handler  *)
(* is a long series of database transactions.  `todo' is what the running  *)
(* handler has still to do, a frame for each call or loop; a step makes at *)
(* most one transaction, so a crash or a database error can come between   *)
(* any two.  So can the start of the next container, whose broker reads    *)
(* the tables at once, and its taking over, when its worker gets the lease. *)
(*                                                                         *)
(* Time is counted in base (5m) bars: bar ts starts at ts and is complete  *)
(* when Clock > ts.  A moment (`at') is counted in half bars: 2 * ts is    *)
(* the start of bar ts, an odd moment lies inside a bar, or between two    *)
(* sessions.  Prices, quantities and money are integers; fees and slippage *)
(* are a cost per unit.                                                    *)
(***************************************************************************)
EXTENDS FifoInventory, SequencesExt, FiniteSets

CONSTANTS
    Deployments,      \* strategy deployments of this market on this symbol
    Config,           \* Config[d]: strategy configuration and execution policy
    BarLen,           \* BarLen[tf]: bars of the base feed in one bar of tf
    NSE,              \* TRUE: FIFO matching and one profit exit per candle
    Candles,          \* the candles the market may print
    StartingBalance, Slippage, UnitFee,
    DayBars,          \* base bars in one session
    MaxBars,          \* bound: bars printed
    MaxSignals,       \* bound: signals published
    HandOvers,        \* TRUE: containers are replaced while the old one runs
    MaxRestarts,      \* bound: worker rebuilds, process restarts and take-overs
    MaxTorn,          \* bound: handlers cut short by a crash or an error
    MaxManual,        \* bound: manual closes
    MaxResets         \* bound: account resets

ASSUME NSEIsBoolean == NSE \in BOOLEAN /\ HandOvers \in BOOLEAN
ASSUME CandlesAreCandles == \A k \in Candles :
    /\ {k.o, k.h, k.l, k.c} \subseteq Int
    /\ k.l > 0 /\ k.l <= Min({k.o, k.c}) /\ Max({k.o, k.c}) <= k.h
\* ExecutionPolicy.validate and PriceBandLadder.from_config: quantities are positive,
\* and both bands of a ladder have a quantity for each of its lots.
ASSUME ConfigsAreValid == \A d \in Deployments :
    LET cfg == Config[d]
    IN  /\ cfg.high \in Seq(Nat \ {0}) /\ cfg.low \in Seq(Nat \ {0})
        /\ {cfg.maxEntries, BarLen[cfg.tf]} \subseteq Nat \ {0} /\ {cfg.targetPct, cfg.stopPct} \subseteq Nat
        /\ IF cfg.ladder THEN Len(cfg.low) = Len(cfg.high) ELSE cfg.maxEntries <= Len(cfg.low)
\* A sale brings more than it costs. In the code all costs but the fixed fee of an NSE
\* order are fractions of the price.
ASSUME SalesPay == \A k \in Candles : Slippage + UnitFee <= k.l
ASSUME CostsAreNatural == {StartingBalance, Slippage, UnitFee} \subseteq Nat
ASSUME DaysHaveBars == DayBars \in Nat \ {0}
ASSUME BoundsAreNatural ==
    {MaxBars, MaxSignals, MaxRestarts, MaxTorn, MaxManual, MaxResets} \subseteq Nat

VARIABLES
    orders, lots, trades, cash, pending,   \* the database
    openLots, queue, fifo, cashView,       \* the broker's memory of it
    todo, hold, exited,                    \* the handler that runs, if any
    tape, cursor, published, enabled,      \* market, feeds, deployments
    standby,                               \* the memory of the container that waits, if any
    stale,                                 \* one once took over with an older memory
    restarts, torn, manual, resets         \* counters for the bounds

db == <<orders, lots, trades, cash, pending>>
memory == <<openLots, queue, fifo, cashView>>
handler == <<todo, hold, exited>>
world == <<tape, cursor, published, enabled, standby, stale>>
counters == <<restarts, torn, manual, resets>>
vars == <<db, memory, handler, world, counters>>
-----------------------------------------------------------------------------
Market == "market"
ASSUME MarketIsNoDeployment == Market \notin Deployments
NoSignal == <<>>                       \* signalId of a ladder entry: NULL
Clock == Len(tape)
Day(at) == at \div (2 * DayBars)
Idle == todo = <<>>

\* Now falls after bar Clock - 1: before the open of the next session when the
\* last bar closed one, inside bar Clock otherwise.
Now == IF Clock % DayBars = 0 THEN 2 * Clock - 1 ELSE 2 * Clock + 1

\* The feeds.  Each intraday deployment has a worker that forwards the candles
\* of its timeframe; the worker of the daily one forwards every base candle.
Daily == {d \in Deployments : Config[d].tf = "1d"}
Channels == (Deployments \ Daily) \cup {Market : d \in Daily}

BarAt(ts, len) ==
    LET bars == (ts + 1)..(ts + len)
    IN  [ts |-> ts, o |-> tape[ts + 1].o, c |-> tape[ts + len].c,
         h |-> Max({tape[i].h : i \in bars}), l |-> Min({tape[i].l : i \in bars})]

\* What the memory keeps of an open lot besides its immutable row.
View(i, row) == [id |-> i, target |-> row.target, cost |-> row.cost,
                 unreal |-> row.unreal, last |-> row.last]

\* The members of a list that are at the places given, in their order.
Only(list, places) ==
    LET kept[n \in 0..Len(list)] ==
            IF n = 0 THEN <<>>
            ELSE IF n \in places THEN Append(kept[n - 1], list[n]) ELSE kept[n - 1]
    IN  kept[Len(list)]

LotsFor(d) == Only(openLots, {i \in DOMAIN openLots : lots[openLots[i].id].dep = d})
Hears(ch, d) == ch # Market => Config[d].tf = Config[ch].tf
InScope(ch) == Only(openLots, {i \in DOMAIN openLots : Hears(ch, lots[openLots[i].id].dep)})
CycleLots(cycle) == {i \in DOMAIN lots : lots[i].cycle = cycle}

EntryCycleAgain(d) == IF LotsFor(d) # <<>>
                      THEN lots[LotsFor(d)[1].id].cycle
                      ELSE Max({1} \cup {lots[i].cycle : i \in DOMAIN lots})

\* A lot joins the open cycle of its deployment or starts the next one.
EntryCycle(d) == IF LotsFor(d) # <<>>
                 THEN lots[LotsFor(d)[1].id].cycle
                 ELSE 1 + Max({0} \cup {lots[i].cycle : i \in DOMAIN lots})

EntryNumber(d) == IF LotsFor(d) # <<>>
                  THEN Max({lots[i].num : i \in CycleLots(EntryCycle(d))})
                  ELSE 0
MaximumEntries(cfg) == IF cfg.ladder THEN Min({cfg.maxEntries, Len(cfg.high)})
                                     ELSE cfg.maxEntries
NumberedLot(cycle, n) == CHOOSE i \in CycleLots(cycle) : lots[i].num = n

AcquisitionCostOfLot(id) == lots[id].entryPrice * lots[id].qty

BuyPrice(ref) == ref + Slippage
SellPrice(raw) == raw - Slippage
EntryCost(price, qty) == (price + UnitFee) * qty
ExitProceeds(price, qty) == (price - UnitFee) * qty

\* The quantity of lot n + 1 of a cycle; a ladder's band is fixed by the
\* first fill of the cycle.
LotQuantity(d, n, ref) ==
    LET cfg == Config[d]
        numbers == {lots[i].num : i \in CycleLots(EntryCycle(d))}
        firstPrice == IF LotsFor(d) = <<>> THEN BuyPrice(ref)
                      ELSE lots[NumberedLot(EntryCycle(d), Min(numbers))].entryPrice
    IN  IF cfg.ladder /\ NSE /\ firstPrice >= cfg.threshold
        THEN cfg.high[n + 1] ELSE cfg.low[n + 1]

DipReached(cfg, price, lastEntry) == price * 100 <= lastEntry * (100 - cfg.dipPct)

\* A stored pending row carries no signal source, so it counts as OPENDELTA.
EntryAllowed(d, source) == enabled[d] /\ Config[d].source = source
-----------------------------------------------------------------------------
(***************************************************************************)
(* _fill_entry: the checks that turn an instruction into a rejected order. *)
(***************************************************************************)
SumViews(f(_)) == Total([i \in DOMAIN openLots |-> f(openLots[i])])

PortfolioRejection(cfg, cost, ts, opensNew) ==
    LET positions == {lots[v.id].dep : v \in ToSet(openLots)}
        exposure == SumViews(LAMBDA v : v.cost)
        buysToday == {i \in DOMAIN trades :
                        trades[i].side = "BUY" /\ Day(trades[i].at) = Day(2 * ts)}
        exitsToday == {i \in DOMAIN lots :
                        lots[i].status # "OPEN" /\ Day(lots[i].exitAt) = Day(2 * ts)}
        realized == MapThenSumSet(LAMBDA i : lots[i].pnl, exitsToday)
    IN  \/ opensNew /\ Cardinality(positions) >= cfg.maxPositions
        \/ (exposure + cost) * 100 > StartingBalance * cfg.exposurePct
        \/ Cardinality(buysToday) >= cfg.maxDailyTrades
        \/ (realized + SumViews(LAMBDA v : v.unreal)) * 100
              <= - StartingBalance * cfg.lossPct

UnaffordableAtStart(cost) == cost > StartingBalance
Unaffordable(cost) == cost > cashView

Rejected(p, ref, ts) ==
    LET cfg == Config[p.dep]
        n == EntryNumber(p.dep)
        price == BuyPrice(ref)
        qty == LotQuantity(p.dep, n, ref)
        held == LotsFor(p.dep)
        capital == IF NSE THEN Cost(fifo)
                   ELSE Total([i \in DOMAIN held |-> AcquisitionCostOfLot(held[i].id)])
    IN  \/ held # <<>> /\ ~cfg.more
        \/ n >= MaximumEntries(cfg)
        \/ /\ cfg.ladder /\ n > 0
           /\ ~DipReached(cfg, p.price,
                          lots[NumberedLot(EntryCycle(p.dep), n)].entryPrice)
        \/ cfg.ladder /\ capital + price * qty > cfg.capital
        \/ Unaffordable(EntryCost(price, qty))
        \/ PortfolioRejection(cfg, EntryCost(price, qty), ts, held = <<>>)

\* The row lots.insert() stores for a filled order; it is marked right after.
NewLot(p, ref, ts) ==
    LET cfg == Config[p.dep]
        price == BuyPrice(ref)
        qty == LotQuantity(p.dep, EntryNumber(p.dep), ref)
    IN  [sig |-> p.sig, dep |-> p.dep, cycle |-> EntryCycle(p.dep), num |-> EntryNumber(p.dep) + 1,
         entryTs |-> ts, entryPrice |-> price, qty |-> qty,
         target |-> CeilDiv(price * (100 + cfg.targetPct), 100),
         stop |-> IF cfg.stopPct = 0 THEN 0 ELSE (price * (100 - cfg.stopPct)) \div 100,
         expires |-> IF cfg.holdBars = 0 THEN 0 ELSE ts + cfg.holdBars * BarLen[cfg.tf],
         status |-> "OPEN", exitAt |-> -1, pnl |-> 0,
         cost |-> price * qty, unreal |-> - UnitFee * qty, last |-> price]

-----------------------------------------------------------------------------
(***************************************************************************)
(* The steps of a handler.  Doing(step) is the guard of the step that is   *)
(* next; Then(frames) says what replaces its frame.  A loop's frame holds  *)
(* the items that are left.                                                *)
(***************************************************************************)
Doing(step) == todo # <<>> /\ Head(todo).do = step
Then(frames) == todo' = frames \o Tail(todo)
Raise == todo' = <<>>              \* the exception leaves the handler

Step(name, id) == [do |-> name, id |-> id]
Loop(frame, items) == IF items = <<>> THEN <<>> ELSE <<[frame EXCEPT !.left = items]>>
Item == Head(Head(todo).left)
Others == Loop(Head(todo), Tail(Head(todo).left))

\* on_signal and _queue_ladder_entry -> _persist_pending_entry: the unique
\* indexes admit one row per signal and one per ladder lot of a cycle.
PendingConflict(p) == \E q \in ToSet(pending) :
    IF p.sig # NoSignal THEN q.sig = p.sig
    ELSE q.sig = NoSignal /\ q.cycle = p.cycle /\ q.num = p.num

Persist ==
    /\ Doing("persist")
    /\ LET p == Head(todo).p
       IN  IF PendingConflict(p) THEN UNCHANGED <<pending, queue>>
           ELSE pending' = Append(pending, p) /\ queue' = Append(queue, p)
    /\ Then(<<>>)
    /\ UNCHANGED <<orders, lots, trades, cash, openLots, fifo, cashView,
                   hold, exited, world, counters>>

\* The pending loop of _process_market_candle.  A strategy-timeframe candle
\* only needs to follow the signal's candle; a market candle must also have
\* opened after the instruction was created.
Executable(p, bar, ch) == bar.ts > p.ts /\ (ch = Market => 2 * bar.ts > p.created)

Consider ==
    /\ Doing("consider")
    /\ LET step == Head(todo)
           fill == [do |-> "fill", p |-> Item, ref |-> step.bar.o, ts |-> step.bar.ts]
           delete == [do |-> "delete", p |-> Item]
           fillable == Hears(step.ch, Item.dep) /\ Executable(Item, step.bar, step.ch)
       IN  \/ /\ ~EntryAllowed(Item.dep, "OPENDELTA")
              /\ Then(<<delete>> \o Others)
              /\ UNCHANGED hold
           \/ /\ EntryAllowed(Item.dep, "OPENDELTA") /\ fillable
              /\ Then(<<fill, delete>> \o Others)
              /\ UNCHANGED hold
           \/ /\ EntryAllowed(Item.dep, "OPENDELTA") /\ ~fillable
              /\ Then(Others)
              /\ hold' = Append(hold, Item)
    /\ UNCHANGED <<db, memory, exited, world, counters>>

DeletePending ==
    /\ Doing("delete")
    /\ pending' = Only(pending, {i \in DOMAIN pending : pending[i] # Head(todo).p})
    /\ Then(<<>>)
    /\ UNCHANGED <<orders, lots, trades, cash, memory, hold, exited, world, counters>>

\* paper_orders_one_per_signal: orders.insert() returns None on a conflict.
OrderConflictUnchecked(sig) == FALSE
OrderConflict(sig) == \E o \in ToSet(orders) :
    sig # NoSignal /\ o.sig = sig /\ o.status = "FILLED"

FillEntry ==
    /\ Doing("fill")
    /\ LET step == Head(todo)
           order(status) == [sig |-> step.p.sig, status |-> status]
           lot == NewLot(step.p, step.ref, step.ts)
       IN  IF Rejected(step.p, step.ref, step.ts)
           THEN orders' = Append(orders, order("REJECTED")) /\ Then(<<>>)
           ELSE IF OrderConflict(step.p.sig)
           THEN Then(<<>>) /\ UNCHANGED orders
           ELSE /\ orders' = Append(orders, order("FILLED"))
                /\ Then(<<[do |-> "lot", lot |-> lot]>>)
    /\ UNCHANGED <<lots, trades, cash, pending, memory, hold, exited, world, counters>>

InsertLot ==
    /\ Doing("lot")
    /\ lots' = Append(lots, Head(todo).lot)
    /\ Then(<<Step("buy", Len(lots) + 1)>>)
    /\ UNCHANGED <<orders, trades, cash, pending, memory, hold, exited, world, counters>>

InsertBuy ==
    /\ Doing("buy")
    /\ LET id == Head(todo).id
           lot == lots[id]
       IN  /\ trades' = Append(trades, [lot |-> id, side |-> "BUY", qty |-> lot.qty,
                                        price |-> lot.entryPrice, at |-> 2 * lot.entryTs])
           /\ fifo' = IF NSE THEN Add(fifo, id, lot.entryPrice, lot.qty) ELSE fifo
           /\ Then(<<Step("debit", id)>>)
    /\ UNCHANGED <<orders, lots, cash, pending, openLots, queue, cashView,
                   hold, exited, world, counters>>

Debit ==
    /\ Doing("debit")
    /\ LET id == Head(todo).id
           lot == lots[id]
       IN  /\ cash' = cash - EntryCost(lot.entryPrice, lot.qty)
           /\ cashView' = cash'
           /\ openLots' = Append(openLots, View(id, lot))
           /\ Then(<<[do |-> "remark", close |-> lot.entryPrice]>>)
    /\ UNCHANGED <<orders, lots, trades, pending, queue, fifo, hold, exited, world, counters>>

(***************************************************************************)
(* _mark_open_lots.  Every open lot is previewed against the front of the  *)
(* FIFO queue before the first row is written; preview raises when a lot   *)
(* is larger than the queue.                                               *)
(***************************************************************************)
Precedes(i, j) == \/ lots[i].entryTs < lots[j].entryTs
                  \/ lots[i].entryTs = lots[j].entryTs /\ lots[i].num < lots[j].num
                  \/ /\ lots[i].entryTs = lots[j].entryTs /\ lots[i].num = lots[j].num
                     /\ i < j
\* Ids in an order without ties: the k-th has k - 1 others before it.
Ranked(ids, Before(_, _)) ==
    [k \in 1..Cardinality(ids) |->
        CHOOSE i \in ids : Cardinality({j \in ids : Before(j, i)}) = k - 1]

InOrder(ids) == Ranked(ids, Precedes)
Ids(views) == {v.id : v \in ToSet(views)}

AcquisitionCost(id) == IF NSE THEN MatchCost(fifo, lots[id].qty)
                       ELSE AcquisitionCostOfLot(id)

\* The marks for the lots ids, then the frames after them; or the exception.
MarkThen(ids, close, frames) ==
    IF NSE /\ \E i \in ids : ~CanConsume(fifo, lots[i].qty)
    THEN Raise
    ELSE Then(Loop([do |-> "mark", left |-> <<>>, close |-> close], InOrder(ids)) \o frames)

Remark ==
    /\ Doing("remark")
    /\ MarkThen(Ids(openLots), Head(todo).close, <<>>)
    /\ UNCHANGED <<db, memory, hold, exited, world, counters>>

\* lots.mark() touches the row only while it is OPEN.
MarkRowPrice(id, cost, target, unreal, last) ==
    lots' = [lots EXCEPT ![id].unreal = unreal, ![id].last = last]

MarkRow(id, cost, target, unreal, last) ==
    lots' = IF lots[id].status # "OPEN" THEN lots
            ELSE [lots EXCEPT ![id] = [@ EXCEPT !.cost = cost, !.target = target,
                                                !.unreal = unreal, !.last = last]]

ViewOf(id) == CHOOSE v \in ToSet(openLots) : v.id = id

Mark ==
    /\ Doing("mark")
    /\ LET id == Item
           close == Head(todo).close
           qty == lots[id].qty
           cost == AcquisitionCost(id)
           target == IF NSE
                     THEN NetProfitTarget(cost + UnitFee * qty, qty,
                                          Config[lots[id].dep].targetPct,
                                          Slippage + UnitFee)
                     ELSE ViewOf(id).target
           unreal == (close - UnitFee) * qty - cost
           view == [id |-> id, target |-> target, cost |-> cost,
                    unreal |-> unreal, last |-> close]
       IN  /\ MarkRow(id, cost, target, unreal, close)
           /\ openLots' = [i \in DOMAIN openLots |->
                             IF openLots[i].id = id THEN view ELSE openLots[i]]
    /\ Then(Others)
    /\ UNCHANGED <<orders, trades, cash, pending, queue, fifo, cashView,
                   hold, exited, world, counters>>
-----------------------------------------------------------------------------
(***************************************************************************)
(* The exit loop of _process_market_candle, after the pending loop.        *)
(***************************************************************************)
ForgetDeferred == queue' = <<>> /\ hold' = <<>>
KeepDeferred == queue' = hold /\ hold' = <<>>

Sweep ==
    /\ Doing("sweep")
    /\ KeepDeferred
    /\ exited' = FALSE
    /\ LET bar == Head(todo).bar
           ch == Head(todo).ch
       IN  Then(Loop([do |-> "exit", left |-> <<>>, bar |-> bar], InScope(ch))
                \o <<[do |-> "settle", bar |-> bar, ch |-> ch]>>)
    /\ UNCHANGED <<db, openLots, fifo, cashView, world, counters>>

\* Stop before target before expiry; a second profit exit waits for the next
\* candle.
ExitStatusUnpaced(id, bar) ==
    LET lot == lots[id]
    IN  IF lot.entryTs >= bar.ts THEN "OPEN"
        ELSE IF lot.stop # 0 /\ bar.l <= lot.stop THEN "STOPPED"
        ELSE IF bar.h >= ViewOf(id).target THEN "TARGET_HIT"
        ELSE IF lot.expires # 0 /\ bar.ts >= lot.expires THEN "EXPIRED" ELSE "OPEN"

ExitStatus(id, bar) ==
    LET lot == lots[id]
    IN  IF lot.entryTs >= bar.ts THEN "OPEN"
        ELSE IF lot.stop # 0 /\ bar.l <= lot.stop THEN "STOPPED"
        ELSE IF bar.h >= ViewOf(id).target /\ ~exited THEN "TARGET_HIT"
        ELSE IF lot.expires # 0 /\ bar.ts >= lot.expires THEN "EXPIRED" ELSE "OPEN"

ExitPrice(id, bar, status) == CASE status = "STOPPED" -> lots[id].stop
                                [] status = "TARGET_HIT" -> ViewOf(id).target
                                [] status = "EXPIRED" -> bar.c

(***************************************************************************)
(* _close_lot: mark the row with the price of the exit, close it, insert   *)
(* the SELL trade, credit the account.  preview raises first when the      *)
(* queue is too short.                                                     *)
(***************************************************************************)
BeginClose(id, status, raw, at) ==
    LET cost == AcquisitionCost(id)
        close == [do |-> "close", id |-> id, status |-> status,
                  raw |-> raw, at |-> at, cost |-> cost]
    IN  IF NSE /\ ~CanConsume(fifo, lots[id].qty)
        THEN Raise /\ UNCHANGED lots
        ELSE /\ MarkRow(id, cost, ViewOf(id).target, 0, raw)
             /\ Then(<<close>> \o Others)

Exit ==
    /\ Doing("exit")
    /\ LET id == Item.id
           bar == Head(todo).bar
           status == ExitStatus(id, bar)
       IN  \/ /\ status = "OPEN"
              /\ Then(Others)
              /\ UNCHANGED <<lots, exited>>
           \/ /\ status # "OPEN"
              /\ BeginClose(id, status, ExitPrice(id, bar, status), 2 * bar.ts)
              /\ exited' = NSE
    /\ UNCHANGED <<orders, trades, cash, pending, memory, hold, world, counters>>

Close ==
    /\ Doing("close")
    /\ LET step == Head(todo)
           lot == lots[step.id]
           price == SellPrice(step.raw)
           pnl == (price - 2 * UnitFee) * lot.qty - step.cost
       IN  /\ lots' = IF lot.status # "OPEN" THEN lots
                      ELSE [lots EXCEPT ![step.id] =
                               [@ EXCEPT !.status = step.status, !.exitAt = step.at,
                                         !.cost = step.cost, !.pnl = pnl,
                                         !.unreal = 0, !.last = price]]
           /\ Then(<<[do |-> "sell", id |-> step.id, price |-> price, at |-> step.at]>>)
    /\ UNCHANGED <<orders, trades, cash, pending, memory, hold, exited, world, counters>>

InsertSell ==
    /\ Doing("sell")
    /\ LET step == Head(todo)
           qty == lots[step.id].qty
       IN  /\ trades' = Append(trades, [lot |-> step.id, side |-> "SELL", qty |-> qty,
                                        price |-> step.price, at |-> step.at])
           /\ fifo' = IF NSE THEN Consume(fifo, qty) ELSE fifo
           /\ Then(<<[do |-> "credit", id |-> step.id, price |-> step.price]>>)
    /\ UNCHANGED <<orders, lots, cash, pending, openLots, queue, cashView,
                   hold, exited, world, counters>>

Credit ==
    /\ Doing("credit")
    /\ LET step == Head(todo)
       IN  /\ cash' = cash + ExitProceeds(step.price, lots[step.id].qty)
           /\ cashView' = cash'
           /\ openLots' = Only(openLots, {i \in DOMAIN openLots : openLots[i].id # step.id})
    /\ Then(<<>>)
    /\ UNCHANGED <<orders, lots, trades, pending, queue, fifo, hold, exited, world, counters>>

\* The deployments of some lots, each once, in the order of the lots.
DeploymentsOf(views) ==
    FoldLeft(LAMBDA seen, v : IF lots[v.id].dep \in ToSet(seen) THEN seen
                              ELSE Append(seen, lots[v.id].dep),
             <<>>, views)

\* The lots that stay are marked at the close and their ladders looked at, in
\* the order of the lots.
Settle ==
    /\ Doing("settle")
    /\ LET step == Head(todo)
           remaining == InScope(step.ch)
       IN  MarkThen(Ids(remaining), step.bar.c,
                    Loop([do |-> "ladder", left |-> <<>>, bar |-> step.bar],
                         DeploymentsOf(remaining)))
    /\ UNCHANGED <<db, memory, hold, exited, world, counters>>

\* _queue_ladder_entry: the next lot of a cycle waits for a dip below the last.
LadderDue(d, close) ==
    LET cfg == Config[d]
        cycle == EntryCycle(d)
        n == EntryNumber(d)
    IN  /\ LotsFor(d) # <<>>
        /\ \A q \in ToSet(queue) : q.dep # d
        /\ cfg.more /\ cfg.ladder
        /\ n < MaximumEntries(cfg)
        /\ DipReached(cfg, close, lots[NumberedLot(cycle, n)].entryPrice)
        /\ EntryAllowed(d, "OPENDELTA")

Ladder ==
    /\ Doing("ladder")
    /\ LET d == Item
           bar == Head(todo).bar
           p == [sig |-> NoSignal, dep |-> d, ts |-> bar.ts, price |-> bar.c,
                 created |-> Now, cycle |-> EntryCycle(d), num |-> EntryNumber(d) + 1]
       IN  IF LadderDue(d, bar.c) THEN Then(<<[do |-> "persist", p |-> p]>> \o Others)
                                  ELSE Then(Others)
    /\ UNCHANGED <<db, memory, hold, exited, world, counters>>
-----------------------------------------------------------------------------
(***************************************************************************)
(* The handlers.  Each starts when the lock is free.                       *)
(***************************************************************************)
Span(d) == BarLen[Config[d].tf]
LatestBar(d) == (Clock \div Span(d)) * Span(d) - Span(d)   \* last complete bar of d

\* The worker of d evaluates a completed bar before it forwards it, once.  The
\* daily worker does so after the close, when it has forwarded the base bars of
\* the day.  A TradingView alert has no such order.
Evaluated(d, ts) ==
    /\ cursor[d] < ts
    /\ d \in Daily => /\ Clock % DayBars = 0
                      /\ openLots # <<>> \/ queue # <<>> => cursor[Market] = Clock - 1

\* on_signal: SignalEngine.publish or the TradingView gateway hands a stored
\* BUY signal to the broker.  Inside a ladder's cycle only dips add lots.
OnSignal(d) ==
    LET cfg == Config[d]
        ts == LatestBar(d)
        sig == <<d, ts>>
        p == [sig |-> sig, dep |-> d, ts |-> ts, price |-> tape[ts + Span(d)].c,
              created |-> Now, cycle |-> 0, num |-> 0]
    IN  /\ Idle /\ ts >= 0
        /\ sig \notin published /\ Cardinality(published) < MaxSignals
        /\ cfg.source = "OPENDELTA" => Evaluated(d, ts)
        /\ EntryAllowed(d, cfg.source)
        /\ published' = published \cup {sig}
        /\ cursor' = IF d \in Daily THEN [cursor EXCEPT ![d] = ts] ELSE cursor
        /\ \/ /\ LotsFor(d) # <<>> /\ cfg.ladder
              /\ UNCHANGED todo
           \/ /\ ~(LotsFor(d) # <<>> /\ cfg.ladder) /\ cfg.nextOpen
              /\ todo' = <<[do |-> "persist", p |-> p]>>
           \/ /\ ~(LotsFor(d) # <<>> /\ cfg.ladder) /\ ~cfg.nextOpen
              /\ todo' = <<[do |-> "fill", p |-> p, ref |-> p.price, ts |-> ts]>>
        /\ UNCHANGED <<db, memory, hold, exited, tape, enabled, standby, stale, counters>>

\* The next candle of a feed: market candles are those of the current session,
\* forwarded while the broker tracks the symbol.
NextTs(ch) == IF ch = Market
              THEN Max({cursor[Market] + 1, ((Clock - 1) \div DayBars) * DayBars})
              ELSE cursor[ch] + Span(ch)
FeedLen(ch) == IF ch = Market THEN 1 ELSE Span(ch)
Tracked(ch) == ch = Market => openLots # <<>> \/ queue # <<>>

OnCandle(ch) ==
    LET ts == NextTs(ch)
        bar == BarAt(ts, FeedLen(ch))
        consider == [do |-> "consider", left |-> <<>>, bar |-> bar, ch |-> ch]
    IN  /\ Idle /\ Tracked(ch)
        /\ ts + FeedLen(ch) <= Clock
        /\ cursor' = [cursor EXCEPT ![ch] = ts]
        /\ todo' = Loop(consider, queue) \o <<[do |-> "sweep", bar |-> bar, ch |-> ch]>>
        /\ queue' = <<>>
        /\ hold' = <<>>
        /\ UNCHANGED <<db, openLots, fifo, cashView, exited, tape, published, enabled,
                       standby, stale, counters>>

\* close_lot_manually: sold at the last mark, then the others are marked.
CloseLotManually(id) ==
    LET price == ViewOf(id).last
    IN  /\ Idle /\ manual < MaxManual
        /\ manual' = manual + 1
        /\ IF NSE /\ ~CanConsume(fifo, lots[id].qty)
           THEN UNCHANGED <<lots, todo>>
           ELSE /\ MarkRow(id, AcquisitionCost(id), ViewOf(id).target, 0, price)
                /\ todo' = <<[do |-> "close", id |-> id, status |-> "CLOSED",
                              raw |-> price, at |-> Now, cost |-> AcquisitionCost(id)],
                             [do |-> "remark", close |-> price]>>
        /\ UNCHANGED <<orders, trades, cash, pending, memory, hold, exited, world,
                       restarts, torn, resets>>

\* reset: pending.clear(), then one transaction that wipes the account.  (Bound: not
\* while another container waits.)
ResetAccount ==
    /\ Idle /\ resets < MaxResets /\ standby = {}
    /\ resets' = resets + 1
    /\ pending' = <<>>
    /\ todo' = <<[do |-> "wipe"]>>
    /\ UNCHANGED <<orders, lots, trades, cash, memory, hold, exited, world,
                   restarts, torn, manual>>

Wipe ==
    /\ Doing("wipe")
    /\ orders' = <<>> /\ lots' = <<>> /\ trades' = <<>> /\ pending' = <<>>
    /\ cash' = StartingBalance
    /\ openLots' = <<>> /\ queue' = <<>> /\ fifo' = <<>>
    /\ cashView' = StartingBalance
    /\ Then(<<>>)
    /\ UNCHANGED <<hold, exited, world, counters>>
-----------------------------------------------------------------------------
(***************************************************************************)
(* The environment: the market, a settings change, a crash, an error.      *)
(***************************************************************************)
PrintBar ==
    /\ Idle /\ Clock < MaxBars
    /\ \E k \in Candles : tape' = Append(tape, k)
    /\ UNCHANGED <<db, memory, handler, cursor, published, enabled, standby, stale, counters>>

\* A worker that starts knows no market candle of the session and takes every
\* complete bar of its timeframe as history.
Resumed(d) == [ch \in DOMAIN cursor |->
                 CASE ch = d -> Max({cursor[d], LatestBar(d)})
                   [] ch = Market /\ d \in Daily -> -1
                   [] OTHER -> cursor[ch]]

\* reconcile_signal_workers after a deployment's mode was saved: its worker is
\* stopped and built again.
ReconcileWorkers(d) ==
    /\ Idle /\ restarts < MaxRestarts
    /\ restarts' = restarts + 1
    /\ enabled' = [enabled EXCEPT ![d] = ~@]
    /\ cursor' = Resumed(d)
    /\ UNCHANGED <<db, memory, handler, tape, published, standby, stale, torn, manual, resets>>

\* _load_fifo_inventories: the trades in the order they were executed.
MadeBefore(i, j) == trades[i].at < trades[j].at \/ (trades[i].at = trades[j].at /\ i < j)
ReplayOrder == Ranked(DOMAIN trades, MadeBefore)

Replay ==
    LET order == ReplayOrder
        slices[n \in 0..Len(trades)] ==
            IF n = 0 THEN <<>>
            ELSE LET t == trades[order[n]]
                 IN  IF t.side = "BUY" THEN Add(slices[n - 1], t.lot, t.price, t.qty)
                     ELSE Consume(slices[n - 1], t.qty)
    IN  IF NSE THEN slices[Len(trades)] ELSE <<>>

\* _rebuild_portfolio: the rows as lots.open() and pending.list() return them.
StoredLots == LET order == InOrder({i \in DOMAIN lots : lots[i].status = "OPEN"})
              IN  [k \in DOMAIN order |-> View(order[k], lots[order[k]])]
HeardBefore(i, j) ==
    \/ pending[i].ts < pending[j].ts
    \/ pending[i].ts = pending[j].ts /\ pending[i].created < pending[j].created
    \/ /\ pending[i].ts = pending[j].ts
       /\ pending[i].created = pending[j].created /\ i < j
PendingOrder == Ranked(DOMAIN pending, HeardBefore)
StoredPending == [k \in DOMAIN pending |-> pending[PendingOrder[k]]]

StoredMemory == [openLots |-> StoredLots, queue |-> StoredPending, fifo |-> Replay, cashView |-> cash]

\* The process that owns the market ends, between any two steps; the next owner has a
\* memory of its own and takes the bars that are complete as history.
OwnerEnds ==
    /\ restarts < MaxRestarts
    /\ restarts' = restarts + 1
    /\ Idle \/ torn < MaxTorn
    /\ torn' = IF Idle THEN torn ELSE torn + 1
    /\ todo' = <<>> /\ hold' = <<>> /\ exited' = FALSE
    /\ cursor' = [ch \in DOMAIN cursor |->
                     IF ch = Market THEN -1 ELSE Max({cursor[ch], LatestBar(ch)})]
    /\ UNCHANGED <<db, tape, published, enabled, manual, resets>>

Remember(image) ==
    /\ openLots' = image.openLots /\ queue' = image.queue
    /\ fifo' = image.fifo /\ cashView' = image.cashView

\* The process dies and starts again.
Crash == OwnerEnds /\ Remember(StoredMemory) /\ UNCHANGED <<standby, stale>>

\* reconcile_signal_workers of the next container: its broker reads the tables before
\* its worker asks for the lease.
StartStandby ==
    /\ HandOvers /\ standby = {} /\ restarts < MaxRestarts /\ ~Doing("wipe")
    /\ standby' = {StoredMemory}
    /\ UNCHANGED <<db, memory, handler, tape, cursor, published, enabled, stale, counters>>

\* Its worker gets the lease.  run and recover rebuild the candle histories and leave
\* the broker as it was built.
TakeOver == \E image \in standby :
    /\ OwnerEnds /\ Remember(image)
    /\ standby' = {}
    /\ stale' = (stale \/ image # StoredMemory)

\* A transaction fails: the exception leaves the handler, the lock is freed
\* and the worker goes on with the next candle.
DatabaseError ==
    /\ ~Idle /\ ~Doing("sweep") /\ torn < MaxTorn
    /\ torn' = torn + 1
    /\ Raise
    /\ UNCHANGED <<db, memory, hold, exited, world, restarts, manual, resets>>
-----------------------------------------------------------------------------
Init ==
    /\ orders = <<>> /\ lots = <<>> /\ trades = <<>> /\ pending = <<>>
    /\ cash = StartingBalance /\ cashView = StartingBalance
    /\ openLots = <<>> /\ queue = <<>> /\ fifo = <<>>
    /\ todo = <<>> /\ hold = <<>> /\ exited = FALSE
    /\ tape = <<>> /\ published = {}
    /\ cursor = [ch \in Channels \cup Deployments |->
                    IF ch = Market THEN -1 ELSE - Span(ch)]
    /\ enabled = [d \in Deployments |-> TRUE]
    /\ standby = {} /\ stale = FALSE
    /\ restarts = 0 /\ torn = 0 /\ manual = 0 /\ resets = 0

HandlerStep ==
    \/ Persist \/ Consider \/ DeletePending
    \/ FillEntry \/ InsertLot \/ InsertBuy \/ Debit
    \/ Remark \/ Mark
    \/ Sweep \/ Exit \/ Close \/ InsertSell \/ Credit
    \/ Settle \/ Ladder \/ Wipe

Next ==
    \/ HandlerStep
    \/ \E d \in Deployments : OnSignal(d) \/ ReconcileWorkers(d)
    \/ \E ch \in Channels : OnCandle(ch)
    \/ \E id \in Ids(openLots) : CloseLotManually(id)
    \/ ResetAccount \/ PrintBar \/ Crash \/ DatabaseError
    \/ StartStandby \/ TakeOver

Spec == Init /\ [][Next]_vars
-----------------------------------------------------------------------------
(***************************************************************************)
(* Properties.  Calm: no handler runs, none was ever cut short, and every  *)
(* owner began with the memory that the tables give.                       *)
(***************************************************************************)
Calm == Idle /\ torn = 0 /\ ~stale

Slices == [lot : Nat, price : Nat \ {0}, qty : Nat \ {0}]
Statuses == {"OPEN", "STOPPED", "TARGET_HIT", "EXPIRED", "CLOSED"}

\* The shape of the rows and of the memory; no slice of the FIFO queue is
\* empty and every view has its row.
TypeOK ==
    /\ \A o \in ToSet(orders) : o.status \in {"FILLED", "REJECTED"}
    /\ \A l \in ToSet(lots) : l.status \in Statuses /\ l.qty > 0 /\ l.entryPrice > 0
    /\ \A t \in ToSet(trades) : t.side \in {"BUY", "SELL"} /\ t.lot \in DOMAIN lots
    /\ fifo \in Seq(Slices)
    /\ cash \in Int /\ cashView \in Int
    /\ Ids(openLots) \subseteq DOMAIN lots
    /\ IsInjective([i \in DOMAIN openLots |-> openLots[i].id])
    /\ cursor \in [Channels \cup Deployments -> Int]
    /\ enabled \in [Deployments -> BOOLEAN]

\* The FIFO queue holds exactly the units of the open lots, so that no mark
\* and no exit of an open lot can raise for want of inventory.
InventoryCoversOpenLots == Calm /\ NSE =>
    Quantity(fifo) = SumViews(LAMBDA v : lots[v.id].qty)

TradeFlow(t) == IF t.side = "BUY" THEN - EntryCost(t.price, t.qty)
                                  ELSE ExitProceeds(t.price, t.qty)
InventoryCost == IF NSE THEN Cost(fifo) + UnitFee * Quantity(fifo)
                 ELSE SumViews(LAMBDA v : EntryCost(lots[v.id].entryPrice, lots[v.id].qty))

\* Money is conserved: the account holds its starting balance plus what the
\* trades moved, and cash plus the cost of the inventory is the starting
\* balance plus the profit booked on the closed lots (FIFO cost against lot
\* rows, _fill_entry and _close_lot). So are the units.
LedgerConserved == Calm =>
    /\ cash = StartingBalance
              + Total([i \in DOMAIN trades |-> TradeFlow(trades[i])])
    /\ cash + InventoryCost = StartingBalance
              + Total([i \in DOMAIN lots |-> lots[i].pnl])
    /\ InventoryCoversOpenLots

\* "In-memory view of one paper account, always rebuilt from the database":
\* a restart between two handlers gives the broker the memory it had, down to
\* the order of the lots and of the FIFO slices (instructions may be tried in
\* another order).
MemoryIsRebuildable == Calm =>
    /\ openLots = StoredLots /\ fifo = Replay /\ cashView = cash
    /\ ToSet(queue) = ToSet(StoredPending) /\ Len(queue) = Len(StoredPending)

\* "Only one profit exit is allowed per completed candle" of a timeframe,
\* however many lots reach their targets in it.
OneProfitExitPerCandle == NSE => \A i, j \in DOMAIN lots :
    /\ lots[i].status = "TARGET_HIT" /\ lots[j].status = "TARGET_HIT"
    /\ lots[i].exitAt = lots[j].exitAt
    /\ Config[lots[i].dep].tf = Config[lots[j].dep].tf
    => i = j

\* A lot sold at its target keeps the configured percentage of the FIFO cost
\* it was matched with, after slippage and the fees of both sides.
TargetExitKeepsProfit == NSE => \A l \in ToSet(lots) :
    l.status = "TARGET_HIT"
        => l.pnl * 100 >= Config[l.dep].targetPct * (l.cost + UnitFee * l.qty)

\* What a profit exit promises: its pace and its profit.
ProfitExitsAreSound == OneProfitExitPerCandle /\ TargetExitKeepsProfit

\* The lots of a cycle are numbered 1, 2, ... without a gap or a repetition,
\* up to the policy's maximum, and the open lots of a deployment are all of
\* one cycle.
CyclesAreNumbered == Calm =>
    /\ \A i \in DOMAIN lots :
          LET cycle == CycleLots(lots[i].cycle)
          IN  /\ {lots[j].num : j \in cycle} = 1..Cardinality(cycle)
              /\ Cardinality(cycle) <= MaximumEntries(Config[lots[i].dep])
    /\ \A v, w \in ToSet(openLots) : lots[v.id].dep = lots[w.id].dep
                                        => lots[v.id].cycle = lots[w.id].cycle

\* No stored instruction outlives a candle that its deployment hears and that
\* could have filled it: it was filled, rejected or deleted.
NoStrandedEntry == Calm => \A p \in ToSet(pending), ch \in Channels :
    ~ /\ Hears(ch, p.dep)
      /\ cursor[ch] > p.ts
      /\ ch = Market => 2 * cursor[ch] > p.created

\* A signal opens at most one lot, whatever crashes, errors, restarts and
\* repeated deliveries happen between the order and the deletion of its
\* pending row (the partial unique index on filled orders).
OneLotPerSignal == \A i, j \in DOMAIN lots :
    lots[i].sig = lots[j].sig /\ lots[i].sig # NoSignal => i = j

\* The account is not overdrawn: the balance checked before the order is the one debited
\* after it, also after a crash or an error, unless a container took over with an older
\* memory than the tables (EntriesAreCovered).
NoOverdraft == ~stale => cash >= 0

\* An entry that costs more than the account holds is rejected with INSUFFICIENT_FUNDS
\* (_fill_entry), by every container, since its portfolio is "always rebuilt from the
\* database".
EntriesAreCovered == cash >= 0

\* Trades replayed in execution order never sell more than was bought before,
\* so that the broker can be constructed again from the database, as long as no
\* container took over with an older memory.
ReplayNeverShort ==
    LET units(t) == IF t.side = "BUY" THEN t.qty ELSE - t.qty
    IN  NSE /\ ~stale => \A n \in DOMAIN trades :
                  SumTo([k \in DOMAIN trades |-> units(trades[ReplayOrder[k]])], n) >= 0

=============================================================================
