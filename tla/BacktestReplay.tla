--------------------------- MODULE BacktestReplay ---------------------------
(***************************************************************************)
(* The replay of one symbol by the backtest engine                         *)
(* (backend/backtest/engine.py, _run_symbol), with the trades and metrics  *)
(* it leaves (result_writer.py, metrics.py, BacktestTradeRepository).      *)
(*                                                                         *)
(* A bar is replayed in the order of the code: fill what the previous bar  *)
(* ordered, let every open lot leave, then decide what to order.  Market   *)
(* and plan (the execution settings and the ladder of the strategy) are    *)
(* chosen once.  Prices, quantities and money are whole; slippage and fees *)
(* are a cost per unit, as in PaperBroker.                                 *)
(***************************************************************************)
EXTENDS FifoInventory, SequencesExt, FiniteSets

CONSTANTS
    ReplayPlans,    \* what a request may ask for, see PlanOK
    ReplayCandles,  \* the candles the source may return
    ReplaySlip, ReplayFee,
    ReplayBars,     \* bars of the frame
    ReplayWarmup,   \* how many of them precede the first day asked for
    SessionBars,    \* bars of one session: where a daily signal is projected
    CancelBars      \* CANCEL_CHECK_BARS

PlanOK(p) ==
    /\ p.market \in {"NSE", "CRYPTO"}
    /\ {p.targetPct, p.maxEntries, p.batch} \subseteq Nat \ {0}
    /\ {p.stopPct, p.holdBars, p.dipPct, p.capital, p.threshold} \subseteq Nat
    /\ {p.ladder, p.additional, p.daily} \subseteq BOOLEAN
    /\ p.high \in Seq(Nat \ {0}) /\ p.low \in Seq(Nat \ {0}) /\ Len(p.high) = Len(p.low)
    /\ p.ladder => p.high # <<>> /\ p.dipPct > 0 /\ p.capital > 0
    /\ p.first \in Nat \ {0}
    /\ p.daily => p.market = "NSE"

ASSUME ReplayPlansAreValid == \A p \in ReplayPlans : PlanOK(p)
ASSUME ReplayCandlesAreCandles ==
    /\ ReplayCandles # {} /\ ReplayCandles \subseteq [o : Nat, h : Nat, l : Nat, c : Nat]
    /\ \A k \in ReplayCandles : 0 < k.l /\ k.l <= Min({k.o, k.c}) /\ Max({k.o, k.c}) <= k.h
ASSUME ReplayBoundsAreNatural ==
    {ReplaySlip, ReplayFee, ReplayBars, ReplayWarmup} \subseteq Nat
    /\ {SessionBars, CancelBars} \subseteq Nat \ {0}

VARIABLES
    plan,                       \* the request
    rPhase, bar, barCandle, buy,   \* where the replay is, and the bar it is at
    rLots, slices,              \* open_lots and inventory
    order,                      \* pending: <<>> or <<signal bar, entry number, cycle>>
    cycle, entries,
    firstPrice, lastPrice,      \* of the entries of the cycle; 0: None
    at, rExited, rChanged,      \* the loop over the open lots
    batch, stored, metrics,     \* rows not yet written, backtest_trades in their order, metrics
    entered                     \* history: every lot that was bought

rMarket == <<rPhase, bar, barCandle, buy>>
rBook == <<rLots, slices, order, cycle, entries, firstPrice, lastPrice, entered>>
rLoop == <<at, rExited, rChanged>>
rResults == <<batch, stored, metrics>>
replayVars == <<plan, rMarket, rBook, rLoop, rResults>>
-----------------------------------------------------------------------------
Fifo == plan.market = "NSE"
UnitCosts == ReplaySlip + ReplayFee
MaximumEntries == IF plan.ladder THEN Min({plan.maxEntries, Len(plan.high)}) ELSE plan.maxEntries
Statuses == {"TARGET_HIT", "STOPPED", "EXPIRED", "OPEN"}

\* PriceBandLadder.quantity: the band of the first entry of the cycle decides.
LadderQuantity(n, first) == IF first >= plan.threshold THEN plan.high[n + 1] ELSE plan.low[n + 1]

\* ExecutionSettings.lot_quantity with 50 %, every new lot reduced, minimum 1.
LotQuantity(n) ==
    LET halved[k \in 0..n] == IF k = 0 THEN plan.first ELSE halved[k - 1] \div 2
    IN  Max({1, halved[n]})

DipReached(close) == 100 * close <= lastPrice * (100 - plan.dipPct)

WithinCapital(price, qty) == ~plan.ladder \/ Cost(slices) + price * qty <= plan.capital

\* The bars at which a decision may be BUY: a daily one becomes actionable at
\* the last bar of its session (_project_daily_signals_onto_intraday).
Actionable(b) == plan.daily => b % SessionBars = 0 \/ b = ReplayBars
ExpiryBars == plan.holdBars * (IF plan.daily THEN SessionBars ELSE 1)

\* What the units cost that a sale of the lot is matched to, fees included.
AcquisitionOf(lot, held) == IF Fifo THEN MatchCost(held, lot.qty) + ReplayFee * lot.qty
                            ELSE (lot.price + ReplayFee) * lot.qty

\* _refresh_fifo_targets: each lot as if it were the next one sold.
Retargeted(lots, held) ==
    IF ~Fifo THEN lots
    ELSE [i \in 1..Len(lots) |->
            [lots[i] EXCEPT !.target = NetProfitTarget(AcquisitionOf(lots[i], held), lots[i].qty,
                                                       plan.targetPct, UnitCosts)]]

\* The lot _enter makes of the pending order, at the open of the bar after it.
NewLot(b, open, pos, cyc) ==
    LET price == open + ReplaySlip
        first == IF firstPrice = 0 THEN price ELSE firstPrice
        qty == IF plan.ladder /\ Fifo THEN LadderQuantity(pos, first) ELSE LotQuantity(pos)
    IN  [id |-> <<cyc, pos + 1>>, bar |-> b, price |-> price, qty |-> qty,
         target |-> (price * (100 + plan.targetPct)) \div 100,
         stop |-> IF plan.stopPct = 0 THEN 0 ELSE (price * (100 - plan.stopPct)) \div 100,
         expires |-> IF plan.holdBars = 0 THEN 0 ELSE b + ExpiryBars]
-----------------------------------------------------------------------------
\* The next bar begins: the check for a cancellation found none, and the order
\* of the previous bar is filled at its open, or dropped for want of capital.
NextBar(k, decision) ==
    LET lot == NewLot(bar + 1, k.o, order[2], order[3])
        fill == order # <<>> /\ WithinCapital(lot.price, lot.qty)
        held == Add(slices, lot.id, lot.price, lot.qty)
    IN  /\ rPhase = "next" /\ bar < ReplayBars
        /\ decision => Actionable(bar + 1)
        /\ rPhase' = "exit"
        /\ bar' = bar + 1 /\ barCandle' = k /\ buy' = decision
        /\ order' = <<>>
        /\ slices' = IF fill THEN held ELSE slices
        /\ rLots' = IF fill THEN Retargeted(Append(rLots, lot), held) ELSE rLots
        /\ entered' = IF fill THEN Append(entered, lot) ELSE entered
        /\ entries' = IF order # <<>> /\ ~fill THEN entries - 1 ELSE entries
        /\ firstPrice' = IF fill /\ firstPrice = 0 THEN lot.price ELSE firstPrice
        /\ lastPrice' = IF fill THEN lot.price ELSE lastPrice
        /\ at' = 1 /\ rExited' = FALSE /\ rChanged' = FALSE
        /\ UNCHANGED <<plan, cycle, rResults>>

\* _maybe_exit: the stop before the target, the target before the expiry.
Hit(lot) == IF bar <= lot.bar THEN "NONE"
            ELSE IF lot.stop > 0 /\ barCandle.l <= lot.stop THEN "STOPPED"
            ELSE IF barCandle.h >= lot.target THEN "TARGET_HIT"
            ELSE IF lot.expires > 0 /\ bar >= lot.expires THEN "EXPIRED" ELSE "NONE"

\* A target is not taken on a bar on which the NSE inventory has changed.
ReplayExitStatus(lot) == IF Hit(lot) = "TARGET_HIT" /\ rExited THEN "NONE" ELSE Hit(lot)

ExitPrice(lot, status) == CASE status = "STOPPED" -> lot.stop
                            [] status = "TARGET_HIT" -> lot.target
                            [] OTHER -> barCandle.c

\* _trade_row: cost basis and entry fees of the units matched, and what is left.
TradeRow(lot, status, price) ==
    LET cost == AcquisitionOf(lot, slices)
        proceeds == (price - UnitCosts) * lot.qty
    IN  [lot |-> lot.id, status |-> status, cost |-> cost,
         net |-> IF status = "OPEN" THEN price * lot.qty - cost ELSE proceeds - cost]

\* MetricsAccumulator.add_trade.
Counted(row) ==
    [metrics EXCEPT ![row.status] = @ + 1,
                    !.realized = @ + (IF row.status = "OPEN" THEN 0 ELSE row.net),
                    !.unrealized = @ + (IF row.status = "OPEN" THEN row.net ELSE 0)]

\* insert_many: ON CONFLICT (run_id, lot_id) DO NOTHING.
Written(rows) ==
    LET table[n \in 0..Len(rows)] ==
            IF n = 0 THEN stored
            ELSE IF \E i \in DOMAIN table[n - 1] : table[n - 1][i].lot = rows[n].lot THEN table[n - 1]
            ELSE Append(table[n - 1], rows[n])
    IN  table[Len(rows)]

\* The loop over the open lots: the lot stays, or is sold out of the inventory.
KeepLot ==
    /\ rPhase = "exit" /\ at <= Len(rLots)
    /\ ReplayExitStatus(rLots[at]) = "NONE"
    /\ at' = at + 1
    /\ UNCHANGED <<plan, rMarket, rBook, rExited, rChanged, rResults>>

CloseLot ==
    /\ rPhase = "exit" /\ at <= Len(rLots)
    /\ LET lot == rLots[at]
           status == ReplayExitStatus(lot)
           row == TradeRow(lot, status, ExitPrice(lot, status))
           full == Append(batch, row)
       IN  /\ status # "NONE"
           /\ slices' = IF Fifo THEN Consume(slices, lot.qty) ELSE slices
           /\ rLots' = RemoveAt(rLots, at)
           /\ metrics' = Counted(row)
           /\ batch' = IF Len(full) >= plan.batch THEN <<>> ELSE full
           /\ stored' = IF Len(full) >= plan.batch THEN Written(full) ELSE stored
    /\ rExited' = Fifo
    /\ rChanged' = Fifo
    /\ UNCHANGED <<plan, rMarket, order, cycle, entries, firstPrice, lastPrice, entered, at>>
-----------------------------------------------------------------------------
(* The order a bar leaves for the next one. *)

\* The intraday bars a daily signal is projected onto have no warmup.
InWindow == plan.daily \/ bar > ReplayWarmup

\* Once a ladder is open, dips of completed bars own all further entries.
LadderOrder ==
    /\ plan.ladder /\ rLots # <<>>
    /\ plan.additional /\ entries < MaximumEntries /\ bar < ReplayBars
    /\ lastPrice > 0 /\ DipReached(barCandle.c)

\* A signal starts a cycle when nothing is open, or adds to an open one.
SignalOrder ==
    /\ ~(plan.ladder /\ rLots # <<>>)
    /\ buy
    /\ (rLots = <<>> \/ plan.additional)
    /\ (rLots = <<>> \/ entries < MaximumEntries) /\ bar < ReplayBars

\* A cycle ends when nothing is open.
EntriesKept(flat) == entries
EntriesLeft(flat) == IF flat THEN 0 ELSE entries

EndBar ==
    LET flat == rLots = <<>>
        starts == InWindow /\ buy /\ flat
        number == EntriesLeft(flat)
        here == IF starts THEN cycle + 1 ELSE cycle
    IN  /\ rPhase = "exit" /\ at > Len(rLots)
        /\ rLots' = IF rChanged THEN Retargeted(rLots, slices) ELSE rLots
        /\ firstPrice' = IF flat THEN 0 ELSE firstPrice
        /\ lastPrice' = IF flat THEN 0 ELSE lastPrice
        /\ cycle' = here
        /\ order' = CASE InWindow /\ LadderOrder -> <<bar, number, rLots[1].id[1]>>
                      [] InWindow /\ SignalOrder -> <<bar, number, here>>
                      [] OTHER -> <<>>
        /\ entries' = IF order' = <<>> THEN number ELSE number + 1
        /\ metrics' = IF InWindow /\ buy THEN [metrics EXCEPT !.signals = @ + 1] ELSE metrics
        /\ rPhase' = "next"
        /\ UNCHANGED <<plan, bar, barCandle, buy, slices, entered, rLoop, batch, stored>>

\* After the last bar every open lot becomes an OPEN row, valued at the last
\* close, and what is left of the batch is written.
OpenRows == [i \in 1..Len(rLots) |-> TradeRow(rLots[i], "OPEN", barCandle.c)]
WithOpenRows == [metrics EXCEPT !["OPEN"] = @ + Len(rLots),
                                !.unrealized = @ + Total([i \in DOMAIN rLots |-> OpenRows[i].net])]
LastRows == batch' = <<>> /\ stored' = Written(batch \o OpenRows)

EndReplay ==
    /\ rPhase = "next" /\ bar = ReplayBars
    /\ LastRows
    /\ metrics' = WithOpenRows
    /\ rPhase' = "done"
    /\ UNCHANGED <<plan, bar, barCandle, buy, rBook, rLoop>>

\* BacktestCancelled, at one bar in CANCEL_CHECK_BARS, and any other exception of
\* the symbol (a write that fails): what is in the batch is lost, what is counted
\* stays counted.
CancelReplay ==
    /\ rPhase = "next" /\ bar < ReplayBars /\ bar % CancelBars = 0
    /\ rPhase' = "cancelled"
    /\ UNCHANGED <<plan, bar, barCandle, buy, rBook, rLoop, rResults>>

LastWriteFails ==
    /\ rPhase = "next" /\ bar = ReplayBars
    /\ batch # <<>> \/ rLots # <<>>
    /\ metrics' = WithOpenRows
    /\ rPhase' = "failed"
    /\ UNCHANGED <<plan, bar, barCandle, buy, rBook, rLoop, batch, stored>>

WriteFails ==
    /\ rPhase = "exit" /\ at <= Len(rLots) /\ ReplayExitStatus(rLots[at]) # "NONE"
    /\ Len(batch) + 1 >= plan.batch
    /\ LET lot == rLots[at]
           status == ReplayExitStatus(lot)
       IN  metrics' = Counted(TradeRow(lot, status, ExitPrice(lot, status)))
    /\ rPhase' = "failed"
    /\ UNCHANGED <<plan, bar, barCandle, buy, rBook, rLoop, batch, stored>>
-----------------------------------------------------------------------------
ReplayInit ==
    /\ plan \in ReplayPlans
    /\ rPhase = "next" /\ bar = 0 /\ barCandle \in {CHOOSE k \in ReplayCandles : TRUE} /\ buy = FALSE
    /\ rLots = <<>> /\ slices = <<>> /\ order = <<>>
    /\ cycle = 0 /\ entries = 0 /\ firstPrice = 0 /\ lastPrice = 0
    /\ at = 1 /\ rExited = FALSE /\ rChanged = FALSE
    /\ batch = <<>> /\ stored = <<>> /\ entered = <<>>
    /\ metrics = [f \in Statuses \cup {"signals", "realized", "unrealized"} |-> 0]

ReplayNext ==
    \/ \E k \in ReplayCandles, decision \in BOOLEAN : NextBar(k, decision)
    \/ KeepLot \/ CloseLot \/ EndBar \/ EndReplay
    \/ CancelReplay \/ WriteFails \/ LastWriteFails

ReplaySpec == ReplayInit /\ [][ReplayNext]_replayVars
-----------------------------------------------------------------------------
\* "A finite four-lot ladder": the lots of a cycle are numbered 1, 2, ... without
\* a gap or a repetition, however its exits, refused fills and new signals fall,
\* and there are never more of them than the plan allows.  Two lots of one number
\* would share their lot_id, and the second row would silently not be stored.
LaddersAreNumbered ==
    \A c \in 1..cycle :
        LET mine == {i \in DOMAIN entered : entered[i].id[1] = c}
        IN  /\ {entered[i].id[2] : i \in mine} = 1..Cardinality(mine)
            /\ Cardinality(mine) <= MaximumEntries

\* An NSE exit at its target returns the units it is matched to with targetPct
\* on top of all costs, whatever was bought or sold since the target was set.
TargetKeepsProfit ==
    \A r \in ToSet(stored) \cup ToSet(batch) :
        Fifo /\ r.status = "TARGET_HIT" => 100 * r.net >= plan.targetPct * r.cost

\* What a finished replay reports is what it stored: as many rows of each status
\* as were counted, the realized profit of the rows, and the cost of everything
\* bought is either in a closed row or still in the inventory.
IsClosed(row) == row.status # "OPEN"
HeldCost == IF Fifo THEN Cost(slices) + ReplayFee * Quantity(slices)
            ELSE Total([i \in DOMAIN rLots |-> AcquisitionOf(rLots[i], slices)])
TradesReconcile ==
    rPhase = "done" =>
        /\ \A s \in Statuses : metrics[s] = Cardinality({i \in DOMAIN stored : stored[i].status = s})
        /\ metrics.realized = Total([i \in DOMAIN stored |-> IF IsClosed(stored[i]) THEN stored[i].net ELSE 0])
        /\ Total([i \in DOMAIN stored |-> IF IsClosed(stored[i]) THEN stored[i].cost ELSE 0]) + HeldCost
             = Total([i \in DOMAIN entered |-> (entered[i].price + ReplayFee) * entered[i].qty])

\* What the report of a replay rests on: its ladders, its profits and its sums.
ReplayIsSound == LaddersAreNumbered /\ TargetKeepsProfit /\ TradesReconcile
=============================================================================
