--------------------------- MODULE FifoInventory ---------------------------
(***************************************************************************)
(* The FIFO inventory of backend/core/fifo.py as operators on a sequence   *)
(* of slices, oldest first.  A slice is what is left of one acquisition:   *)
(* [lot |-> who bought it, price |-> executed price, qty |-> quantity].    *)
(*                                                                         *)
(* Money is integral.  The code spreads the buy fees of a slice over the   *)
(* units taken from it in proportion, so the fee of one unit never         *)
(* changes; the model keeps that unit fee (a parameter) instead of a       *)
(* running total, and no rounding epsilon is needed.                       *)
(***************************************************************************)
EXTENDS Integers, Sequences, FiniteSetsExt

\* The sum of the first n values of a sequence, and of all of them.
SumTo(values, n) ==
    LET total[k \in 0..n] == IF k = 0 THEN 0 ELSE total[k - 1] + values[k]
    IN  total[n]

Total(values) == SumTo(values, Len(values))

\* The quantity held by the first n slices.
HeldBefore(slices, n) == SumTo([i \in DOMAIN slices |-> slices[i].qty], n)

Quantity(slices) == HeldBefore(slices, Len(slices))

Cost(slices) == Total([i \in DOMAIN slices |-> slices[i].price * slices[i].qty])

Add(slices, lot, price, qty) ==
    Append(slices, [lot |-> lot, price |-> price, qty |-> qty])

\* consume() raises when the sale asks for more than the queue holds.
CanConsumeAnything(slices, qty) == qty > 0
CanConsume(slices, qty) == qty > 0 /\ qty <= Quantity(slices)

\* How many units of slice i a sale of qty takes: the front of the queue first.
Taken(slices, qty, i) ==
    LET wanted == qty - HeldBefore(slices, i - 1)
    IN  Min({slices[i].qty, Max({0, wanted})})

\* The queue after a sale: the slices in front that it exhausts leave the queue.
Exhausted(slices, qty) == Max({n \in 0..Len(slices) : HeldBefore(slices, n) <= qty})

Consume(slices, qty) ==
    LET n == Exhausted(slices, qty)
    IN  [i \in 1..(Len(slices) - n) |->
            [slices[n + i] EXCEPT !.qty = @ - Taken(slices, qty, n + i)]]

\* The purchase cost, without fees, of the units a sale of qty is matched to.
MatchCost(slices, qty) ==
    Total([i \in DOMAIN slices |-> slices[i].price * Taken(slices, qty, i)])

CeilDiv(a, b) == (a + b - 1) \div b

(***************************************************************************)
(* net_profit_target_price: the least price whose proceeds, after slippage *)
(* and fees, repay acquisitionCost with pct percent on top.  The code      *)
(* finds it by bisection and rounds it up.                                 *)
(***************************************************************************)
NetProfitTarget(acquisitionCost, qty, pct, unitCosts) ==
    CeilDiv(CeilDiv(acquisitionCost * (100 + pct), 100), qty) + unitCosts
=============================================================================
