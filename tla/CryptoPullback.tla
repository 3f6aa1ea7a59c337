--------------------------- MODULE CryptoPullback ---------------------------
(***************************************************************************)
(* The crypto pullback strategy and its backtest                           *)
(* (backend/markets/crypto/strategy.py).  generate_signals walks over the  *)
(* frame: an RSI in its zone arms a side, and a recovery through the level *)
(* with volume and structure within the next bars makes a signal;          *)
(* run_pullback_backtest then trades the signals one after the other.      *)
(*                                                                         *)
(* The indicators of a bar are part of the bar: `rsi' (NoRsi: not yet      *)
(* available), `volume' (RVOL against its minimum, "none" while RVOL, ATR  *)
(* or VWAP is missing), `trend' (EMAs and VWAP; both directions exclude    *)
(* each other) and `risk' (the stop distance).  Prices are whole, slippage *)
(* and costs are an amount per unit.  A bar enters the frame when the loop *)
(* comes to it: nothing looks ahead of it.                                 *)
(***************************************************************************)
EXTENDS Integers, Sequences, FiniteSetsExt

CONSTANTS
    PullbackConfigs,    \* what a request may ask for, see ConfigOK
    PullbackBars,       \* the bars that may occur
    PullbackSlip, PullbackCost,
    MinimumBars,        \* frames with fewer bars give no signal
    MaxPullbackBars     \* bound: bars of a frame

NoRsi == -1

\* CryptoPullbackConfig.validate.
ConfigOK(c) ==
    /\ 0 <= c.buyLow /\ c.buyLow < c.buyHigh /\ c.buyHigh <= c.level
    /\ c.level <= c.sellLow /\ c.sellLow < c.sellHigh /\ c.sellHigh <= 100
    /\ {c.expiry, c.hold, c.ratio} \subseteq Nat \ {0}
    /\ c.side \in {"BOTH", "BUY", "SELL"}

ASSUME PullbackConfigsAreValid == \A c \in PullbackConfigs :
    ConfigOK(c) /\ {c.buyLow, c.buyHigh, c.sellLow, c.sellHigh, c.level} \subseteq Int
ASSUME PullbackBarsAreBars == \A b \in PullbackBars :
    /\ {b.o, b.h, b.l, b.c, b.rsi} \subseteq Int
    /\ 0 < b.l /\ b.l <= Min({b.o, b.c}) /\ Max({b.o, b.c}) <= b.h /\ b.risk \in Nat
ASSUME PullbackBounds == {PullbackSlip, PullbackCost, MinimumBars, MaxPullbackBars} \subseteq Nat

VARIABLES
    config,             \* of the request
    frame, pulling,     \* the bars so far, and the phase
    arm,                \* side -> the bar that armed it; 0: None
    candidates,         \* what generate_signals returns
    pending,            \* the candidates the backtest has not come to
    occupied,           \* occupied_through
    pTrades

pullbackVars == <<config, frame, pulling, arm, candidates, pending, occupied, pTrades>>
-----------------------------------------------------------------------------
Sides == {"BUY", "SELL"}
Sign(side) == IF side = "BUY" THEN 1 ELSE -1

\* RSI zones and the crossing of the recovery level.
InZone(side, rsi) == IF side = "BUY" THEN config.buyLow <= rsi /\ rsi <= config.buyHigh
                     ELSE config.sellLow <= rsi /\ rsi <= config.sellHigh
Crosses(side, before, rsi) == IF side = "BUY" THEN before <= config.level /\ config.level < rsi
                              ELSE before >= config.level /\ config.level > rsi

\* A close in the direction of the trend, beyond the whole previous bar.
Structure(side, previous, bar) ==
    /\ bar.trend = side
    /\ IF side = "BUY" THEN bar.c > previous.h ELSE bar.c < previous.l

\* The arm of a side at bar `at': set again in the zone, dropped when it is too old.
Armed(side, at, bar) ==
    LET latest == IF InZone(side, bar.rsi) THEN at ELSE arm[side]
    IN  IF at - latest > config.expiry THEN 0 ELSE latest

Signals(side, at, previous, bar) ==
    /\ Armed(side, at, bar) # 0
    /\ config.side \in {"BOTH", side}
    /\ Crosses(side, previous.rsi, bar.rsi)
    /\ bar.volume = "high" /\ Structure(side, previous, bar)

Candidate(side, at, bar) == [side |-> side, bar |-> at, risk |-> bar.risk, arm |-> Armed(side, at, bar)]

\* The crossings of both sides exclude each other, so at most one side signals;
\* its arm is used up, also when there is no risk to divide by.
EvaluateBar(at, previous, bar) ==
    LET signalling == {side \in Sides : Signals(side, at, previous, bar)}
        found == {Candidate(side, at, bar) : side \in {s \in signalling : bar.risk > 0}}
    IN  IF previous.rsi = NoRsi \/ bar.rsi = NoRsi \/ bar.volume = "none"
        THEN UNCHANGED <<arm, candidates>>
        ELSE /\ arm' = [side \in Sides |-> IF side \in signalling THEN 0 ELSE Armed(side, at, bar)]
             /\ candidates' = IF found = {} THEN candidates
                              ELSE Append(candidates, CHOOSE c \in found : TRUE)

NextFrameBar(bar) ==
    /\ pulling = "bars" /\ Len(frame) < MaxPullbackBars
    /\ frame' = Append(frame, bar)
    /\ IF frame = <<>> THEN UNCHANGED <<arm, candidates>>
       ELSE EvaluateBar(Len(frame) + 1, frame[Len(frame)], bar)
    /\ UNCHANGED <<config, pulling, pending, occupied, pTrades>>

\* The frame is over.
FrameEnds ==
    /\ pulling = "bars" /\ frame # <<>>
    /\ pulling' = "trades"
    /\ candidates' = IF Len(frame) < MinimumBars THEN <<>> ELSE candidates
    /\ pending' = candidates'
    /\ UNCHANGED <<config, frame, arm, occupied, pTrades>>
-----------------------------------------------------------------------------
(* run_pullback_backtest. *)

EntryPrice(c) == frame[c.bar + 1].o + Sign(c.side) * PullbackSlip
StopPrice(c) == EntryPrice(c) - Sign(c.side) * c.risk
TargetPrice(c) == EntryPrice(c) + Sign(c.side) * c.risk * config.ratio

\* What a bar touches, at its worst and at its best price for the side.
StopHit(c, i) == IF c.side = "BUY" THEN frame[i].l <= StopPrice(c) ELSE frame[i].h >= StopPrice(c)
TargetHit(c, i) == IF c.side = "BUY" THEN frame[i].h >= TargetPrice(c) ELSE frame[i].l <= TargetPrice(c)

LastBar(c) == Min({Len(frame), c.bar + 1 + config.hold})

\* The first bar behind the entry that touches the stop or the target, the stop
\* first; the last one otherwise.
ExitTargetFirst(c) ==
    LET touched == {i \in (c.bar + 2)..LastBar(c) : StopHit(c, i) \/ TargetHit(c, i)}
    IN  IF touched = {} THEN [bar |-> LastBar(c), raw |-> frame[LastBar(c)].c, outcome |-> "TIME_EXIT"]
        ELSE IF TargetHit(c, Min(touched)) THEN [bar |-> Min(touched), raw |-> TargetPrice(c), outcome |-> "TARGET"]
        ELSE [bar |-> Min(touched), raw |-> StopPrice(c), outcome |-> "STOP"]
Exit(c) ==
    LET touched == {i \in (c.bar + 2)..LastBar(c) : StopHit(c, i) \/ TargetHit(c, i)}
    IN  IF touched = {} THEN [bar |-> LastBar(c), raw |-> frame[LastBar(c)].c, outcome |-> "TIME_EXIT"]
        ELSE IF StopHit(c, Min(touched)) THEN [bar |-> Min(touched), raw |-> StopPrice(c), outcome |-> "STOP"]
        ELSE [bar |-> Min(touched), raw |-> TargetPrice(c), outcome |-> "TARGET"]

NetProfit(c) == Sign(c.side) * (Exit(c).raw - EntryPrice(c)) - PullbackSlip - PullbackCost

\* A signal on the last bar, or before the last trade has ended, is not traded.
Skipped(c) == c.bar + 1 > Len(frame) \/ c.bar + 1 <= occupied

TradeCandidate ==
    /\ pulling = "trades" /\ pending # <<>>
    /\ LET c == Head(pending)
       IN  IF Skipped(c) THEN UNCHANGED <<occupied, pTrades>>
           ELSE /\ pTrades' = Append(pTrades, [of |-> c, entry |-> c.bar + 1, exit |-> Exit(c).bar,
                                               outcome |-> Exit(c).outcome, net |-> NetProfit(c)])
                /\ occupied' = Exit(c).bar
    /\ pending' = Tail(pending)
    /\ UNCHANGED <<config, frame, pulling, arm, candidates>>
-----------------------------------------------------------------------------
PullbackInit ==
    /\ config \in PullbackConfigs /\ frame = <<>> /\ pulling = "bars"
    /\ arm = [side \in Sides |-> 0] /\ candidates = <<>>
    /\ pending = <<>> /\ occupied = 0 /\ pTrades = <<>>

PullbackNext == FrameEnds \/ TradeCandidate \/ \E bar \in PullbackBars : NextFrameBar(bar)

PullbackSpec == PullbackInit /\ [][PullbackNext]_pullbackVars
-----------------------------------------------------------------------------
\* Every signal has a setup of its own: its side was armed at most `expiry' bars
\* before, at an RSI in its zone, and after the previous signal of the side.
SetupsAreUsedOnce == \A j \in DOMAIN candidates :
    LET c == candidates[j]
    IN  /\ c.arm < c.bar /\ c.bar - c.arm <= config.expiry /\ InZone(c.side, frame[c.arm].rsi)
        /\ \A i \in 1..(j - 1) : candidates[i].side = c.side => candidates[i].bar < c.arm

\* "If stop and target are both touched in one candle, the stop is applied first":
\* a trade that goes on, or takes its profit, has met no bar behind its entry that
\* touches its stop.  So a trade loses at most its risk, the slippage of its exit and
\* its costs, unless it entered on the last bar of the frame and left at its close.
StopBoundsTheLoss == \A j \in DOMAIN pTrades :
    LET t == pTrades[j]
    IN  /\ \A i \in (t.entry + 1)..t.exit : StopHit(t.of, i) => i = t.exit /\ t.outcome = "STOP"
        /\ t.exit > t.entry => t.net >= - (t.of.risk + PullbackSlip + PullbackCost)

\* One position at a time, and no signal is passed over without one: when the
\* backtest is over, a signal with a next bar was traded there, or a trade was open
\* on that bar.
OnePositionAtATime ==
    /\ \A i, j \in DOMAIN pTrades : i < j => pTrades[i].exit < pTrades[j].entry
    /\ pulling = "trades" /\ pending = <<>> =>
          \A j \in DOMAIN candidates : candidates[j].bar < Len(frame) =>
              \E i \in DOMAIN pTrades : pTrades[i].entry <= candidates[j].bar + 1 /\ candidates[j].bar + 1 <= pTrades[i].exit

\* What the report of the crypto backtest rests on.
PullbackIsSound == SetupsAreUsedOnce /\ StopBoundsTheLoss /\ OnePositionAtATime
=============================================================================
