-------------------------- MODULE MCStrategyInputs --------------------------
(* What turns market data into decisions, for TLC: live signals, the       *)
(* replay of a backtest, the crypto cache and pullback backtest, option    *)
(* interest and its filter, and the plans of experiments.  A behaviour is  *)
(* one of the parts, so their state spaces add up instead of multiplying.  *)
EXTENDS LiveSignals, BacktestReplay, CryptoMarket, CryptoPullback, OiRegime, OiFilter,
        ResearchPlan

CONSTANTS d1, d2, e1

VARIABLE part

cryptoPairVars == <<cryptoVars, pullbackVars>>
inputVars == <<part, vars, replayVars, cryptoPairVars, oiVars, filterVars, planVars>>

Init ==
    /\ part \in {"signals", "replay", "crypto", "pullback", "regime", "filter", "plan"}
    /\ IF part = "signals" THEN SignalsInit ELSE SignalsInit /\ deployment = CHOOSE row \in Rows : TRUE
    /\ IF part = "replay" THEN ReplayInit ELSE ReplayInit /\ plan = CHOOSE p \in ReplayPlans : TRUE
    /\ IF part = "pullback" THEN PullbackInit ELSE PullbackInit /\ config = CHOOSE c \in PullbackConfigs : TRUE
    /\ OiInit /\ CryptoInit
    /\ IF part = "filter" THEN FilterInit
       ELSE FilterInit /\ fMode = "OFF" /\ fAllow /\ fRows = CHOOSE rows \in FilterRegimes : TRUE
    /\ IF part = "plan" THEN PlanInit
       ELSE /\ PlanInit /\ watchlist = CHOOSE symbols \in Watchlists : TRUE
            /\ calendar = CHOOSE days \in Calendars : TRUE

\* A step of one part leaves the others alone.
Next ==
    \/ part = "signals" /\ SignalsNext /\ UNCHANGED <<part, replayVars, cryptoPairVars, oiVars, filterVars, planVars>>
    \/ part = "replay" /\ ReplayNext /\ UNCHANGED <<part, vars, cryptoPairVars, oiVars, filterVars, planVars>>
    \/ part = "crypto" /\ CryptoNext /\ UNCHANGED <<part, vars, replayVars, pullbackVars, oiVars, filterVars, planVars>>
    \/ part = "pullback" /\ PullbackNext /\ UNCHANGED <<part, cryptoVars, vars, replayVars, oiVars, filterVars, planVars>>
    \/ part = "regime" /\ OiNext /\ UNCHANGED <<part, vars, replayVars, cryptoPairVars, filterVars, planVars>>
    \/ part = "filter" /\ FilterNext /\ UNCHANGED <<part, vars, replayVars, cryptoPairVars, oiVars, planVars>>
    \/ part = "plan" /\ PlanNext /\ UNCHANGED <<part, vars, replayVars, cryptoPairVars, oiVars, filterVars>>

Spec == Init /\ [][Next]_inputVars

-----------------------------------------------------------------------------
(* Live signals: an alert that is delivered twice, on a candle that the    *)
(* strategy may also find.                                                 *)
MCEvent == (d1 :> e1) @@ (d2 :> e1)

MCAlertCandle == (d1 :> 1) @@ (d2 :> 1)

MCRows == {[mode |-> "PAPER", source |-> "TRADINGVIEW"], [mode |-> "PAPER", source |-> "OPENDELTA"],
           [mode |-> "OFF", source |-> "TRADINGVIEW"]}

Alike == Permutations(Deliveries)

MCKinds == {[move |-> "flat", buy |-> TRUE], [move |-> "up", buy |-> FALSE]}

(* Replay: ladders and single lots of both markets, with and without a     *)
(* stop, a maximum holding time and daily signals.                         *)
MCPlan(market, ladder, stop, hold, days, size) ==
    [market |-> market, ladder |-> ladder, additional |-> TRUE, daily |-> days, targetPct |-> 10,
     maxEntries |-> 3, batch |-> size, stopPct |-> stop, holdBars |-> hold, dipPct |-> 20, capital |-> 45,
     threshold |-> 11, high |-> <<1, 2, 3>>, low |-> <<2, 2, 2>>, first |-> 2]

MCReplayPlans ==
    {MCPlan("NSE", TRUE, 0, 0, FALSE, 2), MCPlan("NSE", FALSE, 30, 2, FALSE, 1), MCPlan("NSE", TRUE, 40, 1, TRUE, 3),
     MCPlan("CRYPTO", TRUE, 0, 3, FALSE, 2), MCPlan("CRYPTO", FALSE, 30, 0, FALSE, 2),
     [MCPlan("NSE", FALSE, 0, 2, FALSE, 2) EXCEPT !.additional = FALSE]}

MCReplayCandles == {[o |-> 10, h |-> 10, l |-> 8, c |-> 8], [o |-> 8, h |-> 9, l |-> 6, c |-> 6],
                    [o |-> 8, h |-> 15, l |-> 7, c |-> 12]}

(* Pullback: quiet bars below, in and above the zones, a signal of each    *)
(* side, and a bar that touches every stop and every target.               *)
MCBar(rsi, volume, trend, o, h, l, c, risk) ==
    [rsi |-> rsi, volume |-> volume, trend |-> trend, o |-> o, h |-> h, l |-> l, c |-> c, risk |-> risk]

MCPullbackBars ==
    {MCBar(NoRsi, "none", "none", 10, 11, 9, 10, 0), MCBar(45, "low", "none", 10, 11, 9, 10, 3),
     MCBar(30, "low", "none", 10, 11, 9, 10, 3), MCBar(55, "high", "BUY", 10, 17, 10, 12, 3),
     MCBar(45, "high", "SELL", 10, 11, 7, 8, 3), MCBar(55, "low", "none", 10, 18, 2, 10, 3)}

MCConfig(expiry, hold, side) ==
    [buyLow |-> 40, buyHigh |-> 50, sellLow |-> 50, sellHigh |-> 60, level |-> 50, expiry |-> expiry, hold |-> hold,
     ratio |-> 2, side |-> side]

MCPullbackConfigs == {MCConfig(3, 2, "BOTH"), MCConfig(1, 1, "BUY")}

(* Filter: files with a gap, with an unsure row and with bearish ones.     *)
MCRow(ts, source, oldest, regime, confident) ==
    [ts |-> ts, source |-> source, oldest |-> oldest, regime |-> regime, confident |-> confident]

MCRegimes ==
    {<<MCRow(1, 1, 1, "NEUTRAL", TRUE), MCRow(2, 2, 1, "BEARISH", TRUE), MCRow(3, 4, 2, "VOLATILITY_EXPANSION", FALSE)>>,
     <<MCRow(1, 1, 1, "BULLISH", TRUE), MCRow(2, 2, 2, "BEARISH", FALSE), MCRow(3, 3, 3, "STRONGLY_BEARISH", TRUE)>>,
     <<MCRow(2, 0, 0, "INSUFFICIENT_OI_DATA", FALSE), MCRow(3, 3, 2, "BEARISH", TRUE)>>}

MCQuality == [a |-> TRUE, b |-> FALSE]

(* Plans: grids with a repetition, given variants, and folds of each mode. *)
MCGrid(base, parameters) ==
    [kind |-> "experiment", market |-> "NSE", start |-> 1, end |-> 9, mode |-> "GRID", base |-> base,
     parameters |-> parameters]

MCValues(path, values) == [path |-> path, method |-> "EXPLICIT_VALUES", values |-> values, low |-> 0, high |-> 9]

MCRange(path, minimum, maximum, step) ==
    [path |-> path, method |-> "NUMERIC_RANGE", minimum |-> minimum, maximum |-> maximum, step |-> step,
     low |-> 0, high |-> 9]

MCFold(market, mode, training, testing, step, objective, minimum) ==
    [kind |-> "validation", market |-> market, start |-> 1, end |-> 9, mode |-> mode, training |-> training,
     testing |-> testing, step |-> step, maximumFolds |-> 2, experiment |-> "k1", objective |-> objective,
     minimumTrades |-> minimum, bars |-> 1]

MCRequests ==
    {MCGrid([rsi |-> 1], <<MCRange("rsi", 2, 5, 2)>>),
     MCGrid([rsi |-> 1], <<MCValues("rsi", <<2, 2>>)>>),
     [kind |-> "experiment", market |-> "NSE", start |-> 1, end |-> 9, mode |-> "MANUAL", base |-> [rsi |-> 1],
      variants |-> <<[name |-> "slow", values |-> [rsi |-> 3]], [name |-> "base", values |-> [rsi |-> 1]]>>],
     MCFold("NSE", "ROLLING", 2, 2, 1, "NET_PNL", 1), MCFold("CRYPTO", "ANCHORED", 3, 2, 2, "RETURN_DRAWDOWN", 0),
     MCFold("NSE", "ANCHORED", 3, 1, 1, "LOWEST_DRAWDOWN", 0)}

MCMetric(status, trades, pnl, drawdown) ==
    [status |-> status, trades |-> trades, pnl |-> pnl, drawdown |-> drawdown, wins |-> trades]

MCMetrics == {MCMetric("COMPLETE", 1, 4, 2), MCMetric("COMPLETE", 0, 0, 0), MCMetric("FAILED", 0, 0, 0),
              MCMetric("COMPLETE", 2, 2, 1)}
=============================================================================
