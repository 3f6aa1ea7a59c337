--------------------------- MODULE MCPaperBroker ---------------------------
(***************************************************************************)
(* Small instances of PaperBroker: price tapes of a few candles around 10, *)
(* one or two deployments.                                                 *)
(***************************************************************************)
EXTENDS PaperBroker

CONSTANTS d1, d2

MCBarLen == [tf \in {"5m", "10m", "1d"} |-> IF tf = "5m" THEN 1 ELSE 2]

Bar(o, h, l, c) == [o |-> o, h |-> h, l |-> l, c |-> c]
Flat == Bar(10, 11, 10, 10)
Dip == Bar(10, 10, 8, 8)
Sag == Bar(10, 10, 9, 9)                \* a dip below 11, not below 9
Low == Bar(8, 9, 6, 8)
Spike == Bar(10, 18, 9, 13)
Whip == Bar(8, 18, 6, 8)                \* a target and a dip in one candle

SagAndWhip == {Sag, Whip}
LowAndSpike == {Low, Spike}

Ladder3 == [tf |-> "5m", source |-> "OPENDELTA", nextOpen |-> TRUE,
            ladder |-> TRUE, high |-> <<1, 2, 1>>, low |-> <<2, 1, 1>>,
            threshold |-> 10, dipPct |-> 10, capital |-> 50,
            targetPct |-> 10, stopPct |-> 0, holdBars |-> 0,
            more |-> TRUE, maxEntries |-> 3, maxPositions |-> 2,
            exposurePct |-> 100, maxDailyTrades |-> 3, lossPct |-> 50]

StopLadder == [Ladder3 EXCEPT !.stopPct = 30, !.holdBars = 2, !.exposurePct = 200]
AtClose == [Ladder3 EXCEPT !.ladder = FALSE, !.nextOpen = FALSE, !.tf = "10m"]
DailyLadder == [Ladder3 EXCEPT !.tf = "1d"]

LedgerConfig == d1 :> DailyLadder
RecoveryConfig == d1 :> StopLadder
MixedConfig == d1 :> StopLadder @@ d2 :> AtClose
=============================================================================
