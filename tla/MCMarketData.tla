---------------------------- MODULE MCMarketData ----------------------------
(* The instance of Backfill and OiHistory for TLC: two resumable jobs that *)
(* do not touch each other.  A behaviour is one of the two, so their state *)
(* spaces add up instead of multiplying.                                   *)
EXTENDS Backfill, OiHistory, TLC

CONSTANTS w1, w2

VARIABLE part

dataVars == <<part, vars, historyVars>>

Init == part \in {"backfill", "import"} /\ BackfillInit /\ HistoryInit

\* A step of one part leaves the other alone.
Candles(step) == part = "backfill" /\ step /\ UNCHANGED <<part, historyVars>>

Next ==
    \/ Candles(BackfillNext)
    \/ part = "import" /\ HistoryNext /\ UNCHANGED <<part, vars>>

\* systemd's timer runs the worker again, and time passes (BackfillFairness).
Fairness ==
    /\ \A w \in Workers : WF_dataVars(Candles(WorkerStep(w)))
    /\ WF_dataVars(Candles(BackoffOver)) /\ WF_dataVars(Candles(DeadLeaseExpires))

Spec == Init /\ [][Next]_dataVars /\ Fairness
=============================================================================
