------------------------------ MODULE OiFilter ------------------------------
(***************************************************************************)
(* The filter that admits or skips the BUY candidates of several symbols   *)
(* by the open-interest regime of their moment                             *)
(* (apply_oi_filter_chronologically and decide_long_trade of               *)
(* backend/markets/nse/oi_regime.py).                                      *)
(*                                                                         *)
(* The candidates come sorted by signal moment, so the model offers any    *)
(* next candidate that is not earlier than the last one.  A candidate is   *)
(* still running after its signal until its end; Never stands for a trade  *)
(* that is OPEN in the results.                                            *)
(***************************************************************************)
EXTENDS Integers, Sequences, FiniteSets, FiniteSetsExt

CONSTANTS
    FilterRegimes,  \* the regime files to judge by: sequences of rows in the order of time
    FilterQuality,  \* symbol -> whether its score reaches the elevated quality
    FilterStale,    \* stale_data_seconds
    FilterTime,     \* bound: the last moment of a signal
    MaxCandidates   \* bound: candidates

ASSUME FilterBoundsAreNatural == {FilterStale, FilterTime, MaxCandidates} \subseteq Nat
Regimes == {"INSUFFICIENT_OI_DATA", "STRONGLY_BEARISH", "BEARISH", "NEUTRAL", "BULLISH", "STRONGLY_BULLISH",
            "VOLATILITY_EXPANSION"}
ASSUME FilterFilesAreRows ==
    FilterRegimes \subseteq Seq([ts : Nat, source : Nat, oldest : Nat, regime : Regimes, confident : BOOLEAN])

VARIABLES
    fRows,          \* the regime rows [ts, source, oldest, regime, confident]
    fMode,          \* "OFF", "ADVISORY" or "ENFORCE"
    fAllow,         \* fail_policy = "ALLOW"
    fNow,           \* the signal moment of the last candidate
    activeUntil,    \* the admitted trades whose ends active_until holds, not pruned yet
    judged          \* the candidates in order, with their decisions

filterVars == <<fRows, fMode, fAllow, fNow, activeUntil, judged>>
-----------------------------------------------------------------------------
Never == FilterTime + 2
Unknown == 0

\* regime_at_or_before: the newest row not after t whose source is not after t.
CausalRow(t) ==
    LET rows == {i \in DOMAIN fRows : /\ fRows[i].ts <= t
                                      /\ fRows[i].source = Unknown \/ fRows[i].source <= t}
    IN  IF rows = {} THEN Unknown ELSE Max(rows)

FreshOf(row) == IF row.oldest # Unknown THEN row.oldest
                ELSE IF row.source # Unknown THEN row.source ELSE row.ts

\* insufficient_regime when there is no such row, or it is stale.
RegimeAt(t) ==
    LET i == CausalRow(t)
        age == t - FreshOf(fRows[i])
    IN  IF i = Unknown \/ age < 0 \/ age > FilterStale
        THEN [regime |-> "INSUFFICIENT_OI_DATA", confident |-> FALSE]
        ELSE [regime |-> fRows[i].regime, confident |-> fRows[i].confident]

\* decide_long_trade; `open' is the number of admitted trades that still run.
Allowed(row, quality, open) ==
    \/ fMode \in {"OFF", "ADVISORY"}
    \/ /\ \/ row.regime = "INSUFFICIENT_OI_DATA"
          \/ row.regime # "VOLATILITY_EXPANSION" /\ ~row.confident
       /\ fAllow
    \/ /\ row.regime \in {"BEARISH", "VOLATILITY_EXPANSION"}
       /\ row.confident \/ row.regime = "VOLATILITY_EXPANSION"
       /\ quality /\ open < 1
    \/ /\ row.regime \in {"NEUTRAL", "BULLISH", "STRONGLY_BULLISH"} /\ row.confident

\* active_until without the trades that have ended by t; a trade without an end stays.
StillRunningClosed(t) == {i \in activeUntil : judged[i].end > t /\ judged[i].end # Never}
StillRunning(t) == {i \in activeUntil : judged[i].end > t}

\* One candidate of the stream.  OFF copies the results without judging them.
JudgeCandidate(symbol, t, end) ==
    /\ Len(judged) < MaxCandidates
    /\ t >= fNow
    /\ LET row == RegimeAt(t)
           running == StillRunning(t)
           allowed == Allowed(row, FilterQuality[symbol], Cardinality(running))
       IN  /\ judged' = Append(judged, [at |-> t, end |-> end, allowed |-> allowed,
                                        regime |-> IF fMode = "OFF" THEN "NONE" ELSE row.regime,
                                        confident |-> row.confident])
           /\ activeUntil' = IF fMode = "OFF" THEN activeUntil
                             ELSE IF allowed THEN running \cup {Len(judged')} ELSE running
    /\ fNow' = t
    /\ UNCHANGED <<fRows, fMode, fAllow>>
-----------------------------------------------------------------------------
FilterInit ==
    /\ fRows \in FilterRegimes
    /\ fMode \in {"OFF", "ADVISORY", "ENFORCE"} /\ fAllow \in BOOLEAN
    /\ fNow = 0 /\ activeUntil = {} /\ judged = <<>>

FilterNext ==
    \E symbol \in DOMAIN FilterQuality, t \in 1..FilterTime, end \in (2..(FilterTime + 1)) \cup {Never} :
        end > t /\ JudgeCandidate(symbol, t, end)

FilterSpec == FilterInit /\ [][FilterNext]_filterVars
-----------------------------------------------------------------------------
\* In a bearish or expanding regime the filter asks for "at most one open portfolio
\* long": an enforced entry in one finds no admitted trade of any symbol still
\* running at its signal, however long ago that one was admitted.
BearishEntriesAreAlone ==
    \A j \in DOMAIN judged :
        /\ fMode = "ENFORCE" /\ judged[j].allowed
        /\ \/ judged[j].regime = "VOLATILITY_EXPANSION"
           \/ judged[j].regime = "BEARISH" /\ judged[j].confident
        => \A i \in 1..(j - 1) : judged[i].allowed => judged[i].end <= judged[j].at
=============================================================================
