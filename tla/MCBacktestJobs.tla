--------------------------- MODULE MCBacktestJobs ---------------------------
(* Instances of BacktestJobs for TLC.                                      *)
EXTENDS BacktestJobs, TLC

CONSTANTS blue, green, q1, q2, r1, r2, r3, k1

\* Two requests with one key, for two variants and for one (a preview that
\* changed in between).
MCRequestRuns == (q1 :> {r1, r2}) @@ (q2 :> {r3})

MCKey == (q1 :> k1) @@ (q2 :> k1)
=============================================================================
