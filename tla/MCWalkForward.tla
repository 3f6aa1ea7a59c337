--------------------------- MODULE MCWalkForward ----------------------------
(* The instance of WalkForward for TLC: one of two validations.            *)
EXTENDS WalkForward, TLC

CONSTANTS blue, green, v1, v2, q1, q2, a1, a2, a3, b1, b2, t1, t2, u1

\* Two folds, the first with two candidates, or one fold with two; the second
\* candidate is the better one.
MCRequestRuns == (q1 :> {a1, a2, a3}) @@ (q2 :> {b1, b2})

MCKey == (q1 :> NoKey) @@ (q2 :> NoKey)

MCSubmission == (v1 :> q1) @@ (v2 :> q2)

MCFolds == (v1 :> 2) @@ (v2 :> 1)

MCTraining == (v1 :> <<<<a1, a2>>, <<a3>>>>) @@ (v2 :> <<<<b1, b2>>>>)

MCTest == (v1 :> <<t1, t2>>) @@ (v2 :> <<u1>>)

MCTrades == [r \in Runs |-> IF r \in {a1, b1} THEN 1 ELSE 2]

MCScore == [r \in Runs |-> IF r \in {a2, b2} THEN 2 ELSE 1]

\* The histories that are enumerated: a fault and the start of a container, or a
\* cancel; with one fold also a cancel together with one of the two.
Enumerated ==
    /\ request[q1] = "idle" \/ request[q2] = "idle"
    /\ cancels > 0 => (starts - 1) + faults <= IF request[q1] = "idle" THEN 1 ELSE 0

MCNext == WfNext /\ Enumerated'

MCSpec == WfInit /\ [][MCNext]_wfVars /\ WfFairness
=============================================================================
