--------------------------- MODULE MCWorkerLease ---------------------------
(***************************************************************************)
(* The overlap of a deployment: the blue container's worker only makes     *)
(* signals, the green one's also executes them on paper.                   *)
(***************************************************************************)
EXTENDS WorkerLease

CONSTANTS blue, green

MCWorkers == {blue, green}
MCKeys == {"SIGNAL", "PAPER_EXECUTION"}
MCLeases == [w \in MCWorkers |-> IF w = blue THEN <<"SIGNAL">>
                                 ELSE <<"SIGNAL", "PAPER_EXECUTION">>]
=============================================================================
