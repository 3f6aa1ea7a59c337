---------------------------- MODULE RunLifecycle ----------------------------
(***************************************************************************)
(* What the rest of the platform relies on about a row of backtest_runs,   *)
(* whoever writes it: the life of a run as the row's status shows it.      *)
(* BacktestJobs and WalkForward are shown to implement it.                 *)
(***************************************************************************)
CONSTANT Runs

VARIABLES
    status,    \* status[r]: the status column, "absent" before the insert
    cancel     \* cancel[r]: the cancel_requested column

lifeVars == <<status, cancel>>

Active == {"QUEUED", "RUNNING"}

Terminal == {"COMPLETE", "FAILED", "CANCELLED", "INTERRUPTED"}

Statuses == {"absent"} \cup Active \cup Terminal

Init ==
    /\ status = [r \in Runs |-> "absent"]
    /\ cancel = [r \in Runs |-> FALSE]

\* Rows are inserted QUEUED, some at once, and never again.
Create ==
    /\ status' \in [Runs -> Statuses]
    /\ \A r \in Runs : status'[r] = status[r] \/ (status[r] = "absent" /\ status'[r] = "QUEUED")
    /\ UNCHANGED cancel

Begin(r) ==
    /\ status[r] = "QUEUED"
    /\ status' = [status EXCEPT ![r] = "RUNNING"]
    /\ UNCHANGED cancel

\* A run completes or fails only after it began; an interrupted one may still
\* be finished by the process that was taken for dead, and a completed one may
\* turn FAILED when its completion could not be read back. Only a run whose
\* cancel was asked for is cancelled before it began.
End(r, outcome) ==
    /\ outcome \in Terminal \ {"INTERRUPTED"}
    /\ \/ status[r] \in {"RUNNING", "INTERRUPTED"}
       \/ status[r] = "QUEUED" /\ outcome = "CANCELLED" /\ cancel[r]
       \/ status[r] = "COMPLETE" /\ outcome = "FAILED"
    /\ status' = [status EXCEPT ![r] = outcome]
    /\ UNCHANGED cancel

\* A starting container declares every active run dead at once.
Interrupt ==
    /\ status' = [r \in Runs |-> IF status[r] \in Active THEN "INTERRUPTED" ELSE status[r]]
    /\ UNCHANGED cancel

\* The flag is only ever set, and only on a run that has not ended.
AskCancel ==
    /\ cancel' \in [Runs -> BOOLEAN]
    /\ \A r \in Runs : cancel'[r] = cancel[r] \/ (cancel'[r] /\ status[r] \in Active)
    /\ UNCHANGED status

Next ==
    \/ Create \/ AskCancel
    \/ \E r \in Runs : Begin(r) \/ \E outcome \in Terminal : End(r, outcome)
    \/ Interrupt

Spec == Init /\ [][Next]_lifeVars
=============================================================================
