---------------------------- MODULE WalkForward -----------------------------
(***************************************************************************)
(* Walk-forward validations on top of the backtest queue: the coordinator  *)
(* thread of backend/research/walk_forward_jobs.py, the requests that      *)
(* submit and cancel a validation (walk_forward_routes.py) and the rows of *)
(* validations and folds (repositories.py). A fold is trained by one run   *)
(* per candidate; the best of them is tested by one run on unseen data.    *)
(* The requests and the coordinator are those of the container First; other *)
(* containers start beside it or after it, and take its runs for dead.     *)
(***************************************************************************)
EXTENDS BacktestJobs, Functions

CONSTANTS
    Validations,
    Submission,   \* Submission[v]: the request that submits v; it creates its training runs
    Folds,        \* Folds[v]: number of folds
    Training,     \* Training[v][f]: sequence of training runs, in the candidates' order
    Test,         \* Test[v][f]: the run on unseen data
    Trades,       \* Trades[r]: completed trades of r, once it is COMPLETE
    Score,        \* Score[r]: value of the ranking objective
    MinTrades,    \* minimumRequiredTrades
    MaxValidations  \* queue limit of the coordinator

ASSUME ValidationsAreSubmitted ==
    /\ Submission \in [Validations -> Requests]
    /\ \A v, w \in Validations : Submission[v] = Submission[w] => v = w
    /\ Folds \in [Validations -> Nat \ {0}]
ASSUME FoldsHaveRuns ==
    \A v \in Validations : \A f \in 1 .. Folds[v] :
        /\ Training[v][f] \in Seq(RequestRuns[Submission[v]])
        /\ Test[v][f] \in Runs
\* A test run has an id of its own, and is not one the request creates.
ASSUME TestRunsAreFresh ==
    \A v \in Validations : \A f \in 1 .. Folds[v] :
        /\ \A q \in Requests : Test[v][f] \notin RequestRuns[q]
        /\ \A w \in Validations : \A g \in 1 .. Folds[w] : Test[v][f] = Test[w][g] => v = w /\ f = g
ASSUME ResultsAreNumbers == Trades \in [Runs -> Int] /\ Score \in [Runs -> Int] /\ MinTrades \in Int

VARIABLES
    vCancel,      \* vCancel[v]: cancel_requested of the validation
    fold,         \* fold[v][f]: status of the fold, "absent" before the insert
    tested,       \* tested[v]: folds that have a test_run_id
    selected,     \* selected[v][f]: position of the selected candidate, 0 before
    aggregate,    \* aggregate[v]: folds in aggregate_unseen_metrics, None before
    coord,        \* coord[v]: where the coordinator stands
    position,     \* position[v]: fold the coordinator is at
    view,         \* view[v]: the fold as the coordinator last read it
    coordReserved,
    coordFutures, \* validations the coordinator counts
    coordQueue,   \* validations that wait for its one thread
    canceller,    \* canceller[v]: steps the cancel request has left, <<fold, "runs" or "fold">>
    seen,         \* seen[v]: the folds as the cancel request read them
    left,         \* left[v]: folds a failing coordinator has yet to mark FAILED
    revised       \* history: runs whose final status was overwritten by another

fwd == <<vCancel, fold, tested, selected, aggregate, coord, position, view, coordReserved, coordFutures, coordQueue, canceller, seen, left>>
wfVars == <<vars, fwd, revised>>

Ended == {"COMPLETE", "FAILED", "CANCELLED"}

AtFold == {"loop", "train", "wait", "choose", "test", "submit", "withdraw", "await", "settle", "cancelRuns", "cancelFold"}

Children(v, f) == Range(Training[v][f]) \cup (IF f \in tested[v] THEN {Test[v][f]} ELSE {})

\* What repository.get returns of a fold.
Read(v, f) == [status |-> fold[v][f],
               live |-> {r \in Children(v, f) : status[r] \notin Terminal},
               complete |-> {r \in Children(v, f) : status[r] = "COMPLETE"},
               result |-> IF f \in tested[v] THEN status[Test[v][f]] ELSE "absent"]

\* A final status that gives way to another is remembered.
Revise == revised' = revised \cup {r \in Runs : status[r] \in Terminal /\ status'[r] # status[r]}

NoView == [status |-> "absent", live |-> {}, complete |-> {}, result |-> "absent"]

\* Mutant: only runs that have begun are cancelled.
CancelLiveBegun(v, live) ==
    /\ cancel' = [r \in Runs |-> cancel[r] \/ (r \in live /\ status[r] = "RUNNING")]
    /\ event' = event \cup {r \in live \cap futures[server[Submission[v]]] : status[r] = "RUNNING"}

\* _cancel_fold passes the cancel on to the runs it read as live.
CancelLive(v, live) ==
    /\ cancel' = [r \in Runs |-> cancel[r] \/ (r \in live /\ status[r] \in Active)]
    /\ event' = event \cup (live \cap futures[server[Submission[v]]])

UpdateFold(v, f, to) == fold' = [fold EXCEPT ![v][f] = to]

WfInit ==
    /\ JobsInit
    /\ vCancel = [v \in Validations |-> FALSE]
    /\ fold = [v \in Validations |-> [f \in 1 .. Folds[v] |-> "absent"]]
    /\ tested = [v \in Validations |-> {}]
    /\ selected = [v \in Validations |-> [f \in 1 .. Folds[v] |-> 0]]
    /\ aggregate = [v \in Validations |-> None]
    /\ coord = [v \in Validations |-> "none"]
    /\ position = [v \in Validations |-> 1]
    /\ view = [v \in Validations |-> NoView]
    /\ coordReserved = 0
    /\ coordFutures = {}
    /\ coordQueue = <<>>
    /\ canceller = [v \in Validations |-> {}]
    /\ seen = [v \in Validations |-> [f \in 1 .. Folds[v] |-> NoView]]
    /\ left = [v \in Validations |-> {}]
    /\ revised = {}

-----------------------------------------------------------------------------
(* submit_walk_forward: the slots of the coordinator and of the runs are   *)
(* reserved, the rows written, both submitted.                             *)

BeginSubmission(v) ==
    /\ IF Cardinality(coordFutures) + coordReserved < MaxValidations
         THEN BeginRequest(Submission[v], First)
         ELSE /\ request[Submission[v]] = "idle" /\ process[First] = "up"
              /\ request' = [request EXCEPT ![Submission[v]] = "refused"]
              /\ UNCHANGED <<rows, memory, symbolsDone, server, experiment, counters>>
    /\ coordReserved' = coordReserved + (IF request'[Submission[v]] = "reserved" THEN 1 ELSE 0)
    /\ UNCHANGED <<vCancel, fold, tested, selected, aggregate, coord, position, view, coordFutures, coordQueue, canceller, seen, left, revised>>

CreateValidation(v) ==
    /\ CreateRows(Submission[v])
    /\ IF request'[Submission[v]] = "created"
         THEN fold' = [fold EXCEPT ![v] = [f \in 1 .. Folds[v] |-> "QUEUED"]] /\ UNCHANGED coordReserved
         ELSE coordReserved' = coordReserved - 1 /\ UNCHANGED fold
    /\ UNCHANGED <<vCancel, tested, selected, aggregate, coord, position, view, coordFutures, coordQueue, canceller, seen, left, revised>>

SubmitValidation(v) ==
    /\ SubmitRuns(Submission[v])
    /\ coordReserved' = coordReserved - 1
    /\ coordFutures' = coordFutures \cup {v}
    /\ coordQueue' = Append(coordQueue, v)
    /\ coord' = [coord EXCEPT ![v] = "queued"]
    /\ UNCHANGED <<vCancel, fold, tested, selected, aggregate, position, view, canceller, seen, left, revised>>

SubmissionFails(v) ==
    /\ RequestFails(Submission[v])
    /\ coordReserved' = coordReserved - 1
    /\ UNCHANGED <<vCancel, fold, tested, selected, aggregate, coord, position, view, coordFutures, coordQueue, canceller, seen, left, revised>>

-----------------------------------------------------------------------------
(* The coordinator's one thread: _execute and _execute_owned.              *)

Goto(v, from, to) == coord[v] = from /\ coord' = [coord EXCEPT ![v] = to]

NextFold(v, from) ==
    /\ Goto(v, from, "loop")
    /\ position' = [position EXCEPT ![v] = @ + 1]

Here(v) == position[v]

quiet == <<coordReserved, coordFutures, coordQueue, canceller, seen, left, revised>>

BeginValidation(v) ==
    /\ coordQueue # <<>> /\ v = Head(coordQueue)
    /\ \A w \in Validations : coord[w] \notin AtFold \cup {"finish", "failing"}
    /\ coordQueue' = Tail(coordQueue)
    /\ coord' = [coord EXCEPT ![v] = "loop"]
    /\ UNCHANGED <<vars, vCancel, fold, tested, selected, aggregate, position, view, coordReserved, coordFutures, canceller, seen, left, revised>>

\* A refused lease ends the coordinator without a word.
CoordinatorRefused(v) ==
    /\ coordQueue # <<>> /\ v = Head(coordQueue)
    /\ \A w \in Validations : coord[w] \notin AtFold \cup {"finish", "failing"}
    /\ Fault
    /\ coordQueue' = Tail(coordQueue)
    /\ coordFutures' = coordFutures \ {v}
    /\ coord' = [coord EXCEPT ![v] = "dropped"]
    /\ UNCHANGED <<rows, memory, symbolsDone, requests, starts, cancels>>
    /\ UNCHANGED <<vCancel, fold, tested, selected, aggregate, position, view, coordReserved, canceller, seen, left, revised>>

\* Each fold begins with a fresh read.
ReadFold(v) ==
    /\ coord[v] = "loop"
    /\ \/ Here(v) > Folds[v] /\ Goto(v, "loop", "finish") /\ UNCHANGED <<position, view>>
       \/ /\ Here(v) <= Folds[v]
          /\ view' = [view EXCEPT ![v] = Read(v, Here(v))]
          /\ \/ vCancel[v] /\ Goto(v, "loop", "cancelRuns") /\ UNCHANGED position
             \/ ~ vCancel[v] /\ fold[v][Here(v)] \in Ended /\ NextFold(v, "loop")
             \/ ~ vCancel[v] /\ fold[v][Here(v)] \notin Ended /\ Goto(v, "loop", "train") /\ UNCHANGED position
    /\ UNCHANGED <<vars, vCancel, fold, tested, selected, aggregate, quiet>>

MarkTraining(v) ==
    /\ Goto(v, "train", "wait")
    /\ UpdateFold(v, Here(v), "TRAINING")
    /\ UNCHANGED <<vars, vCancel, tested, selected, aggregate, position, view, quiet>>

\* Mutant: one candidate that has ended is enough.
TrainingBegunToEnd(v) == \E r \in Range(Training[v][Here(v)]) : status[r] \in Terminal

\* Mutant: a candidate that failed is waited for.
TrainingComplete(v) == \A r \in Range(Training[v][Here(v)]) : status[r] = "COMPLETE"

\* _wait_for_training polls until every candidate has ended, or a cancel.
TrainingOver(v) == \A r \in Range(Training[v][Here(v)]) : status[r] \in Terminal

WaitForTraining(v) ==
    /\ coord[v] = "wait"
    /\ vCancel[v] \/ TrainingOver(v)
    /\ Goto(v, "wait", "choose")
    /\ view' = [view EXCEPT ![v] = Read(v, Here(v))]
    /\ UNCHANGED <<vars, vCancel, fold, tested, selected, aggregate, position, quiet>>

\* rank_completed_candidates: best score first, the earlier candidate on a tie.
Eligible(v, complete) == {i \in DOMAIN Training[v][Here(v)] :
                            LET r == Training[v][Here(v)][i] IN r \in complete /\ Trades[r] >= MinTrades}

Winner(v, complete) ==
    CHOOSE i \in Eligible(v, complete) :
        \A j \in Eligible(v, complete) :
            LET s == Training[v][Here(v)] IN Score[s[i]] > Score[s[j]] \/ (Score[s[i]] = Score[s[j]] /\ i <= j)

ChooseCandidate(v) ==
    /\ coord[v] = "choose"
    /\ \/ vCancel[v] /\ Goto(v, "choose", "cancelRuns") /\ UNCHANGED <<fold, position>>
       \/ ~ vCancel[v] /\ Eligible(v, view[v].complete) # {} /\ Goto(v, "choose", "test") /\ UNCHANGED <<fold, position>>
       \/ /\ ~ vCancel[v] /\ Eligible(v, view[v].complete) = {}
          /\ UpdateFold(v, Here(v), "FAILED")
          /\ NextFold(v, "choose")
    /\ UNCHANGED <<vars, vCancel, tested, selected, aggregate, view, quiet>>

\* create_test_run: the row of the run and the link of the fold in one
\* transaction; the fold is TESTING whatever it was.
CreateTestRun(v) ==
    /\ Goto(v, "test", "submit")
    /\ tested' = [tested EXCEPT ![v] = @ \cup {Here(v)}]
    /\ selected' = [selected EXCEPT ![v][Here(v)] = Winner(v, view[v].complete)]
    /\ status' = [status EXCEPT ![Test[v][Here(v)]] = "QUEUED"]
    /\ UpdateFold(v, Here(v), "TESTING")
    /\ UNCHANGED <<cancel, memory, symbolsDone, requests, counters, vCancel, aggregate, position, view, quiet>>

\* _submit_when_available: withdraw a cancelled run, or wait for a free slot.
SubmitTestRun(v) ==
    LET c == server[Submission[v]]
        r == Test[v][Here(v)]
    IN  /\ coord[v] = "submit"
        /\ \/ /\ vCancel[v]
              /\ cancel' = [cancel EXCEPT ![r] = @ \/ status[r] \in Active]
              /\ Goto(v, "submit", "withdraw")
              /\ UNCHANGED memory
           \/ /\ ~ vCancel[v] /\ Fits(c, 1)
              /\ Goto(v, "submit", "await")
              /\ futures' = [futures EXCEPT ![c] = @ \cup {r}]
              /\ queue' = [queue EXCEPT ![c] = Append(@, r)]
              /\ event' = event \ {r}
              /\ job' = [job EXCEPT ![r] = "queued"]
              /\ home' = [home EXCEPT ![r] = c]
              /\ UNCHANGED <<cancel, process, reserved>>
        /\ UNCHANGED <<status, symbolsDone, requests, counters, vCancel, fold, tested, selected, aggregate, position, view, quiet>>

WithdrawTestRun(v) ==
    /\ Goto(v, "withdraw", "await")
    /\ Finish(Test[v][Here(v)], "CANCELLED")
    /\ Revise
    /\ UNCHANGED <<cancel, memory, symbolsDone, requests, counters, vCancel, fold, tested, selected, aggregate, position, view>>
    /\ UNCHANGED <<coordReserved, coordFutures, coordQueue, canceller, seen, left>>

\* _wait_for_run passes a cancel on to the run and waits for its end.
WaitForRun(v) ==
    LET r == Test[v][Here(v)]
    IN  /\ coord[v] = "await"
        /\ \/ /\ status[r] \in Terminal
              /\ Goto(v, "await", "settle")
              /\ view' = [view EXCEPT ![v] = Read(v, Here(v))]
              /\ UNCHANGED <<cancel, event>>
           \/ /\ status[r] \notin Terminal /\ vCancel[v] /\ ~ cancel[r]
              /\ cancel' = [cancel EXCEPT ![r] = TRUE]
              /\ event' = event \cup ({r} \cap futures[server[Submission[v]]])
              /\ UNCHANGED <<coord, view>>
        /\ UNCHANGED <<status, process, futures, queue, reserved, job, home, symbolsDone, requests, counters>>
        /\ UNCHANGED <<vCancel, fold, tested, selected, aggregate, position, quiet>>

\* The fold takes the outcome of its test run.
SettleFold(v) ==
    /\ NextFold(v, "settle")
    /\ UpdateFold(v, Here(v), IF view[v].result \in {"COMPLETE", "CANCELLED"} THEN view[v].result ELSE "FAILED")
    /\ UNCHANGED <<vars, vCancel, tested, selected, aggregate, view, quiet>>

\* _cancel_fold on the fold as it was read: its live runs, then the fold.
CancelFoldRuns(v) ==
    /\ coord[v] = "cancelRuns"
    /\ \/ view[v].status \in Ended /\ NextFold(v, "cancelRuns") /\ UNCHANGED <<cancel, event>>
       \/ /\ view[v].status \notin Ended /\ Goto(v, "cancelRuns", "cancelFold") /\ UNCHANGED position
          /\ CancelLive(v, view[v].live)
    /\ UNCHANGED <<status, process, futures, queue, reserved, job, home, symbolsDone, requests, counters>>
    /\ UNCHANGED <<vCancel, fold, tested, selected, aggregate, view, quiet>>

CancelFold(v) ==
    /\ NextFold(v, "cancelFold")
    /\ UpdateFold(v, Here(v), "CANCELLED")
    /\ UNCHANGED <<vars, vCancel, tested, selected, aggregate, view, quiet>>

FinishValidation(v) ==
    /\ Goto(v, "finish", "done")
    /\ aggregate' = [aggregate EXCEPT ![v] = {f \in 1 .. Folds[v] : fold[v][f] = "COMPLETE"}]
    /\ coordFutures' = coordFutures \ {v}
    /\ UNCHANGED <<vars, vCancel, fold, tested, selected, position, view, coordReserved, coordQueue, canceller, seen, left, revised>>

\* An exception anywhere above: the folds are read once more, and those that
\* have not ended are to be FAILED.
CoordinatorFails(v) ==
    /\ Fault
    /\ coord[v] \in AtFold \cup {"finish"}
    /\ coord' = [coord EXCEPT ![v] = "failing"]
    /\ left' = [left EXCEPT ![v] = {f \in 1 .. Folds[v] : fold[v][f] \notin Ended}]
    /\ UNCHANGED <<rows, memory, symbolsDone, requests, starts, cancels>>
    /\ UNCHANGED <<vCancel, fold, tested, selected, aggregate, position, view>>
    /\ UNCHANGED <<coordReserved, coordFutures, coordQueue, canceller, seen, revised>>

\* One update per fold, in their order, whatever became of the fold meanwhile.
FailFold(v) ==
    /\ coord[v] = "failing"
    /\ \E f \in left[v] :
         /\ \A g \in left[v] : f <= g
         /\ UpdateFold(v, f, "FAILED")
         /\ left' = [left EXCEPT ![v] = @ \ {f}]
    /\ UNCHANGED <<vars, vCancel, tested, selected, aggregate, coord, position, view>>
    /\ UNCHANGED <<coordReserved, coordFutures, coordQueue, canceller, seen, revised>>

FoldsFailed(v) ==
    /\ left[v] = {}
    /\ Goto(v, "failing", "failed")
    /\ coordFutures' = coordFutures \ {v}
    /\ UNCHANGED <<vars, vCancel, fold, tested, selected, aggregate, position, view, coordReserved, coordQueue, canceller, seen, left, revised>>

\* Reading the folds or one of the updates fails as well (the fault that is
\* counted goes on): that is logged, and the folds that are left stay as they are.
FailingFails(v) ==
    /\ Goto(v, "failing", "abandoned")
    /\ left' = [left EXCEPT ![v] = {}]
    /\ coordFutures' = coordFutures \ {v}
    /\ UNCHANGED <<vars, vCancel, fold, tested, selected, aggregate, position, view, coordReserved, coordQueue, canceller, seen, revised>>

-----------------------------------------------------------------------------
(* cancel_walk_forward, on a request thread: the flag first, then one fold *)
(* after the other, as they were when the flag was set.                    *)

CancelValidation(v) ==
    /\ request[Submission[v]] # "idle" /\ fold[v][1] # "absent" /\ canceller[v] = {}
    /\ process[server[Submission[v]]] = "up"
    /\ cancels < MaxCancels /\ cancels' = cancels + 1
    /\ vCancel' = [vCancel EXCEPT ![v] = TRUE]
    /\ seen' = [seen EXCEPT ![v] = [f \in 1 .. Folds[v] |-> Read(v, f)]]
    /\ canceller' = [canceller EXCEPT ![v] = {f \in 1 .. Folds[v] : fold[v][f] \notin Ended} \X {"runs", "fold"}]
    /\ UNCHANGED <<rows, memory, symbolsDone, requests, starts, faults>>
    /\ UNCHANGED <<fold, tested, selected, aggregate, coord, position, view, coordReserved, coordFutures, coordQueue, left, revised>>

\* _cancel_fold of the first fold that is left: its runs, then the fold.
CancelStep(v) ==
    /\ \E f \in 1 .. Folds[v] :
         /\ \A step \in canceller[v] : f <= step[1]
         /\ \/ /\ <<f, "runs">> \in canceller[v]
               /\ canceller' = [canceller EXCEPT ![v] = @ \ {<<f, "runs">>}]
               /\ CancelLive(v, seen[v][f].live)
               /\ UNCHANGED fold
            \/ /\ <<f, "runs">> \notin canceller[v] /\ <<f, "fold">> \in canceller[v]
               /\ canceller' = [canceller EXCEPT ![v] = @ \ {<<f, "fold">>}]
               /\ UpdateFold(v, f, "CANCELLED")
               /\ UNCHANGED <<cancel, event>>
    /\ UNCHANGED <<status, process, futures, queue, reserved, job, home, symbolsDone, requests, counters>>
    /\ UNCHANGED <<vCancel, tested, selected, aggregate, coord, position, view, coordReserved, coordFutures, coordQueue, seen, left, revised>>

-----------------------------------------------------------------------------
(* The process that holds coordinator and runner ends. Bound: not in a     *)
(* history that has had a fault already.                                   *)

EndCoordinator ==
    /\ faults = 0
    /\ EndProcess(First)
    /\ coord' = [v \in Validations |-> IF v \in coordFutures THEN "dropped" ELSE coord[v]]
    /\ coordReserved' = 0 /\ coordFutures' = {} /\ coordQueue' = <<>>
    /\ canceller' = [v \in Validations |-> {}]
    /\ left' = [v \in Validations |-> {}]
    /\ UNCHANGED <<vCancel, fold, tested, selected, aggregate, position, view, seen, revised>>

CoordinatorStep(v) ==
    \/ BeginValidation(v) \/ ReadFold(v) \/ MarkTraining(v) \/ WaitForTraining(v) \/ ChooseCandidate(v)
    \/ CreateTestRun(v) \/ SubmitTestRun(v) \/ WithdrawTestRun(v) \/ WaitForRun(v) \/ SettleFold(v)
    \/ CancelFoldRuns(v) \/ CancelFold(v) \/ FinishValidation(v) \/ FailFold(v) \/ FoldsFailed(v)

\* The runner below, with a fault that leaves a row active and one that ends it.
JobsStep ==
    /\ \/ \E c \in Containers : Take(c)
       \/ \E r \in Runs : WorkerStep(r) \/ LeaseRefused(r) \/ EngineFails(r)
    /\ Revise /\ UNCHANGED fwd

\* Another container starts, or this one once more: no validation is resumed.
StartBeside(c) == StartContainer(c) /\ UNCHANGED <<fwd, revised>>

WfNext ==
    \/ JobsStep
    \/ \E v \in Validations :
         \/ BeginSubmission(v) \/ CreateValidation(v) \/ SubmitValidation(v) \/ SubmissionFails(v)
         \/ CoordinatorStep(v) \/ CoordinatorRefused(v) \/ CoordinatorFails(v) \/ FailingFails(v)
         \/ CancelValidation(v) \/ CancelStep(v)
    \/ \E c \in Containers : StartBeside(c)
    \/ EndCoordinator

\* The threads of the pools are scheduled and a request under way goes on.
WfFairness ==
    /\ \A v \in Validations : WF_wfVars(CoordinatorStep(v)) /\ WF_wfVars(CancelStep(v)) /\ WF_wfVars(CreateValidation(v) \/ SubmitValidation(v))
    /\ \A c \in Containers : WF_wfVars(Take(c) /\ Revise /\ UNCHANGED fwd)
    /\ \A r \in Runs : WF_wfVars(WorkerStep(r) /\ Revise /\ UNCHANGED fwd)

WfSpec == WfInit /\ [][WfNext]_wfVars /\ WfFairness

-----------------------------------------------------------------------------
(* Properties.                                                             *)

\* The status repository.get derives from the folds and the flag.
ValidationStatus(v) ==
    LET all(S) == \A f \in 1 .. Folds[v] : fold[v][f] \in S
        some(S) == \E f \in 1 .. Folds[v] : fold[v][f] \in S
    IN  CASE all({"COMPLETE"}) -> "COMPLETE"
          [] all({"CANCELLED"}) -> "CANCELLED"
          [] some({"FAILED"}) /\ all({"FAILED", "CANCELLED"}) -> "FAILED"
          [] ~ all({"FAILED", "CANCELLED"}) /\ some({"TESTING", "TRAINING"}) -> "RUNNING"
          [] OTHER -> IF vCancel[v] THEN "CANCELLING" ELSE IF all(Ended) THEN "PARTIAL" ELSE "QUEUED"

\* The unseen data stay unseen: a fold has a test run only when every run that
\* trained it reads as ended, and the candidate it tests is an eligible one that
\* no completed candidate of the fold beats. Runs whose final status was
\* overwritten count neither way: a run declared INTERRUPTED by a starting
\* container may complete after the ranking, and a completed one turn FAILED.
TestFollowsTraining ==
    \A v \in Validations : \A f \in tested[v] :
        /\ \A r \in Range(Training[v][f]) : status[r] \in Terminal
        /\ LET s == Training[v][f]
               w == s[selected[v][f]]
           IN  /\ Trades[w] >= MinTrades /\ (w \notin revised => status[w] = "COMPLETE")
               /\ \A r \in Range(s) \ revised : (status[r] = "COMPLETE" /\ Trades[r] >= MinTrades) => Score[r] <= Score[w]

\* Once the coordinator is done with a validation, whatever its cancel request
\* still has to do, no run of it is left to go on. (A coordinator that ended in
\* an exception leaves its runs to themselves.)
CancelReachesRuns ==
    \A v \in Validations : \A f \in 1 .. Folds[v] :
        coord[v] = "done" => \A r \in Children(v, f) : status[r] \in Active => cancel[r]

\* When the coordinator is done, or has recorded its failure, the validation no
\* longer reads as queued or running, the folds it aggregated are those whose
\* unseen test completed (it may be FAILED by now, if its completion could not
\* be read back), and a cancel has reached every run. A failure that could not
\* be recorded leaves the folds as they were.
EndedValidationIsSettled ==
    /\ CancelReachesRuns
    /\ \A v \in Validations : coord[v] \in {"done", "failed"} =>
        /\ ValidationStatus(v) \notin {"QUEUED", "RUNNING"}
        /\ aggregate[v] # None =>
              \A f \in aggregate[v] : f \in tested[v] /\ (status[Test[v][f]] = "COMPLETE" \/ Test[v][f] \in revised)

\* A submitted validation comes to its end, unless its process ends, its lease
\* is refused, or a run it waits for was dropped without a status: then it
\* waits for ever.
ValidationEnds ==
    \A v \in Validations :
        coord[v] = "queued" ~>
            \/ coord[v] \in {"done", "failed", "abandoned", "dropped"}
            \/ \E w \in Validations : \E f \in 1 .. Folds[w] : \E r \in Children(w, f) : job[r] \in Dropped

\* docs/API.md of the cancel of a validation: "completed folds and runs remain
\* immutable".
CompletedWorkImmutable ==
    [][/\ \A r \in Runs : status[r] = "COMPLETE" => status'[r] = "COMPLETE"
       /\ \A v \in Validations : \A f \in 1 .. Folds[v] :
             fold[v][f] = "COMPLETE" => fold'[v][f] = "COMPLETE"]_wfVars
=============================================================================
