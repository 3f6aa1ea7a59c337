---------------------------- MODULE BacktestJobs ----------------------------
(***************************************************************************)
(* The bounded queue of backtest runs: backend/backtest/jobs.py with the   *)
(* requests that feed it (backtest_routes.py, research_routes.py), the     *)
(* rows they write (repositories.py), the loop of BacktestEngine.run as    *)
(* far as it touches the row, and the start and stop of the containers.    *)
(* Two containers overlap during a deployment and share the database only. *)
(***************************************************************************)
EXTENDS Integers, Sequences, FiniteSets

CONSTANTS
    Runs,         \* every run that may be created
    Containers,   \* processes that share the database
    Requests,     \* POST requests that create runs
    RequestRuns,  \* RequestRuns[q]: the runs request q would create
    Key,          \* Key[q]: idempotency key of an experiment, NoKey for one backtest
    NoKey,
    None,
    MaxPending,   \* queue limit of a runner
    MaxWorkers,   \* threads of a runner
    Symbols,      \* symbols of every run
    First,        \* container that runs at the beginning
    MaxStarts,    \* bound: containers started
    MaxCancels,   \* bound: cancel requests
    MaxFaults     \* bound: failing statements, refused leases, invalid requests

ASSUME QueueLimits == MaxPending \in Nat /\ MaxWorkers \in Nat /\ MaxPending >= MaxWorkers /\ MaxWorkers > 0
ASSUME RequestsCreateRuns == RequestRuns \in [Requests -> SUBSET Runs] /\ \A q \in Requests : IsFiniteSet(RequestRuns[q])
ASSUME NoneIsNobody == None \notin Requests
ASSUME FirstIsAContainer == First \in Containers
\* A run has an id of its own.
ASSUME RunsAreFresh == \A p, q \in Requests : p # q => RequestRuns[p] \cap RequestRuns[q] = {}

VARIABLES
    status,       \* status[r]: column of backtest_runs, "absent" before the insert
    cancel,       \* cancel[r]: column cancel_requested
    process,      \* process[c]: "down", "up" or "stopping"
    futures,      \* futures[c]: _futures, the runs the runner of c counts
    queue,        \* queue[c]: runs waiting for a thread, first come first served
    reserved,     \* reserved[c]: _reserved
    event,        \* runs whose cancel event is set
    job,          \* job[r]: where the thread that executes r stands
    home,         \* home[r]: container that was given r
    symbolsDone,  \* symbols_completed
    request,      \* request[q]: where the request stands
    server,       \* server[q]: container that serves q
    experiment,   \* experiment[k]: request that wrote the experiment with key k
    starts,       \* counters of the bounded events
    faults,
    cancels

rows == <<status, cancel>>
memory == <<process, futures, queue, reserved, event, job, home>>
requests == <<request, server, experiment>>
counters == <<starts, faults, cancels>>
vars == <<rows, memory, symbolsDone, requests, counters>>

Active == {"QUEUED", "RUNNING"}

Terminal == {"COMPLETE", "FAILED", "CANCELLED", "INTERRUPTED"}

Keys == {Key[q] : q \in Requests} \ {NoKey}

\* Threads of a runner that execute a run.
AtWork == {"lease", "begin", "symbols", "readback", "pop"}

\* A future that ended, or will never run, without a word in the database.
Dropped == {"dropped", "leaked"}

Fault == faults < MaxFaults /\ faults' = faults + 1

Finish(r, outcome) == status' = [status EXCEPT ![r] = outcome]

Busy(c) == {r \in futures[c] : job[r] \in AtWork}

Size(q) == Cardinality(RequestRuns[q])

JobsInit ==
    /\ status = [r \in Runs |-> "absent"]
    /\ cancel = [r \in Runs |-> FALSE]
    /\ process = [c \in Containers |-> IF c = First THEN "up" ELSE "down"]
    /\ futures = [c \in Containers |-> {}]
    /\ queue = [c \in Containers |-> <<>>]
    /\ reserved = [c \in Containers |-> 0]
    /\ event = {}
    /\ job = [r \in Runs |-> "none"]
    /\ home = [r \in Runs |-> None]
    /\ symbolsDone = [r \in Runs |-> 0]
    /\ request = [q \in Requests |-> "idle"]
    /\ server = [q \in Requests |-> None]
    /\ experiment = [k \in Keys |-> None]
    /\ starts = 1 /\ faults = 0 /\ cancels = 0

-----------------------------------------------------------------------------
(* The queue: reserve, _submit_reserved, _release_reservation.             *)

\* Mutant: slots promised to other requests are not counted.
FitsFuturesOnly(c, n) == Cardinality(futures[c]) + n <= MaxPending

Fits(c, n) == Cardinality(futures[c]) + reserved[c] + n <= MaxPending

Reserve(c, n) == reserved' = [reserved EXCEPT ![c] = @ + n]

Release(c, n) == reserved' = [reserved EXCEPT ![c] = IF @ > n THEN @ - n ELSE 0]

\* A sequence of the elements of R: the order in which they are submitted.
Order(R) == CHOOSE s \in [1 .. Cardinality(R) -> R] : \A i, j \in DOMAIN s : s[i] = s[j] => i = j

\* _submit_reserved trades reserved slots for futures under one lock.
Enqueue(c, R) ==
    /\ reserved[c] >= Cardinality(R)
    /\ reserved' = [reserved EXCEPT ![c] = @ - Cardinality(R)]
    /\ futures' = [futures EXCEPT ![c] = @ \cup R]
    /\ queue' = [queue EXCEPT ![c] = @ \o Order(R)]
    /\ event' = event \ R
    /\ job' = [r \in Runs |-> IF r \in R THEN "queued" ELSE job[r]]
    /\ home' = [r \in Runs |-> IF r \in R THEN c ELSE home[r]]
    /\ UNCHANGED process

-----------------------------------------------------------------------------
(* Requests that create runs: create_backtest and submit_from_preview.     *)

\* The lookup of the idempotency key answers a repeated request.
AnswerExisting(q, c) ==
    /\ request[q] = "idle" /\ process[c] = "up"
    /\ Key[q] # NoKey /\ experiment[Key[q]] # None
    /\ request' = [request EXCEPT ![q] = "answered"]
    /\ UNCHANGED <<status, cancel, memory, symbolsDone, server, experiment, counters>>

\* Otherwise the slots are reserved, or the request is refused (429).
BeginRequest(q, c) ==
    /\ request[q] = "idle" /\ process[c] = "up"
    /\ Key[q] # NoKey => experiment[Key[q]] = None
    /\ IF Fits(c, Size(q))
         THEN /\ Reserve(c, Size(q))
              /\ request' = [request EXCEPT ![q] = "reserved"]
              /\ server' = [server EXCEPT ![q] = c]
         ELSE /\ request' = [request EXCEPT ![q] = "refused"]
              /\ UNCHANGED <<reserved, server>>
    /\ UNCHANGED <<status, cancel, process, futures, queue, event, job, home, symbolsDone, experiment, counters>>

\* Mutant: the insert does not look for the key again.
CreateRowsAlways(q) ==
    /\ request[q] = "reserved"
    /\ status' = [r \in Runs |-> IF r \in RequestRuns[q] THEN "QUEUED" ELSE status[r]]
    /\ experiment' = [k \in Keys |-> IF k = Key[q] THEN q ELSE experiment[k]]
    /\ request' = [request EXCEPT ![q] = "created"]
    /\ UNCHANGED <<cancel, memory, symbolsDone, server, counters>>

\* The rows are written in one transaction; a key that exists by now writes none.
CreateRows(q) ==
    /\ request[q] = "reserved"
    /\ IF Key[q] # NoKey /\ experiment[Key[q]] # None
         THEN /\ request' = [request EXCEPT ![q] = "answered"]
              /\ Release(server[q], Size(q))
              /\ UNCHANGED <<status, experiment>>
         ELSE /\ status' = [r \in Runs |-> IF r \in RequestRuns[q] THEN "QUEUED" ELSE status[r]]
              /\ experiment' = [k \in Keys |-> IF k = Key[q] THEN q ELSE experiment[k]]
              /\ request' = [request EXCEPT ![q] = "created"]
              /\ UNCHANGED reserved
    /\ UNCHANGED <<cancel, process, futures, queue, event, job, home, symbolsDone, server, counters>>

\* Mutant: a failing request keeps its slots.
RequestFailsHolding(q) ==
    /\ request[q] \in {"reserved", "created"}
    /\ Fault
    /\ request' = [request EXCEPT ![q] = "failed"]
    /\ UNCHANGED <<rows, memory, symbolsDone, server, experiment, starts, cancels>>

\* A statement fails before the commit, or the one that reads the rows back
\* fails after it: the context manager gives the slots back and the request
\* ends in an error either way.
RequestFails(q) ==
    /\ request[q] \in {"reserved", "created"}
    /\ Fault
    /\ Release(server[q], Size(q))
    /\ request' = [request EXCEPT ![q] = "failed"]
    /\ UNCHANGED <<status, cancel, process, futures, queue, event, job, home, symbolsDone, server, experiment, starts, cancels>>

SubmitRuns(q) ==
    /\ request[q] = "created" /\ process[server[q]] = "up"
    /\ Enqueue(server[q], RequestRuns[q])
    /\ request' = [request EXCEPT ![q] = "answered"]
    /\ UNCHANGED <<status, cancel, symbolsDone, server, experiment, counters>>

\* An executor that was shut down takes nothing: the slots were traded in
\* already and are given back once more.
SubmitAfterShutdown(q) ==
    /\ request[q] = "created" /\ process[server[q]] = "stopping"
    /\ Release(server[q], 2 * Size(q))
    /\ request' = [request EXCEPT ![q] = "failed"]
    /\ UNCHANGED <<status, cancel, process, futures, queue, event, job, home, symbolsDone, server, experiment, counters>>

\* cancel_backtest and cancel_experiment: request_cancel touches active rows
\* only; the event reaches the thread if this container has the future.
CancelRuns(c, R) ==
    /\ cancel' = [r \in Runs |-> cancel[r] \/ (r \in R /\ status[r] \in Active)]
    /\ event' = event \cup (R \cap futures[c])
    /\ cancels < MaxCancels /\ cancels' = cancels + 1

CancelRequest(c, r) ==
    /\ process[c] = "up" /\ status[r] # "absent"
    /\ CancelRuns(c, {r})
    /\ UNCHANGED <<status, process, futures, queue, reserved, job, home, symbolsDone, requests, starts, faults>>

CancelExperiment(c, k) ==
    /\ process[c] = "up" /\ experiment[k] # None
    /\ CancelRuns(c, {r \in RequestRuns[experiment[k]] : status[r] \in Active})
    /\ UNCHANGED <<status, process, futures, queue, reserved, job, home, symbolsDone, requests, starts, faults>>

-----------------------------------------------------------------------------
(* A thread of the runner: _execute, _execute_owned, BacktestEngine.run.   *)

Step(r, from, to) ==
    /\ job[r] = from
    /\ job' = [job EXCEPT ![r] = to]
    /\ UNCHANGED <<process, queue, reserved, event, home>>

\* The finally clause forgets the event and the future.
Forget(r) == futures' = [futures EXCEPT ![home[r]] = @ \ {r}]

Take(c) ==
    /\ process[c] = "up" /\ queue[c] # <<>>
    /\ Cardinality(Busy(c)) < MaxWorkers
    /\ job' = [job EXCEPT ![Head(queue[c])] = "lease"]
    /\ queue' = [queue EXCEPT ![c] = Tail(@)]
    /\ UNCHANGED <<status, cancel, process, futures, reserved, event, home, symbolsDone, requests, counters>>

\* Mutant: a cancelled run is skipped and its row forgotten.
EnterLeaseSkipping(r) ==
    /\ IF cancel[r] THEN Step(r, "lease", "pop") ELSE Step(r, "lease", "begin")
    /\ UNCHANGED <<rows, futures, symbolsDone, requests, counters>>

\* The leases of the run (WorkerLeaseGroup) are all entered, and a cancel that
\* was asked for while the run waited ends it here.
EnterLease(r) ==
    /\ IF cancel[r]
         THEN Finish(r, "CANCELLED") /\ Step(r, "lease", "pop")
         ELSE Step(r, "lease", "begin") /\ UNCHANGED status
    /\ UNCHANGED <<cancel, futures, symbolsDone, requests, counters>>

\* A refused lease or an exception on the way in: no status is written.
LeaseRefused(r) ==
    /\ Fault
    /\ Step(r, "lease", "dropped")
    /\ Forget(r)
    /\ UNCHANGED <<status, cancel, symbolsDone, requests, starts, cancels>>

\* The lease factory reads the database before the try statement begins: when
\* it raises, the finally clause does not run and the future stays counted.
LeaseFactoryFails(r) ==
    /\ Fault
    /\ Step(r, "lease", "leaked")
    /\ UNCHANGED <<status, cancel, futures, symbolsDone, requests, starts, cancels>>

\* Mutant: mark_started without its condition on the status.
BeginEngineAnyRow(r) ==
    /\ Step(r, "begin", "symbols")
    /\ status' = [status EXCEPT ![r] = "RUNNING"]
    /\ UNCHANGED <<cancel, futures, symbolsDone, requests, counters>>

\* mark_started leaves a row alone that is no longer QUEUED.
BeginEngine(r) ==
    /\ Step(r, "begin", "symbols")
    /\ status' = [status EXCEPT ![r] = IF @ = "QUEUED" THEN "RUNNING" ELSE @]
    /\ UNCHANGED <<cancel, futures, symbolsDone, requests, counters>>

\* Building the engine or validating the request raises before the row is
\* touched; the exception is logged.
EngineNotBuilt(r) ==
    /\ Fault
    /\ Step(r, "begin", "dropped")
    /\ Forget(r)
    /\ UNCHANGED <<status, cancel, symbolsDone, requests, starts, cancels>>

\* One symbol: look for a cancel, report progress, replay it.
RunSymbol(r) ==
    /\ symbolsDone[r] < Symbols
    /\ IF r \in event \/ cancel[r]
         THEN Finish(r, "CANCELLED") /\ Step(r, "symbols", "pop") /\ UNCHANGED symbolsDone
         ELSE /\ Step(r, "symbols", "symbols")
              /\ symbolsDone' = [symbolsDone EXCEPT ![r] = @ + 1]
              /\ UNCHANGED status
    /\ UNCHANGED <<cancel, futures, requests, counters>>

\* finish commits the status and then reads the row back.
CompleteRun(r) ==
    /\ symbolsDone[r] = Symbols
    /\ Finish(r, "COMPLETE")
    /\ Step(r, "symbols", "readback")
    /\ UNCHANGED <<cancel, futures, symbolsDone, requests, counters>>

ReadBack(r) ==
    /\ Step(r, "readback", "pop")
    /\ UNCHANGED <<status, cancel, futures, symbolsDone, requests, counters>>

\* A statement of the loop fails, or the one that reads the completed row back:
\* FAILED is recorded whatever the row says, if that can be written.
EngineFails(r) ==
    /\ Fault
    /\ job[r] \in {"symbols", "readback"}
    /\ \/ Finish(r, "FAILED") /\ Step(r, job[r], "pop") /\ UNCHANGED futures
       \/ UNCHANGED status /\ Step(r, job[r], "dropped") /\ Forget(r)
    /\ UNCHANGED <<cancel, symbolsDone, requests, starts, cancels>>

PopFuture(r) ==
    /\ Step(r, "pop", "done")
    /\ Forget(r)
    /\ UNCHANGED <<status, cancel, symbolsDone, requests, counters>>

-----------------------------------------------------------------------------
(* Containers: PlatformRuntime.start and stop, and crashes.                *)

\* recover: a starting container takes every active run for dead.
InterruptStale == status' = [r \in Runs |-> IF status[r] \in Active THEN "INTERRUPTED" ELSE status[r]]

StartContainer(c) ==
    /\ process[c] = "down" /\ starts < MaxStarts
    /\ starts' = starts + 1
    /\ process' = [process EXCEPT ![c] = "up"]
    /\ InterruptStale
    /\ UNCHANGED <<cancel, futures, queue, reserved, event, job, home, symbolsDone, requests, faults, cancels>>

\* shutdown sets the events and drops what no thread has taken yet.
StopContainer(c) ==
    /\ process[c] = "up"
    /\ process' = [process EXCEPT ![c] = "stopping"]
    /\ event' = event \cup futures[c]
    /\ job' = [r \in Runs |-> IF home[r] = c /\ job[r] = "queued" THEN "dropped" ELSE job[r]]
    /\ queue' = [queue EXCEPT ![c] = <<>>]
    /\ UNCHANGED <<status, cancel, futures, reserved, home, symbolsDone, requests, counters>>

\* The process ends: after a stop, once the database pool is closed, or at any moment.
EndProcess(c) ==
    /\ process[c] # "down"
    /\ process' = [process EXCEPT ![c] = "down"]
    /\ futures' = [futures EXCEPT ![c] = {}]
    /\ queue' = [queue EXCEPT ![c] = <<>>]
    /\ reserved' = [reserved EXCEPT ![c] = 0]
    /\ event' = event \ futures[c]
    /\ job' = [r \in Runs |-> IF r \in futures[c] THEN "dropped" ELSE job[r]]
    /\ request' = [q \in Requests |-> IF server[q] = c /\ request[q] \in {"reserved", "created"} THEN "failed" ELSE request[q]]
    /\ UNCHANGED <<status, cancel, home, symbolsDone, server, experiment, counters>>

-----------------------------------------------------------------------------
RequestStep(q) ==
    \/ \E c \in Containers : AnswerExisting(q, c) \/ BeginRequest(q, c)
    \/ CreateRows(q) \/ SubmitRuns(q) \/ SubmitAfterShutdown(q)

WorkerStep(r) ==
    \/ EnterLease(r) \/ BeginEngine(r)
    \/ RunSymbol(r) \/ CompleteRun(r) \/ ReadBack(r) \/ PopFuture(r)

WorkerFault(r) == LeaseRefused(r) \/ LeaseFactoryFails(r) \/ EngineNotBuilt(r) \/ EngineFails(r)

JobsNext ==
    \/ \E q \in Requests : RequestStep(q) \/ RequestFails(q)
    \/ \E c \in Containers, r \in Runs : CancelRequest(c, r)
    \/ \E c \in Containers, k \in Keys : CancelExperiment(c, k)
    \/ \E c \in Containers : Take(c)
    \/ \E r \in Runs : WorkerStep(r) \/ WorkerFault(r)
    \/ \E c \in Containers : StartContainer(c) \/ StopContainer(c) \/ EndProcess(c)

\* Threads that can run are scheduled and requests are served to their end;
\* faults, cancels, stops and starts may never happen.
JobsFairness ==
    /\ \A q \in Requests : WF_vars(CreateRows(q) \/ SubmitRuns(q) \/ SubmitAfterShutdown(q))
    /\ \A c \in Containers : WF_vars(Take(c))
    /\ \A r \in Runs : WF_vars(WorkerStep(r))

JobsSpec == JobsInit /\ [][JobsNext]_vars /\ JobsFairness

-----------------------------------------------------------------------------
(* Properties.                                                             *)

Life == INSTANCE RunLifecycle WITH Runs <- Runs, status <- status, cancel <- cancel

\* Every row, future, reservation and thread is one the code can have.
TypeOK ==
    /\ status \in [Runs -> {"absent"} \cup Active \cup Terminal]
    /\ cancel \in [Runs -> BOOLEAN]
    /\ process \in [Containers -> {"down", "up", "stopping"}]
    /\ futures \in [Containers -> SUBSET Runs]
    /\ queue \in [Containers -> Seq(Runs)]
    /\ reserved \in [Containers -> Nat]
    /\ event \subseteq Runs
    /\ job \in [Runs -> {"none", "queued", "done"} \cup AtWork \cup Dropped]
    /\ home \in [Runs -> Containers \cup {None}]
    /\ symbolsDone \in [Runs -> 0 .. Symbols]
    /\ request \in [Requests -> {"idle", "reserved", "created", "answered", "refused", "failed"}]
    /\ server \in [Requests -> Containers \cup {None}]
    /\ experiment \in [Keys -> Requests \cup {None}]
    /\ starts \in 0 .. MaxStarts
    /\ faults \in 0 .. MaxFaults
    /\ cancels \in 0 .. MaxCancels

\* reserve refuses what does not fit, and trading a reservation for futures
\* never takes a runner above its limit, whatever requests, failures and
\* cancels come between the two locks.
QueueBounded == \A c \in Containers : Cardinality(futures[c]) + reserved[c] <= MaxPending

\* Slots held by requests of a container that are still under way.
SlotsUnderWay(c) == UNION {RequestRuns[q] : q \in {p \in Requests : server[p] = c /\ request[p] \in {"reserved", "created"}}}

\* While a container serves, the slots its runner counts are those of requests
\* under way and of runs that wait or execute (and of a future whose lease
\* could not even be built): none is released twice and none is kept.
SlotsAreOwned ==
    \A c \in Containers : process[c] = "up" =>
        /\ reserved[c] = Cardinality(SlotsUnderWay(c))
        /\ futures[c] = {r \in Runs : home[r] = c /\ job[r] \in {"queued", "leaked"} \cup AtWork}

\* However many requests carry the same idempotency key, at once or again
\* after a failure, only one of them ever has rows.
OneExperimentPerKey ==
    \A p, q \in Requests :
        (p # q /\ Key[p] = Key[q] /\ Key[p] # NoKey) =>
            ~ (\E r \in RequestRuns[p], s \in RequestRuns[q] : status[r] # "absent" /\ status[s] # "absent")

\* The rows follow the life of a run: no run completes that did not begin, and
\* a final status is final, with two exceptions: a run declared INTERRUPTED by a
\* starting container may still be finished by the container it belongs to, and
\* a completed run whose row could not be read back is FAILED afterwards
\* (WalkForward's CompletedWorkImmutable states what the docs say).
ImplementsLifecycle == Life!Spec

\* Mutant: a running variant does not hide the ones that have ended.
ExperimentStatusOfMost(k) ==
    LET all == {status[r] : r \in RequestRuns[experiment[k]]}
    IN  IF all \cap {"COMPLETE", "CANCELLED"} # {} THEN "COMPLETE" ELSE "RUNNING"

\* The status ResearchExperimentRepository derives from the variants' runs.
ExperimentStatus(k) ==
    LET all == {status[r] : r \in RequestRuns[experiment[k]]}
    IN  CASE all \in {{"COMPLETE"}, {"CANCELLED"}} -> CHOOSE s \in all : TRUE
          [] "RUNNING" \in all -> "RUNNING"
          [] "RUNNING" \notin all /\ "QUEUED" \in all -> "QUEUED"
          [] all \subseteq {"FAILED", "INTERRUPTED"} -> "FAILED"
          [] OTHER -> "PARTIAL"

\* An experiment that reads as over never reads as queued or running again. Its
\* runs may still change, but only by the thread that executes them: a run that
\* was declared INTERRUPTED while its container lived is brought to its end, and
\* one whose completion is being read back may turn FAILED. No request, start or
\* other thread touches it.
EndedExperimentStaysEnded ==
    [][\A k \in Keys : (experiment[k] # None /\ ExperimentStatus(k) \notin Active) =>
           /\ ExperimentStatus(k)' \notin Active
           /\ \A r \in RequestRuns[experiment[k]] :
                \/ status'[r] = status[r]
                \/ status[r] = "INTERRUPTED" /\ job[r] \in AtWork /\ status'[r] \in Terminal
                \/ status[r] = "COMPLETE" /\ job[r] = "readback" /\ status'[r] = "FAILED"]_vars

\* Every row that is created leaves QUEUED and RUNNING, unless its request
\* died before it was submitted or its thread dropped it without a word.
RunSettles ==
    \A r \in Runs :
        status[r] \in Active ~>
            \/ status[r] \in Terminal
            \/ job[r] \in Dropped
            \/ \E q \in Requests : r \in RequestRuns[q] /\ request[q] = "failed"

=============================================================================
