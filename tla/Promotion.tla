------------------------------ MODULE Promotion ------------------------------
(***************************************************************************)
(* From a completed backtest to a running worker: approvals, strategy      *)
(* configurations and deployments of one market, and the reconciliation    *)
(* that makes the signal workers follow the stored deployments             *)
(* (approve_backtest of backend/api/backtest_routes.py, save_config and    *)
(* save_deployment of backend/api/settings_routes.py, their repositories   *)
(* and reconcile_signal_workers of backend/platform_runtime.py).           *)
(*                                                                         *)
(* Requests run in the threads of the web server, each of their database   *)
(* calls a step of its own; any of them may fail there, which ends it.     *)
(* Stored configurations are identified by their name: saving a name again *)
(* keeps the id.  What a worker does is in LiveSignals.                    *)
(***************************************************************************)
EXTENDS Integers, FiniteSets

CONSTANTS
    Strategies,
    BacktestRuns,
    RunOf,          \* run -> [strategy, version, timeframe, content, symbols, complete]
    Watchlists,     \* watchlist -> its symbols
    Timeframes,     \* what a saved deployment may ask for
    Contents,       \* configurations with their risk settings
    WebThreads,
    LastVersion,    \* bound: versions of the built-in strategies
    MaxSaves        \* bound: requests

ASSUME PromotionBounds == {LastVersion, MaxSaves} \subseteq Nat

VARIABLES
    registered,     \* the version that the registry of this build holds
    platform,       \* "starting", "up" or "disabled"
    configs,        \* <<strategy, name>> -> its row of strategy_configs
    deployments,    \* strategy -> its row of strategy_deployments
    approvals,      \* strategy_approvals
    workers,        \* the registered workers: key -> worker or NoWorker
    threads,        \* the worker threads that nobody has told to stop
    leaving,        \* worker threads that were told to stop and still run
    task,           \* web thread -> where its request is
    saves,          \* requests and starts so far
    overlapped,     \* two requests were under way together
    unapplied       \* a request failed, and no reconciliation has read the deployments since

promotionVars == <<registered, platform, configs, deployments, approvals, workers, threads, leaving, task, saves, overlapped, unapplied>>
stored == <<configs, deployments, approvals>>
runtime == <<registered, platform, workers, threads, leaving>>
-----------------------------------------------------------------------------
Names == {"default"} \cup BacktestRuns
DeploymentKeys == Strategies \X (Timeframes \cup {RunOf[r].timeframe : r \in BacktestRuns})
NoConfigRow == [exists |-> FALSE, content |-> "none", active |-> FALSE]
NoDeployment == [exists |-> FALSE, version |-> 0, config |-> "none", watchlist |-> "none", timeframe |-> "none", mode |-> "OFF"]
NoTask == [at |-> "idle", kind |-> "none", run |-> "none", row |-> NoDeployment, strategy |-> "none",
           number |-> 0, desired |-> {}, stale |-> {}, key |-> <<>>]
NoWorker == [by |-> 0, key |-> <<>>, signature |-> <<>>]
Idle == \A w \in WebThreads : task[w].at = "idle"

KeyOf(strategy, row) == <<strategy, row.timeframe>>
\* What reconcile_signal_workers compares: not the contents of the configuration.
Signature(row) == [mode |-> row.mode, config |-> row.config, watchlist |-> row.watchlist, version |-> row.version]

Go(w, at) == task' = [task EXCEPT ![w].at = at]
Begin(w, kind, strategy, run, row) ==
    /\ platform = "up" /\ task[w].at = "idle" /\ saves < MaxSaves
    /\ saves' = saves + 1
    /\ overlapped' = (overlapped \/ ~Idle)
    /\ task' = [task EXCEPT ![w] = [NoTask EXCEPT !.at = kind, !.kind = kind, !.number = saves + 1, !.strategy = strategy, !.run = run, !.row = row]]
    /\ UNCHANGED <<stored, runtime, unapplied>>
-----------------------------------------------------------------------------
\* StrategyConfigRepository.save: one transaction that takes the active mark from the
\* others; the name keeps its id.
SaveConfigRow(strategy, name, content) ==
    configs' = [c \in DOMAIN configs |->
        IF c = <<strategy, name>> THEN [exists |-> TRUE, content |-> content, active |-> TRUE]
        ELSE IF c[1] = strategy THEN [configs[c] EXCEPT !.active = FALSE] ELSE configs[c]]

\* approve_backtest up to its checks: the run is complete, of the registered version and
\* screened on exactly these symbols; Paper needs the approval for Signals, and either
\* is given once.
ApprovedFor(run, mode) == {a \in approvals : a.run = run /\ a.mode = mode}
SignalsApproved(run, mode) == mode = "PAPER" => ApprovedFor(run, "SIGNALS") # {}
SignalsConfig(run, mode) ==
    IF mode = "PAPER" /\ ApprovedFor(run, "SIGNALS") # {} THEN (CHOOSE a \in ApprovedFor(run, "SIGNALS") : TRUE).config ELSE "none"
Approve(w, run, mode, watchlist) ==
    LET r == RunOf[run] IN
    /\ r.complete /\ r.version = registered
    /\ Watchlists[watchlist] = r.symbols
    /\ SignalsApproved(run, mode) /\ ApprovedFor(run, mode) = {}
    /\ Begin(w, "approve", r.strategy, run,
             [exists |-> TRUE, version |-> r.version, config |-> SignalsConfig(run, mode), watchlist |-> watchlist, timeframe |-> r.timeframe, mode |-> mode])

\* The configuration that was approved for Signals is taken when it still is what the
\* run used; without one, that of the run is stored and activated.
ApproveConfig(w) ==
    LET r == RunOf[task[w].run]
        config == task[w].row.config
    IN
    /\ task[w].at = "approve"
    /\ \/ /\ config = "none"
          /\ SaveConfigRow(r.strategy, task[w].run, r.content)
          /\ task' = [task EXCEPT ![w].at = "deploy", ![w].row.config = task[w].run]
       \/ /\ config # "none"
          /\ task' = [task EXCEPT ![w] = IF configs[<<r.strategy, config>>].content = r.content THEN [@ EXCEPT !.at = "deploy"] ELSE NoTask]
          /\ UNCHANGED configs
    /\ UNCHANGED <<deployments, approvals, runtime, saves, overlapped, unapplied>>

\* save_config: the row first, then the deployment as it is read, with the new id.
SaveConfig(w, strategy, name, content) == Begin(w, "config", strategy, name, [NoDeployment EXCEPT !.config = content])
StoreConfig(w) ==
    /\ task[w].at = "config"
    /\ SaveConfigRow(task[w].strategy, task[w].run, task[w].row.config)
    /\ Go(w, "current")
    /\ UNCHANGED <<deployments, approvals, runtime, saves, overlapped, unapplied>>
ReadCurrent(w) ==
    /\ task[w].at = "current"
    /\ LET current == deployments[task[w].strategy]
       IN  task' = [task EXCEPT ![w].at = IF current.exists THEN "deploy" ELSE "read",
                                ![w].row = [current EXCEPT !.config = task[w].run, !.version = registered]]
    /\ UNCHANGED <<stored, runtime, saves, overlapped, unapplied>>

\* save_deployment: a mode other than OFF needs an active configuration.
ActiveConfig(strategy) == {c \in DOMAIN configs : c[1] = strategy /\ configs[c].active}
SaveDeployment(w, strategy, timeframe, mode, watchlist) ==
    LET active == ActiveConfig(strategy) IN
    /\ mode # "OFF" => active # {}
    /\ Begin(w, "deploy", strategy, "none",
             [exists |-> TRUE, version |-> registered, config |-> IF active = {} THEN "none" ELSE (CHOOSE c \in active : TRUE)[2],
              watchlist |-> watchlist, timeframe |-> timeframe, mode |-> mode])

StoreDeployment(w) ==
    /\ task[w].at = "deploy"
    /\ deployments' = [deployments EXCEPT ![task[w].strategy] = task[w].row]
    /\ Go(w, IF task[w].kind = "approve" THEN "evidence" ELSE "read")
    /\ UNCHANGED <<configs, approvals, runtime, saves, overlapped, unapplied>>

\* StrategyApprovalRepository.save: the first evidence for run and mode stays.
StoreApproval(w) ==
    /\ task[w].at = "evidence"
    /\ LET row == task[w].row
       IN  approvals' = IF ApprovedFor(task[w].run, row.mode) # {} THEN approvals
                        ELSE approvals \cup {[run |-> task[w].run, mode |-> row.mode, config |-> row.config, watchlist |-> row.watchlist]}
    /\ Go(w, "read")
    /\ UNCHANGED <<configs, deployments, runtime, saves, overlapped, unapplied>>

\* A database call of a request fails.
RequestFailed(w) ==
    /\ task[w].at \in {"approve", "config", "current", "deploy", "evidence", "read"} /\ platform = "up"
    /\ task' = [task EXCEPT ![w] = NoTask]
    /\ unapplied' = TRUE
    /\ UNCHANGED <<stored, runtime, saves, overlapped>>
-----------------------------------------------------------------------------
\* reconcile_signal_workers: no lock is held from one step to the next.
ReadDesired(w) ==
    /\ task[w].at = "read"
    /\ task' = [task EXCEPT ![w].at = "compare", ![w].desired =
            {<<KeyOf(s, deployments[s]), Signature(deployments[s])>> : s \in {t \in Strategies : deployments[t].exists}}]
    /\ unapplied' = FALSE
    /\ UNCHANGED <<stored, runtime, saves, overlapped>>

Existing == {key \in DeploymentKeys : workers[key] # NoWorker}
DesiredKeys(desired) == {d[1] : d \in desired}
StaleUnlessGone(desired) == {workers[key] : key \in Existing \ DesiredKeys(desired)}
StaleWorkers(desired) ==
    IF Existing # DesiredKeys(desired) THEN {workers[key] : key \in Existing}
    ELSE {workers[key] : key \in {k \in Existing : <<k, workers[k].signature>> \notin desired}}
CompareWorkers(w) ==
    /\ task[w].at = "compare"
    /\ task' = [task EXCEPT ![w].at = "stop", ![w].stale = StaleWorkers(task[w].desired)]
    /\ UNCHANGED <<stored, runtime, saves, overlapped, unapplied>>

\* A stale worker is stopped, then whatever is registered under its name is removed.
\* stop waits ten seconds for the thread and returns, whether it has ended or not.
StopStale(w, worker) ==
    /\ task[w].at = "stop" /\ worker \in task[w].stale
    /\ threads' = threads \ {worker}
    /\ \/ leaving' = leaving \ {worker}
       \/ worker \in threads \cup leaving /\ leaving' = leaving \cup {worker}
    /\ task' = [task EXCEPT ![w].at = "pop", ![w].stale = @ \ {worker}, ![w].key = worker.key]
    /\ UNCHANGED <<stored, registered, platform, workers, saves, overlapped, unapplied>>
\* A thread that was told to stop comes to the end of its poll or of its recovery.
EndThread(worker) ==
    /\ worker \in leaving
    /\ leaving' = leaving \ {worker}
    /\ UNCHANGED <<stored, registered, platform, workers, threads, task, saves, overlapped, unapplied>>
PopStale(w) ==
    /\ task[w].at = "pop"
    /\ workers' = [workers EXCEPT ![task[w].key] = NoWorker]
    /\ Go(w, "stop")
    /\ UNCHANGED <<stored, registered, platform, threads, leaving, saves, overlapped, unapplied>>

\* The next desired worker: one that is registered stays; the others are built for the
\* registered version of their strategy, or the reconciliation ends with an exception.
Considers(w, d) == task[w].at = "stop" /\ task[w].stale = {} /\ d \in task[w].desired
KeepWorker(w, d) ==
    /\ Considers(w, d) /\ workers[d[1]] # NoWorker
    /\ task' = [task EXCEPT ![w].desired = @ \ {d}]
    /\ UNCHANGED <<stored, runtime, saves, overlapped, unapplied>>
BuildWorker(w, d) ==
    /\ Considers(w, d) /\ workers[d[1]] = NoWorker /\ d[2].version = registered
    /\ task' = [task EXCEPT ![w].at = "register", ![w].key = d[1]]
    /\ UNCHANGED <<stored, runtime, saves, overlapped, unapplied>>
BuildFails(w, d) ==
    /\ Considers(w, d) /\ workers[d[1]] = NoWorker /\ d[2].version # registered
    /\ task' = [task EXCEPT ![w] = NoTask]
    /\ unapplied' = TRUE
    /\ platform' = IF platform = "starting" THEN "disabled" ELSE platform
    /\ UNCHANGED <<stored, registered, workers, threads, leaving, saves, overlapped>>
RegisterWorker(w) ==
    /\ task[w].at = "register"
    /\ LET d == CHOOSE e \in task[w].desired : e[1] = task[w].key
           worker == [by |-> task[w].number, key |-> d[1], signature |-> d[2]]
       IN  /\ workers' = [workers EXCEPT ![d[1]] = worker]
           /\ threads' = threads \cup {worker}
           /\ task' = [task EXCEPT ![w].at = "stop", ![w].desired = @ \ {d}]
    /\ UNCHANGED <<stored, registered, platform, leaving, saves, overlapped, unapplied>>
EndReconcile(w) ==
    /\ task[w].at = "stop" /\ task[w].stale = {} /\ task[w].desired = {}
    /\ task' = [task EXCEPT ![w] = NoTask]
    /\ platform' = "up"
    /\ UNCHANGED <<stored, registered, workers, threads, leaving, saves, overlapped, unapplied>>

\* The service is restarted, perhaps with another build: workers and requests are gone,
\* and the start reconciles before requests are served.
Restart(w, version) ==
    /\ saves < MaxSaves /\ saves' = saves + 1
    /\ registered' = version /\ platform' = "starting"
    /\ workers' = [key \in DeploymentKeys |-> NoWorker] /\ threads' = {} /\ leaving' = {}
    /\ task' = [v \in WebThreads |-> IF v = w THEN [NoTask EXCEPT !.at = "read", !.kind = "start", !.number = saves + 1] ELSE NoTask]
    /\ UNCHANGED <<stored, overlapped, unapplied>>
-----------------------------------------------------------------------------
PromotionInit ==
    /\ registered = 1 /\ platform = "up"
    /\ configs = [c \in Strategies \X Names |-> NoConfigRow]
    /\ deployments = [s \in Strategies |-> NoDeployment] /\ approvals = {}
    /\ workers = [key \in DeploymentKeys |-> NoWorker] /\ threads = {} /\ leaving = {}
    /\ task = [w \in WebThreads |-> NoTask] /\ saves = 0
    /\ overlapped = FALSE /\ unapplied = FALSE

PromotionNext ==
    \/ \E w \in WebThreads :
        \/ \E run \in BacktestRuns, mode \in {"SIGNALS", "PAPER"}, list \in DOMAIN Watchlists : Approve(w, run, mode, list)
        \/ \E s \in Strategies : \/ \E name \in Names, content \in Contents : SaveConfig(w, s, name, content)
                                 \/ \E tf \in Timeframes, mode \in {"OFF", "SIGNALS", "PAPER"}, list \in DOMAIN Watchlists : SaveDeployment(w, s, tf, mode, list)
        \/ ApproveConfig(w) \/ StoreConfig(w) \/ ReadCurrent(w) \/ StoreDeployment(w) \/ StoreApproval(w) \/ RequestFailed(w)
        \/ ReadDesired(w) \/ CompareWorkers(w) \/ PopStale(w) \/ RegisterWorker(w) \/ EndReconcile(w)
        \/ \E worker \in task[w].stale : StopStale(w, worker)
        \/ \E d \in task[w].desired : KeepWorker(w, d) \/ BuildWorker(w, d) \/ BuildFails(w, d)
    \/ \E worker \in leaving : EndThread(worker)
    \/ \E version \in 1 .. LastVersion : Restart(CHOOSE w \in WebThreads : TRUE, version)

PromotionSpec == PromotionInit /\ [][PromotionNext]_promotionVars
-----------------------------------------------------------------------------
\* When no request is under way and the last one was carried to its end, the worker
\* threads that nobody has told to stop are those the stored deployments ask for, each
\* with the stored mode, configuration, watchlist and version: "Apply saved strategy
\* modes immediately without restarting the service" (backend/platform_runtime.py).
Reconciled == Idle /\ platform = "up" /\ ~unapplied
AskedFor == {<<KeyOf(s, deployments[s]), Signature(deployments[s])>> : s \in {u \in Strategies : deployments[u].exists}}
SavedModesRun ==
    Reconciled =>
        /\ {<<t.key, t.signature>> : t \in threads} = AskedFor
        /\ \A t, u \in threads : t.key = u.key => t = u

\* As long as no two requests overlapped, reconciliation makes the workers what the
\* deployments say, through restarts, failed requests and failed builds.  It says nothing
\* of `leaving': a thread that was told to stop may be in the middle of a long poll, so a
\* mode that was saved over may run on beside its successor.
ReconcileSettles == ~overlapped => SavedModesRun

=============================================================================
