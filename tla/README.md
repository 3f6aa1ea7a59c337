# Formal model of OpenDelta NSE

TLA+ modules, TLC runs and TLAPS proofs about the parts of `src/backend` where
an order of steps, a crash or a second process can break something.
`PROJECT.json` holds the exact correspondence (definition to source lines), the
runs, the mutants that show what each property can catch, the findings and the
hazards.

## 1. The system

OpenDelta NSE is one Python process (FastAPI plus worker threads) over a
PostgreSQL/TimescaleDB database, deployed as a blue and a green container that
overlap while one replaces the other, with a few timer-driven processes beside it
(backfill, collector).

| Component | State | Operations | Hard parts | Module |
|---|---|---|---|---|
| FIFO inventory (`core/fifo.py`) | queue of slices | add, consume, preview, target | partial slices, rounding | `FifoInventory` |
| Paper broker (`paper_trading/`) and its repositories | lots, queue, inventory, cash in memory; accounts, orders, lots, trades, pending entries in tables | on_signal, candle handlers, fill, ladder, mark, exits, manual close, reset, rebuild | many statements per handler, each its own transaction; several feeds; restart at any point | `PaperBroker` |
| Worker leases (`monitoring/leases.py`, `repository.py`) | `worker_leases` rows, guards, heartbeat threads | acquire, heartbeat, release, expire | takeover, late statements, lost leases, crashes | `WorkerLease` |
| Signal workers and engine (`signals/`), TradingView (`integrations/tradingview.py`) | candle history, live signals, events | recover, poll, evaluate, publish, advance, ingest | candles and alerts again after a restart, errors inside a batch | `LiveSignals` |
| Backtest jobs (`backtest/jobs.py`), parameter experiments | queue slots, futures, cancel events, run rows | reserve, submit, execute, cancel, recover | cancel against start, recovery of a process that still runs | `BacktestJobs`, `RunLifecycle` |
| Walk-forward (`research/`) | validations, folds | plan, submit, train, rank, test, cancel | cancel races the coordinator, waiting for a child | `WalkForward`, `ResearchPlan` |
| Backtest engine (`backtest/engine.py`) | lots, ladder, batch of trades of one replay | fill, exit, order, write | order of a bar's steps, projection of daily signals, cancel | `BacktestReplay` |
| Market data (`data/timescale.py`, `data/worker.py`, `data/refresh.py`) | repair jobs with a claim, candles, health | enqueue, claim, fetch, advance, fail, repair, dual write | a claim that expired while its worker goes on | `Backfill` |
| Collector (`collector.py`) | token file, published rows | refresh, retry passes, publish; token reuse | provider moves on meanwhile, processes share a file | `Collector`, `ProviderToken` |
| Crypto market service (`markets/crypto/`) | instruments, candle cache; armed sides, open trade of a backtest | add, remove, sync, scan, backtest | a cache that is not of one piece; off-by-one between signal, entry and monitored bars | `CryptoMarket`, `CryptoPullback` |
| Option interest (`markets/nse/`) | live state, observations and regimes on file | packets, completed bars, import, filter | parts of different moments, torn appends | `OiRegime`, `OiHistory`, `OiFilter` |
| Screener (`screener/`, `api/screener_routes.py`) | runs, results, watchlists, profiles | run, rank, save, import, activate | shutdown in the middle, limits in two places | `Screener` |
| Monitoring (`monitoring/service.py`) | alerts, deliveries | examine, raise, notify, acknowledge, resolve | two monitors, crash between alert and notice | `OperationsAlerts` |
| Agent access (`agent/`) | tokens, request records | reserve, dispatch, complete, fail | repeated and lost calls | `AgentRequests` |
| Exchange connections (`connections/`) | credentials, permissions, audit | create, replace, test, rotate, enable, delete | requests that read, ask the exchange and write | `ExchangeConnections` |
| Platform runtime, settings, approvals | configurations, deployments, approvals, workers | approve, save, reconcile, restart | reconciliations without a lock over their steps | `Promotion` |
| Strategies, indicators, AI copilot, migrations, web | none, or per request | computation, I/O | floating point | not modelled |

How they meet: a signal worker polls a source, feeds the engine, and passes new
signals and completed candles to the broker of its market. One lock makes the
broker's handlers mutually exclusive; request threads enter it for a manual close
or a reset. Every worker runs inside the leases of its task, a backtest run
inside a group of them. Experiments and walk-forward validations are clients of
the backtest queue. Deployments, saved by requests or approved from a backtest,
decide which workers run. The parts of the last rows of the table meet the rest
only in the database.

## 2. Modules

Components that share state are composed: `PaperBroker` extends `FifoInventory`,
`BacktestReplay` too, `WalkForward` extends `BacktestJobs`, which instantiates
`RunLifecycle`. The others share nothing but the database server. The modules
`MCMarketData`, `MCStrategyInputs` and `MCPlatformServices` therefore put several
of them in one run: a variable `part` picks one initially and never changes, so
their state spaces add up instead of multiplying.

**FifoInventory.** The operators of `core/fifo.py` on a sequence of slices (`lot`,
`price`, `qty`). `Consume` is the loop of `consume` in closed form: the slices in front
that the sale exhausts leave the queue (`Exhausted`), and `Taken(slices, qty, i)` is
what it takes of slice `i` given what lies before it. Sums are a recursive function of
the prefix (`SumTo`, `Total`). `NetProfitTarget` is the smallest whole price at which
the sale, after its costs, keeps the percentage.

**PaperBroker.** One market, one symbol, any number of deployments. Database: `orders`,
`lots`, `trades`, `cash`, `pending`; memory: `openLots`, `queue`, `fifo`, `cashView`.
`todo` is what the running handler still has to do, a stack of frames, one per call or
loop; a step makes at most one transaction, so `Crash` and `DatabaseError` come between
any two of them. `cursor` is the last candle each feed has forwarded; a worker that
starts again forwards the session's market candles anew (`Resumed`). `Crash` loses the
memory and rebuilds it from the tables as `__init__` does: one container ends and the
next one starts after it. Where containers overlap (`HandOvers`), the next one builds
its broker when it starts (`StartStandby`, the image in `standby`) and uses it once its
worker gets the lease (`TakeOver`), without reading the tables again; `stale` records
that the image was older than the tables by then, and `Calm` and the properties that
need the tables' memory except what follows (section 4). Prices, quantities and money
are integers; fees and slippage are a constant per unit; the strategy may signal on any
candle it evaluates. Where the trades cannot be replayed, the code raises and no broker
exists; the model goes on with what is left, so `ReplayNeverShort` says that this never
happens.

**WorkerLease.** Workers that compete for one task, each with its ordered list of
leases. A guard has `held` (`acquired`), a heartbeat `thread` and `since`, the age
of its last renewal. A call reads the clock first and changes the row up to
`MaxDelay` ticks later; a heartbeat may still be under way when its guard is left.
Time is relative, so there is no clock to bound. The heartbeat interval is left
open: renewals may come early, late or never.

**RunLifecycle, BacktestJobs.** `RunLifecycle` is what the platform relies on about
a row of `backtest_runs`: QUEUED, RUNNING, one of four ends; an end is final,
except that INTERRUPTED may be overwritten by the container the run belongs to, and
COMPLETE by FAILED when the row could not be read back (`ReadBack` of `BacktestJobs`).
`BacktestJobs` has the runner of each container (futures, queue, reservations,
events), the steps of `_execute` and of `BacktestEngine.run` that touch the row,
the requests that reserve, write and submit, and start, stop and death of
containers.

**WalkForward.** The coordinator thread of a validation on top of that: it waits
for training runs, ranks them, creates and submits the test run, waits again;
cancel requests write folds from another thread. A failure is recorded fold by fold
and its recording may fail too (`FailFold`, `FailingFails`). Requests and coordinator
are those of one container; another may start beside it at any moment and declare
its runs INTERRUPTED (`StartBeside`). `revised` remembers the runs whose final status
was overwritten.

**ResearchPlan.** Variants of an experiment, folds from a calendar, the limits on
workload, the preview protocol (the hash is the plan itself), the ranking of
training runs. Watchlist, calendar and source change between any two steps.

**Backfill.** One repair job: claims with expiring leases, chunks, reconciliation,
checkpoint, retries with backoff, the gap repair behind COMPLETE, and the dual
writer of live readers on the same candles.

**LiveSignals.** One intraday deployment: the worker's polls, the history, the batch being
applied, open signals and their ends, recovery after a restart, TradingView alerts
step by step, saved modes and sources that change meanwhile.

**BacktestReplay.** One symbol, bar by bar, in the order of the code: fill what was
ordered, let lots leave, decide what to order; daily signals are projected to the
session; trades go out in batches; a cancel is looked for every `CancelBars`.

**CryptoPullback.** `generate_signals` bar by bar and `run_pullback_backtest`
candidate by candidate (`markets/crypto/strategy.py`). The indicators are part of
a bar, prices are whole numbers, slippage and costs an amount per unit; arming,
expiry, recovery, structure, entry, stop, target and holding window are the code's.

**OiRegime, OiHistory, OiFilter.** A datum is the moment it was true, so an
observation shows what it was made of next to the source moment it claims.
`OiHistory` models files line by line, torn lines included. `OiFilter` admits
candidates in order of time under the regime on file.

**ProviderToken, Collector, CryptoMarket, OperationsAlerts, AgentRequests,
ExchangeConnections, Screener.** Each cuts its handlers at every statement or
external call and lets two clients, threads or requests run beside each other.

**Promotion.** Approvals, configurations, deployments and
`reconcile_signal_workers` step by step, each request in a thread of its own. `stop`
waits ten seconds for a worker's thread: it may be in `leaving` after that, told to
stop and still at its poll, until `EndThread`.

## 3. Runs

All runs say `CHECK_DEADLOCK FALSE`: bounded inputs end, and workers that are done
or dead have nothing left to do.

| Run | Checks | Bounds |
|---|---|---|
| `paper_ledger` | the books balance; memory is what a restart rebuilds; one profit exit per candle, at a target that keeps the profit; no pending entry is stranded; cycles are numbered | daily ladder of 3 lots, 7 bars of 2 kinds, 2 signals, 1 manual close, 1 reset |
| `paper_recovery` | no signal is bought twice; no overdraft and trades that replay, as long as the memory that takes over is the tables' | ladder with stop and holding period, 4 bars, 1 container that takes over from the one that runs or after its end, 1 handler cut short |
| `worker_lease` | one owner; no lease left behind; only the owner ends a lease; a replacement takes over (liveness) | 2 containers, one with 1 and one with 2 leases, TTL 3, delay 1, 1 error |
| `research_jobs` | queue limit; slots are owned; one experiment per key; `RunLifecycle` is implemented; runs settle (liveness); an ended experiment stays ended | 2 containers, 3 runs, 2 requests, limit 2, 1 thread, 1 cancel, 1 fault, 2 starts |
| `walk_forward` | a test follows its training; an ended validation is settled; a validation ends (liveness) | 2 folds with 2 and 1 candidates: a fault and a starting container, or a cancel; 1 fold with 2 candidates: also a cancel with one of the two; 1 thread |
| `market_data` | no chunk is skipped; COMPLETE is full; a job settles (liveness); a resumed import is whole | 2 workers, 2 open times, chunks of 1 and 2, 2 attempts, 1 fault, 1 expiry, 1 revision, 1 live batch; 2 tasks of 4 days, 3 breaks |
| `strategy_inputs` | signals are heard once and no exit is missed; the replay and the pullback backtest are sound; a synced candle window is whole; regimes are fresh; bearish entries are alone; plans are sound | 3 candles, 2 alerts of 1 event, 1 fault; 7 bars; 5 bars of 6 kinds, 2 configurations; 2 threads, windows 2 and 4; 2 packets; 3 candidates; 3 edits |
| `platform_services` | one retry is enough; the published session is the majority's; notices keep their cooldown; an agent's request is submitted once; unsafe connections stay disabled; reconciliation settles; a watchlist holds the best | two clients, threads or requests each; see the cfg |

Why the bounds are enough to be interesting: seven candles that sag or whipsaw
fill a ladder, sell part of it, re-enter and cross a session boundary; a balance
of 30 lets the cash check refuse the second lot; one restart or take-over plus one torn
handler reaches every pair of writes. TTL 3 against a delay of 1 lets leases be renewed,
expire and be taken over with late calls on both sides. A queue of 2 against three
runs refuses requests; one thread makes runs wait; one fault hits every statement
in turn. Two open times with chunks of one and two reach a checkpoint that moves
backwards; one late candle reaches the repair that succeeds and the one that does
not. Two crossing requests are what every atomicity hazard of the services needs.

The paper runs set `NSE = TRUE`, and those that must pass have one deployment. The
branches of the broker for other markets (each lot keeps its own cost, several exits
per candle) and several deployments of one account are covered by the theorems:
`LedgerConserved`, `OneLotPerSignal`, `NoOverdraft` and `CyclesAreNumbered` hold for both
values of `NSE` and any `Deployments`. What memory is rebuilt to and which entries are
stranded is checked for the NSE only.

Exceptions the properties name are behaviours of the code, each with the history
variable that records it: `abandoned` in `CompleteIsFull`, `lost` and `passedOver` in
`LiveSignals`, `Dropped` in `RunSettles`, `disturbed` in `OneRetryIsEnough`, `cut` in
`WatchlistHoldsTheBest`, `stale` in `NoOverdraft` and `ReplayNeverShort`, `revised` in
`TestFollowsTraining` and `EndedValidationIsSettled`, `overlapped` and `leaving` in
`ReconcileSettles`, the coordinator's place "abandoned" in `EndedValidationIsSettled`.
Without these exceptions the properties do not hold; section 4 says what happens.

Fairness. `WorkerLease`: weak fairness of a worker's own steps, of a heartbeat
under way and of time; nothing is assumed of `BeginBeat`, so even a worker that
never renews hands over. The property needs a TTL larger than the time to enter
all guards, which the code's TTL is by far. `JobsFairness` and `WfFairness`: threads
of the pools are scheduled and requests under way go on; the coordinator polls in a
loop of its own. `BackfillFairness`: systemd starts the worker again ten minutes
after it ended (`web/deploy/opendelta-market-data-worker.timer`), and backoffs and
leases run out. Faults, cancels, stops, starts, crashes and expiries of a living
worker's lease are never fair.

Refinement. `ImplementsLifecycle` is `RunLifecycle!Spec` with the rows `status` and
`cancel` of `BacktestJobs` for its variables: whatever the containers do, the rows
take only the steps of the abstract life, the two overwritten ends included.

## 4. Where the code and its promises differ

Kept as runs that TLC must refute:

| Run | What it shows |
|---|---|
| `paper_replay_short` | a crash between a lot and its BUY trade, with two timeframes, leaves trades `_load_fifo_inventories` cannot replay: the broker cannot be built again |
| `paper_takeover` | a container built its broker while the old one still traded (platform_runtime.py:259); it takes over with the older balance, which nothing refreshes (workers.py:146-242), and its first entry overdraws the account |
| `completed_work` | a cancel that read a fold before it completed writes CANCELLED over COMPLETE; with `MaxFaults = 1` TLC finds a shorter way: a completed run whose row cannot be read back turns FAILED |
| `saved_modes_run` | two reconciliations cross; OFF is answered and the worker of the old mode runs |

Seen while modelling, and reachable with other constants or properties:

* Broker: two deployments of one timeframe, or a restart, give two profit exits on
  one candle (`nse_exit_occurred` is local to a call, broker.py:434); a lot of
  another timeframe is sold at a target its FIFO cost has outgrown (broker.py:461);
  a queued dip entry outlives its ladder and opens a cycle without a signal
  (broker.py:160).
* Leases: a database error in the standby loop ends the worker's thread for good
  (workers.py:149); the monitoring worker returns when it is refused its lease and never
  tries again (service.py:251); a group that raises while it is entered leaves the guards
  it entered renewing (leases.py:99); a task goes on after its lease was lost (leases.py:70).
* Jobs: a run whose lease is refused, or whose engine cannot be built, stays QUEUED
  without a future (jobs.py:127; the comment at line 132 says it was recorded as
  FAILED); an error of the lease factory keeps the future counted (jobs.py:123). A
  cancelled validation with completed folds reads CANCELLING for ever
  (repositories.py:613-626), and nothing recovers a validation after a restart. A
  validation whose failure cannot be recorded either keeps folds QUEUED or TRAINING
  with no coordinator (walk_forward_jobs.py:115-119). A training run that a starting
  container declared INTERRUPTED is left out of the ranking and may complete after it,
  although "Runs left QUEUED/RUNNING by a previous process can never finish"
  (repositories.py:124). `finish` commits COMPLETE and then reads the row back inside
  the engine's `try`: when the read fails, FAILED is written over COMPLETE
  (repositories.py:114-121, engine.py:346). `RunLifecycle` has both steps.
* Backfill: COMPLETE is written before the repair (timescale.py:760), so a crash in
  between leaves a complete job with gaps; enqueueing a FAILED range again does not
  reset it; a worker that lost its claim may move the checkpoint back or turn
  COMPLETE into RETRY (timescale.py:504, 512).
* Live signals: an exception drops the rest of a batch; only the last candle of a
  batch may give a signal; an error between the insert of an alert's signal and
  `on_signal` makes every repeat a "duplicate" (tradingview.py:223).
* Runtime: `stop` waits ten seconds for a worker and returns whether it has ended or
  not (workers.py:139-144), so a long poll goes on with the mode that was saved over;
  a configuration saved again under its name does not restart its worker,
  because signatures compare ids (platform_runtime.py:251); `save_config` writes
  back a deployment it read before a concurrent OFF (settings_routes.py:212);
  an approval stores the deployment first (backtest_routes.py:315).
* Replay: the batch that is not flushed at a cancel is lost while the metrics keep
  its trades (result_writer.py); several OPEN rows preview the same FIFO slices.
* Pullback backtest: the entry bar is not monitored (strategy.py:337), so a stop
  touched on it is not noticed and a trade entered on the last bar leaves at its
  close, beyond its stop too; a gap through the stop is filled at the stop.
* Option interest: `complete_live_bar` looks at packets newer than the bar it
  completes (oi.py:640, 675-690), against its docstring at line 613; a torn append
  may lose two rows after a resume (oi_regime.py:811).
* Services: a connection test is recorded on credentials replaced meanwhile
  (exchange_connection_routes.py:158-177); a screen that a shutdown cuts short may
  be stored COMPLETE (screener_routes.py:109); FAILED may be recorded for an agent's
  request whose run exists (mcp.py:263-287); a crash between an alert and its notice
  silences it for a cooldown (service.py:209); a hole inside the candle cache is
  never fetched (crypto/engine.py:449); the published session may go back.

## 5. Proofs

Every theorem holds for all values of the constants that satisfy the named
assumptions; TLC evaluates those on its instances, and each inductive invariant
was put to TLC before it was proved. `SumsAndExtrema` holds the shared lemmas: a
finite set has a least and a greatest member, which `Min` and `Max` choose; keys
without ties give every member a rank of its own, the ranks are 1 to n, and the
member of rank 1 beats the others; sums over sequences, what a change of one place,
an insertion and a removal do to them; and the FIFO queue (`Taken`, `Consume`,
`MatchCost`, for every queue and quantity), which the broker and the replay share.

**PaperBrokerProofs.** `OneLotPerSignalHolds` (no assumption): an account never has
two lots of one signal, whatever the tape, the configuration and the bounds. The
property is not inductive: between its order and its lot a handler holds a lot the
table does not show. `SignalInv` adds that every lot has its filled order and that
a lot still to be inserted is the handler's next step, with a filled order and no
lot of its signal in the table. The steps that matter
are the fill, the insert, a crash or an error between them, and the wipe.

`LedgerIsConserved` is `LedgerConserved` (`NSEIsBoolean`, `CandlesAreCandles`, `ConfigsAreValid`,
`MarketIsNoDeployment`, `CostsAreNatural`, `DaysHaveBars`), for the NSE's inventory and
for the other markets. A fill is three transactions after its order (lot, BUY,
debit), an exit three (row, SELL, credit), so the books are off most of the time.
`LedgerInv` says by how much: `FlowGap`, `BookGap` and `UnitGap` are what the running
frame has still to write to the account, to the cost of the inventory and to the
open units. To keep that over a step it must know where handlers can be:

* a frame between two transactions of a fill or an exit is on top of the stack, its
  lot is fresh or viewed and closed, and an exit knows the cost the row booked, which
  is what the queue will give for it (`HeadOK`);
* below it at most one loop over lots runs, each of its lots once, each viewed, none of
  them the one that leaves (`ExitLoop`, `LoopOK`), so no lot is sold twice;
* the queue covers every lot that may leave, because its units are those of all
  views, and a lot's cost by `preview` is what `consume` then takes (lemmas on `Taken`,
  `Consume` and `MatchCost` for every queue and quantity);
* bars have prices and instructions name deployments (`Feeds`), and each quantity that the
  policy admits is positive.

The theorem is about `Spec /\ [][Crash \/ TakeOver => MemoryIsRebuildable]_vars`: a
process may be killed and start again, or give way to the next container, at any moment
at which its memory is what the database holds; and it speaks of the time until a
container takes over with an image that is older (`stale`). That hypothesis is needed. A
restart replays the trades in the order of their candles; with two timeframes that is
not the order in which they were made, and the queue it rebuilds can cost something
else, or be short (section 4). `paper_ledger` shows that its account is rebuildable at
every rest. A handler that was cut short leaves the account without what it had not yet
written; `Calm` excludes it, as the code has no repair for it.

`CyclesAlwaysNumbered` is `CyclesAreNumbered` under the same hypothesis: the lots of a
cycle belong to one deployment, their entries are numbered without gaps from 1, no
number comes twice and none is above the policy's maximum. Its invariant `CycleInv`
stands on `LedgerInv` (an open lot is a view and a view is an open lot, but for the lot
under way) and says three things more:

* `CyclesOK`: the property of the rows;
* `ViewsShare`: all open lots of a deployment are of one cycle, so that the entry after
  the first is told the cycle by any of them;
* `FillNumbered`: a lot about to be inserted carries what the handler read when it
  judged the entry (`EntryCycle`, `EntryNumber` plus one), and between its insertion
  and its view the new row is already of the cycle of the deployment's other views.

Only the insertion, the debit and the wipe change it. A crash between insertion and
debit would leave a row without a view and the next entry would take its number;
the hypothesis excludes exactly that.

**PaperFundsProofs.** `NeverOverdrawn` is `NoOverdraft` for every configuration, tape
and bound, and without a hypothesis on crashes, restarts or errors; it ends where a
container takes over with an older memory, as `paper_takeover` shows it must
(`CandlesAreCandles`, `ConfigsAreValid`, `MarketIsNoDeployment`, `CostsAreNatural`,
`DaysHaveBars`, `SalesPay`). The balance is read before the order and debited three
transactions later; a handler may be cut short at each of them, so that the books no
longer balance, and `LedgerInv` is of no use. `FundsInv` keeps what every cut leaves
alone:

* `AccountOK`: the account in memory is the one in the database, the FIFO inventory is a
  sequence of slices with positive quantities, every trade has a moment and a quantity;
* `RowsPay`, `ViewsPay`, `Prices`: whatever a sale may be priced with (a target, a mark,
  the bar of a frame) repays slippage and fee, so a credit never takes money out;
* `TopOK`: from its admission to its debit a lot has its money (`Affordable`), and an exit
  is about a lot that memory still holds;
* `Frames`: as in the ledger, below a fill or an exit at most one loop over lots runs,
  and none of them is the lot that leaves.

A restart, or a take-over with what the tables give, is a step of that proof: the replay
of any trades, in the order of their candles and however short, is an inventory
(`Replay` by induction on the trades), and the views rebuilt from the rows are the open
ones, each once (ranks again). `SalesPay` says that no candle is so cheap that its sale
would cost more than it brings. The code's costs are fractions of the price but for the
fixed fee of an NSE order, 20 rupees (`nse/fees.py`), which `_close_lot` subtracts from
the proceeds unconditionally: the theorem is about orders worth more than their fee, and
says nothing of smaller ones.

**WalkForwardProofs** has the jobs first (`QueueLimits`, `RequestsCreateRuns`,
`NoneIsNobody`, `RunsAreFresh`). `QueueIsBounded`, with the cardinalities of finite
sets, also on the paths where a slot is given back twice. `JobsImplementLifecycle`:
`JobsSpec` implements `RunLifecycle`. A step is allowed there only if the row it writes
is in the right state, so `LifeInv` says that a request works on runs nobody else has,
that a thread knows the row of its run, and that a run waits in one place of one queue;
a thread that reads its completed row back still counts as one. `SlotsHaveOwners`
(`SlotsAreOwned`) adds that the futures of a serving runner are exactly the runs that
wait or work there and its reservations exactly those of requests under way.
`KeysHaveOneExperiment` (`OneExperimentPerKey`) needs `KeysAreOwned`: rows of a keyed
request exist only if the key is its own. `EndedExperimentsStayEnded` is an action
property, from that and the invariant: one step per action, of which two touch a run of
an experiment that reads as over, both of the thread that executes it.

The second part is the coordinator (also `ValidationsAreSubmitted`, `FoldsHaveRuns`,
`TestRunsAreFresh`, `ResultsAreNumbers`). `WfInv` puts a validation on top of
`LifeInv`: folds up to the coordinator's place can have a test run, those behind it
have ended, what the coordinator and each cancel request read is still true where
they use it, and a cancelled fold's runs have ended or been told to.
What was read of a final status may cease to be true, and then the run is `revised`.
`TestsFollowTraining` and `EndedValidationsAreSettled` follow.
`WalkForwardImplementsLifecycle` is the refinement of `RunLifecycle` by the composed
system, whose coordinator adds, cancels and withdraws test runs, beside containers that
start.

**BackfillProofs** (`RangeIsSensible`, `LimitsAreSensible`; `HistoryBoundsAreNatural`).
`NoChunkIsSkipped`: `advance_backfill` does not check that its caller still owns the
job, so a worker whose claim expired moves the checkpoint of its successor.
`ClaimsAreCovered` is why that is harmless: all that a worker remembers of a job,
its own place included, was written already, and written chunks stay.
`CompleteJobsAreFull` adds `CompleteIsFull` itself to that invariant.
`ImportsAreWhole` is `ResumedImportIsWhole`, for any number of tasks, days and
crashes. Its invariant counts: rows an import knows of that are not on disk, plus
two while the file ends in a torn line (that row, and the one that will be appended
to the same line), are at most twice the torn appends.
`SyncedWindowsAreWhole` (`CryptoBounds`) is `SyncedWindowIsWhole` of *CryptoMarket*.
Paging first: by induction on the cursor, the pages of OKX, walked back from the end,
and the chunks of VALR, walked forward, hold exactly the bars of a window that ends in
the past. `CryptoInv` then says that a cache has no hole unless a sync of its
instrument once filled it apart from what it held, that a thread about to fetch has
the rest of its window in the cache, and that one that evaluates has the window. The
cache may be filled by another thread between the two, which only adds to it.

**BacktestReplayProofs** (`ReplayPlansAreValid`, `ReplayCandlesAreCandles`,
`ReplayBoundsAreNatural`): `ReplaysAreSound` is `ReplayIsSound`, for every plan, tape,
frame and batch size. `ReplayInv` follows the loop of `_run_symbol` bar by bar:

* `LadderInv`: the lots of every cycle are numbered 1 to some n within the maximum; the
  open lots belong to the last cycle, and the next entry, ordered or not, continues its
  numbers;
* `TargetsAreFresh`: every target that may still be taken on this bar was computed from
  the inventory as it is; a sale makes the rest stale, but only one target may be
  taken per bar and the others are computed anew before the next;
* `BooksInv`: a lot is open or has exactly one row, in the table or in the batch; the
  counters and the realized profit are those of these rows; what was paid for all lots
  is in the rows or in the inventory; and the inventory holds the units of the open
  lots, so no sale and no closing row is short of slices.

A target then pays by the lemma on `NetProfitTarget` (rounded up, so never below the
percentage), and the insert that skips a lot already in the table (`Written`) appends
every row, since no lot has two.

**StrategyInputProofs** has one section per component.
*LiveSignals* (`SignalBounds`, `RowsAssumption`, `KindsAssumption`,
`AlertsNameCandles`): `SignalsAreHeardOnce` and `NoExitIsMissed`. A signal about to be
handed over was stored, has not been handed over and is in one hand, the worker's
or one delivery's (`OneHand`); what is left of a batch ends with the newest candle.
*CryptoPullback* (`PullbackConfigsAreValid`, `PullbackBarsAreBars`, `PullbackBounds`):
`PullbackBacktestIsSound`, for bars and prices of any size; `DealtAreCovered` says
that each candidate the backtest has passed was traded or met an open trade.
*OiRegime* (`OiConfigIsValid`, `OiBoundsAreNatural`): `RegimesAreAlwaysFresh`, because
the source moment of an observation is never later than any part of it.
*OiFilter* (`FilterBoundsAreNatural`, `FilterFilesAreRows`):
`BearishEntriesAreAlwaysAlone`, because every admitted trade that has not ended is
among those the filter counts.
*ResearchPlan* (`PlanLimitsArePositive`, `PlanRequestsAreValid`,
`PlanMetricsAreNumbers`): `PlansAreAlwaysSound`. Sessions have places in the calendar,
folds are intervals of places and a test begins after its training ends; the
ranking compares win rates as fractions, and no objective ranks in a circle, so its
first candidate is beaten by none.

**PlatformServiceProofs** likewise.
`RetryRecovers` (`OneRetryIsEnough`): a client nobody disturbs sends the token on
file, and on its second try one that was accepted.
`SubmissionsHappenOnce` (`SubmittedOnce`): a worker at a request's row is the only one,
and a completed row names its run.
`UnsafeConnectionsStayDisabled`: the switch is what the last deciding entry of the
audit says.
`NoticesAlwaysKeepCooldown` (`AlertBounds`, `MonitoringIsFinite`): the notices of an
alert and those that monitors are still to record are counted together, for any
number of monitors.
`PublishedSessionsAreMajorities` (`CollectorBoundsAreNatural`): the target a refresh
publishes is chosen from its final results.
`ReconcileAlwaysSettles`: as long as requests did not overlap, the one under way is
in a known phase; while it reconciles, every registered worker is stale or asked
for, and what is missing is still on its list. Threads that were told to stop are not
counted: they may outlive the reconciliation that stopped them.
`WatchlistsHoldTheBest` (`ScreenerBounds`, `MetricsAreRanked`): a screen's thread knows
each symbol once, in exactly one of done, batch and to do, unless it was cut; the
ranks of `SumsAndExtrema` then show that what passes the limit is better than what
does not.
*WorkerLease* (`TTLIsPositive`, `DelayIsNatural`, `LeasesAreKeys`,
`NoOneIsNoWorker`, `LeasesAreDistinct`).
`LeaseIsExclusive` is `SingleOwner`. It needs `Covered`: a guard that renewed its
lease less than a TTL ago owns the row, and the row expires exactly when the
guard's TTL does. A takeover then meets a row that no such guard covers, since the
moment it compares with was read before the statement ran.
`LiveLeaseIsEndedByOwner` proves the action property `OnlyOwnerEndsLease` from the
types and from `AtALease` (a worker is always at one of its leases), one step per
action. `NothingIsLeftBehind` is `NoLeaseLeftBehind`, from `KeepInv`: a worker holds
no lease it has not entered or has left; a guard without its lease has no thread
that calls again, and a heartbeat still under way finds no row to renew.

Written so that they can be reasoned about: order is by rank (how many come before)
where the code sorts (`ByDay`, `Ranked`, the ranking of a screen); a filter's running
trades are positions in its list of judgements; what a cancel request has still to write
is a set of steps; the broker's sums and filters (`Total`, `Only`) are recursive
functions over places, and so are the sums and the table of a replay, since the prover
cannot instantiate the library's operators that take an operator. TLC's results are
those of the sorted forms.

Only model-checked:

* Liveness (`ReplacementTakesOver`, `RunSettles`, `ValidationEnds`, `JobSettles`): the
  prover has neither fairness nor ENABLED.
* `MemoryIsRebuildable`, `NoStrandedEntry`, `ReplayNeverShort` and `ProfitExitsAreSound`
  (`OneProfitExitPerCandle`): true of the configurations their runs name and false of
  others (section 4), so no theorem for every constant exists.

## 6. Not modelled, and the plan

* Strategies (but for the rules of the crypto pullback), indicators, scores, metrics:
  floating-point computation. Models take their results as choices or tables.
* The sandbox of user strategies, the AI copilot, provider clients, encryption,
  serialisation, the web frontend: I/O without a protocol of their own.
* Migrations: ordered scripts; the constraints that matter are in the modules that rely
  on them.
* `start`, `_run` and `stop` of the crypto scanner are not called at startup. The live
  methods of the option-interest feed and the filter have only tests as callers and are
  modelled as those use them.
* Two brokers that write at once, which a lost lease allows (leases.py:70) and a manual
  close, a reset or a TradingView alert at the new container before it owns the market
  does too: `PaperBroker` has one writing process at a time. The image of the next
  container is read in one step, and no account is reset while it waits.
* The five-minute feed beside a daily deployment (signals/engine.py:151-160,
  platform_runtime.py:285-297), which also advances its open signals and is forwarded
  anew after a restart: `LiveSignals` and `NoMissedExit` are about intraday deployments.
* Requests for walk-forward validations at a second container: all go to the first.
* The lost `source` of a pending entry after a restart (repositories.py:1651):
  `PaperBroker` has one source of signals.

Next: an abstract ledger in which a fill and an exit are one step, and the broker shown
to implement it.
