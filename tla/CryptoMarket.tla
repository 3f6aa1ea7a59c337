---------------------------- MODULE CryptoMarket ----------------------------
(***************************************************************************)
(* The crypto market service (backend/markets/crypto/engine.py): its       *)
(* configured instruments, the SQLite cache of their candles, and the      *)
(* scans and backtests that request threads run over them while other      *)
(* requests add and remove instruments.  The repository's lock covers one  *)
(* statement group; between two of them everything may change.             *)
(*                                                                         *)
(* Time is counted in bars of one timeframe: bar b is complete from b + 1  *)
(* on, and every bar has trades.                                           *)
(***************************************************************************)
EXTENDS Integers, FiniteSets, FiniteSetsExt

CONSTANTS
    Instruments,
    CryptoThreads,
    OkxInstruments,     \* those of OKX; the others are of VALR
    PageSize,           \* candles in one answer of a provider
    Windows,            \* lengths of the windows that scans and backtests ask for
    MaxBarTime,         \* bound: the clock
    MaxCryptoTasks      \* bound: scans and backtests

ASSUME CryptoBounds ==
    Windows \subseteq Nat \ {0} /\ {PageSize, MaxBarTime} \subseteq Nat \ {0} /\ MaxCryptoTasks \in Nat

VARIABLES
    barNow,
    configured,         \* instruments with a row
    enabled,            \* those that are active with signals and backtests
    cachedBars,         \* instrument -> the bars in market_candles
    cryptoSignals,      \* the rows of crypto_signals: <<instrument, bar>>
    cryptoRuns,         \* the instruments of crypto_backtest_runs
    detached,           \* instruments whose cache a sync once filled apart from the bars it had
    cryptoThread,       \* thread -> the task under way
    cryptoTasks

catalogue == <<configured, enabled>>
cryptoHistory == <<cryptoSignals, cryptoRuns>>
cryptoVars == <<barNow, catalogue, cachedBars, cryptoHistory, detached, cryptoThread, cryptoTasks>>
-----------------------------------------------------------------------------
IdleThread == [at |-> "idle", kind |-> "scan", todo |-> {}, start |-> 0, end |-> 0,
               fetch |-> 0, result |-> {}]
CachedIn(i, start, end) == {b \in cachedBars[i] : start <= b /\ b < end}
Subject(task) == CHOOSE i \in task.todo : TRUE

\* sync_candles: what is missing behind the cache is fetched, one bar of overlap
\* included; the whole window when the cache does not begin with it.
FetchFromTail(cached, start) == IF cached = {} THEN start ELSE Max({start, Max(cached) - 1})
FetchFrom(cached, start) ==
    IF cached # {} /\ Min(cached) <= start + 1 THEN Max({start, Max(cached) - 1}) ELSE start
CacheSuffices(cached, start, end) == cached # {} /\ Min(cached) <= start + 1 /\ Max(cached) + 1 >= end - 1

\* OkxPublicProvider.candles: pages from the end of the window back to its start, or
\* to a page that is not full.  A page may hold the bar that is still open.
OkxPage(cursor) == {b \in 0..barNow : cursor - PageSize <= b /\ b < cursor}
OkxCandles(start, end) ==
    LET pages[cursor \in 0..(MaxBarTime + 1)] ==
            IF cursor <= start THEN {}
            ELSE IF Cardinality(OkxPage(cursor)) < PageSize THEN OkxPage(cursor)
            ELSE OkxPage(cursor) \cup pages[Min(OkxPage(cursor))]
    IN  {b \in pages[end + 1] : start <= b /\ b < end /\ b < barNow}

\* ValrPublicProvider.candles: chunks from the start of the window to its end.
ValrCandles(start, end) ==
    LET chunks[cursor \in 0..(MaxBarTime + PageSize)] ==
            IF cursor >= end THEN {}
            ELSE (cursor..(Min({end, cursor + PageSize}) - 1)) \cup chunks[cursor + PageSize]
    IN  {b \in chunks[start] : b < barNow}

ProviderCandles(i, start, end) == IF i \in OkxInstruments THEN OkxCandles(start, end) ELSE ValrCandles(start, end)

\* save_candles: an upsert by open time.
SaveCandles(i, candles) == [cachedBars EXCEPT ![i] = @ \cup candles]

ForeignKey(i) == i \in configured
-----------------------------------------------------------------------------
BarCloses ==
    /\ barNow < MaxBarTime
    /\ barNow' = barNow + 1
    /\ UNCHANGED <<catalogue, cachedBars, cryptoHistory, detached, cryptoThread, cryptoTasks>>

\* add_instrument: an upsert, which enables a removed instrument again.
AddInstrument(i) ==
    /\ i \notin enabled
    /\ configured' = configured \cup {i} /\ enabled' = enabled \cup {i}
    /\ UNCHANGED <<barNow, cachedBars, cryptoHistory, detached, cryptoThread, cryptoTasks>>

\* delete_instrument: with a history it is only disabled.
HasHistory(i) == i \in cryptoRuns \/ \E s \in cryptoSignals : s[1] = i
RemoveInstrument(i) ==
    /\ i \in enabled
    /\ enabled' = enabled \ {i}
    /\ configured' = IF HasHistory(i) THEN configured ELSE configured \ {i}
    /\ UNCHANGED <<barNow, cachedBars, cryptoHistory, detached, cryptoThread, cryptoTasks>>

\* scan reads the enabled instruments once; backtest checks the one it is asked for.
StartTask(t, kind, instruments, length) ==
    /\ cryptoThread[t].at = "idle" /\ cryptoTasks < MaxCryptoTasks
    /\ instruments # {} /\ length <= barNow
    /\ IF kind = "scan" THEN instruments = enabled ELSE instruments \subseteq enabled /\ Cardinality(instruments) = 1
    /\ cryptoTasks' = cryptoTasks + 1
    /\ cryptoThread' = [cryptoThread EXCEPT ![t] = [IdleThread EXCEPT !.at = "read", !.kind = kind, !.todo = instruments,
                                                         !.start = barNow - length, !.end = barNow]]
    /\ UNCHANGED <<barNow, catalogue, cachedBars, cryptoHistory, detached>>

ReadCache(t) ==
    /\ cryptoThread[t].at = "read"
    /\ LET task == cryptoThread[t]
           i == Subject(task)
           cached == CachedIn(i, task.start, task.end)
       IN  cryptoThread' = [cryptoThread EXCEPT ![t] =
               IF CacheSuffices(cached, task.start, task.end)
               THEN [task EXCEPT !.at = "evaluate", !.result = cached]
               ELSE [task EXCEPT !.at = "fetch", !.fetch = FetchFrom(cached, task.start)]]
    /\ UNCHANGED <<barNow, catalogue, cachedBars, cryptoHistory, detached, cryptoTasks>>

\* The provider answers, its answer is saved, and the window is read again.
FetchCandles(t) ==
    /\ cryptoThread[t].at = "fetch"
    /\ LET task == cryptoThread[t]
       IN  cryptoThread' = [cryptoThread EXCEPT ![t].at = "save",
                                       ![t].result = ProviderCandles(Subject(task), task.fetch, task.end)]
    /\ UNCHANGED <<barNow, catalogue, cachedBars, cryptoHistory, detached, cryptoTasks>>

StoreCandles(t) ==
    /\ cryptoThread[t].at = "save"
    /\ LET task == cryptoThread[t]
           i == Subject(task)
       IN  /\ cachedBars' = SaveCandles(i, task.result)
           /\ detached' = IF cachedBars[i] # {} /\ cachedBars[i] \cap ((task.fetch - 1)..task.end) = {}
                        THEN detached \cup {i} ELSE detached
    /\ cryptoThread' = [cryptoThread EXCEPT ![t].at = "again", ![t].result = {}]
    /\ UNCHANGED <<barNow, catalogue, cryptoHistory, cryptoTasks>>

ReadWindow(t) ==
    /\ cryptoThread[t].at = "again"
    /\ LET task == cryptoThread[t]
       IN  cryptoThread' = [cryptoThread EXCEPT ![t].at = "evaluate",
                                       ![t].result = CachedIn(Subject(task), task.start, task.end)]
    /\ UNCHANGED <<barNow, catalogue, cachedBars, cryptoHistory, detached, cryptoTasks>>

\* On to the next instrument of a scan.
After(task) ==
    LET rest == task.todo \ {Subject(task)}
    IN  IF rest = {} THEN IdleThread ELSE [task EXCEPT !.at = "read", !.todo = rest, !.result = {}]

\* An error of the provider is noted and the scan goes on.
SyncFails(t) ==
    /\ cryptoThread[t].at = "fetch"
    /\ cryptoThread' = [cryptoThread EXCEPT ![t] = After(@)]
    /\ UNCHANGED <<barNow, catalogue, cachedBars, cryptoHistory, detached, cryptoTasks>>

\* An error of the cache, or of the writer of canonical candles behind the save, ends it.
StoreFails(t) ==
    /\ cryptoThread[t].at \in {"save", "again"}
    /\ cryptoThread' = [cryptoThread EXCEPT ![t] = IdleThread]
    /\ UNCHANGED <<barNow, catalogue, cachedBars, cryptoHistory, detached, cryptoTasks>>

\* The latest signal, when it is recent; save_signal ignores one that is there.
SaveSignal(t, bar) ==
    /\ cryptoThread[t].at = "evaluate" /\ cryptoThread[t].kind = "scan"
    /\ bar \in cryptoThread[t].result /\ cryptoThread[t].end - bar <= 2
    /\ ForeignKey(Subject(cryptoThread[t]))
    /\ cryptoSignals' = cryptoSignals \cup {<<Subject(cryptoThread[t]), bar>>}
    /\ cryptoThread' = [cryptoThread EXCEPT ![t] = After(@)]
    /\ UNCHANGED <<barNow, catalogue, cachedBars, cryptoRuns, detached, cryptoTasks>>
NoSignal(t) ==
    /\ cryptoThread[t].at = "evaluate" /\ cryptoThread[t].kind = "scan"
    /\ cryptoThread' = [cryptoThread EXCEPT ![t] = After(@)]
    /\ UNCHANGED <<barNow, catalogue, cachedBars, cryptoHistory, detached, cryptoTasks>>

SaveBacktest(t) ==
    /\ cryptoThread[t].at = "evaluate" /\ cryptoThread[t].kind = "backtest"
    /\ ForeignKey(Subject(cryptoThread[t]))
    /\ cryptoRuns' = cryptoRuns \cup {Subject(cryptoThread[t])}
    /\ cryptoThread' = [cryptoThread EXCEPT ![t] = IdleThread]
    /\ UNCHANGED <<barNow, catalogue, cachedBars, cryptoSignals, detached, cryptoTasks>>

\* The instrument was removed in the meantime: the IntegrityError is not among the
\* errors that scan catches and ends the whole scan.
InstrumentGone(t) ==
    /\ cryptoThread[t].at = "evaluate" /\ ~ForeignKey(Subject(cryptoThread[t]))
    /\ cryptoThread' = [cryptoThread EXCEPT ![t] = IdleThread]
    /\ UNCHANGED <<barNow, catalogue, cachedBars, cryptoHistory, detached, cryptoTasks>>
-----------------------------------------------------------------------------
CryptoInit ==
    /\ barNow = 1 /\ configured = {} /\ enabled = {}
    /\ cachedBars = [i \in Instruments |-> {}] /\ cryptoSignals = {} /\ cryptoRuns = {} /\ detached = {}
    /\ cryptoThread = [t \in CryptoThreads |-> IdleThread] /\ cryptoTasks = 0

CryptoNext ==
    \/ BarCloses \/ \E i \in Instruments : AddInstrument(i) \/ RemoveInstrument(i)
    \/ \E t \in CryptoThreads :
        \/ ReadCache(t) \/ FetchCandles(t) \/ StoreCandles(t) \/ ReadWindow(t) \/ SyncFails(t) \/ StoreFails(t) \/ NoSignal(t) \/ SaveBacktest(t) \/ InstrumentGone(t)
        \/ \E kind \in {"scan", "backtest"}, is \in SUBSET Instruments, n \in Windows : StartTask(t, kind, is, n)
        \/ \E bar \in 0..MaxBarTime : SaveSignal(t, bar)

CryptoSpec == CryptoInit /\ [][CryptoNext]_cryptoVars
-----------------------------------------------------------------------------

\* The candles that a scan or a backtest works on have no hole, but for the first and
\* the last bar of the window, as long as no sync of the instrument ever filled the
\* cache apart from what it held, after a pause or beside another request.  (The bars
\* between are then never fetched by a window that begins before and ends behind them.)
SyncedWindowIsWhole ==
    \A t \in CryptoThreads : cryptoThread[t].at = "evaluate" =>
        \/ Subject(cryptoThread[t]) \in detached
        \/ (cryptoThread[t].start + 1)..(cryptoThread[t].end - 2) \subseteq cryptoThread[t].result
=============================================================================
