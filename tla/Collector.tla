----------------------------- MODULE Collector -----------------------------
(***************************************************************************)
(* The all-symbol refresh: run_screener of backend/collector.py, started   *)
(* by a timer in a process of its own ("timer") or by                      *)
(* MarketDataRefreshService of backend/data/refresh.py ("service"), both   *)
(* behind one file lock.  A run takes many requests, during which the      *)
(* provider moves on, symbol by symbol, to a later session.                *)
(*                                                                         *)
(* A result is the session of the latest candle of a symbol, 0: none.      *)
(***************************************************************************)
EXTENDS Integers, FiniteSets, FiniteSetsExt

CONSTANTS
    CollectorSymbols,   \* number of symbols; unmapped ones are never fetched
    MappedSymbols,
    LastSession,        \* bound: sessions of the provider
    RetryPasses,        \* session_retry_passes
    MinimumRows,        \* minimum_coverage, in symbols
    MaxRefreshes        \* bound: runs

ASSUME CollectorBoundsAreNatural ==
    /\ {CollectorSymbols, RetryPasses, MinimumRows, MaxRefreshes} \subseteq Nat /\ LastSession \in Nat \ {0}
    /\ MappedSymbols \subseteq 1..CollectorSymbols

VARIABLES
    daily, traded,      \* symbol -> last session of its daily history and of its quote
    lockHolder,         \* who holds market_data_refresh_lock, or "nobody"
    cRun,               \* the run of the lock holder
    published,          \* the output file: its session, and how many results of each session there were
    serviceState,       \* MarketDataRefreshService: state
    serviceBusy,        \* and whether its future is running
    refreshes

collectorVars == <<daily, traded, lockHolder, cRun, published, serviceState, serviceBusy, refreshes>>
provider == <<daily, traded>>
service == <<serviceState, serviceBusy>>
-----------------------------------------------------------------------------
AllSymbols == 1..CollectorSymbols
NoRun == [at |-> "none", todo |-> {}, results |-> [s \in AllSymbols |-> 0],
          quotes |-> [s \in AllSymbols |-> 0], today |-> 0, target |-> 0, pass |-> 0]
CountOf(results, session) == Cardinality({s \in AllSymbols : results[s] = session})
Counts(results) == [session \in 1..LastSession |-> CountOf(results, session)]

\* choose_target_session: the most frequent session, the later of two.
SessionsOf(results) == {results[s] : s \in AllSymbols} \ {0}
TargetOf(results) ==
    CHOOSE x \in SessionsOf(results) : \A y \in SessionsOf(results) :
        \/ CountOf(results, x) > CountOf(results, y)
        \/ CountOf(results, x) = CountOf(results, y) /\ x >= y

\* merge_live_quote: a quote after the day of the run, or before the history, is
\* dropped; without history there is nothing to merge into.
Merged(history, quote, today) ==
    IF history = 0 \/ quote = 0 \/ quote > today \/ quote < history THEN history ELSE quote

\* The symbols of a retry pass: those that do not have the target.
StaleSymbols(run) == {s \in MappedSymbols : run.results[s] # run.target}
-----------------------------------------------------------------------------
\* Another candle, or the first trade of the next session.
ProviderMoves(s) ==
    /\ \/ /\ traded[s] < LastSession
          /\ traded' = [traded EXCEPT ![s] = @ + 1] /\ UNCHANGED daily
       \/ /\ daily[s] < traded[s]
          /\ daily' = [daily EXCEPT ![s] = @ + 1] /\ UNCHANGED traded
    /\ UNCHANGED <<lockHolder, cRun, published, service, refreshes>>

\* start: refused while the future runs.
StartService ==
    /\ refreshes < MaxRefreshes /\ ~serviceBusy
    /\ refreshes' = refreshes + 1
    /\ serviceState' = "RUNNING" /\ serviceBusy' = TRUE
    /\ UNCHANGED <<provider, lockHolder, cRun, published>>

\* _run: market_data_refresh_lock does not wait.
BeginRun(who) ==
    /\ lockHolder = "nobody"
    /\ IF who = "service" THEN serviceBusy /\ serviceState = "RUNNING" /\ refreshes' = refreshes
                          ELSE refreshes < MaxRefreshes /\ refreshes' = refreshes + 1
    /\ lockHolder' = who
    /\ cRun' = [NoRun EXCEPT !.at = "quotes", !.today = Max({traded[s] : s \in AllSymbols})]
    /\ UNCHANGED <<provider, published, service>>

\* The end of the service's future: FAILED with the error, or SUCCEEDED.
ServiceEnds(who, state) ==
    IF who = "service" THEN serviceState' = state /\ serviceBusy' = FALSE ELSE UNCHANGED service

LockRefused ==
    /\ serviceBusy /\ lockHolder = "timer"
    /\ ServiceEnds("service", "FAILED")
    /\ UNCHANGED <<provider, lockHolder, cRun, published, refreshes>>

\* The quotes of all symbols, or none of them when the request fails.
LoadQuotes(available) ==
    /\ cRun.at = "quotes"
    /\ cRun' = [cRun EXCEPT !.at = "fetch", !.todo = MappedSymbols,
                            !.quotes = IF available THEN traded ELSE @]
    /\ UNCHANGED <<provider, lockHolder, published, service, refreshes>>

\* _fetch_result; `got' is FALSE when the request fails or too little history comes.
FetchSymbol(got) ==
    /\ cRun.at = "fetch" /\ cRun.todo # {}
    /\ LET s == Min(cRun.todo)
           result == Merged(daily[s], cRun.quotes[s], cRun.today)
       IN  cRun' = [cRun EXCEPT !.todo = @ \ {s},
                                !.results[s] = IF got /\ result # 0 THEN result ELSE @]
    /\ UNCHANGED <<provider, lockHolder, published, service, refreshes>>

\* The end of a pass: another one over the stale symbols, or the decision.
KeptTarget(run) == IF run.target = 0 THEN TargetOf(run.results) ELSE run.target
NewTarget(run) == TargetOf(run.results)
EndPass ==
    /\ cRun.at = "fetch" /\ cRun.todo = {} /\ SessionsOf(cRun.results) # {}
    /\ LET run == [cRun EXCEPT !.target = NewTarget(cRun)]
       IN  cRun' = IF run.pass < RetryPasses /\ StaleSymbols(run) # {}
                   THEN [run EXCEPT !.pass = @ + 1, !.todo = StaleSymbols(run)]
                   ELSE [run EXCEPT !.at = "publish"]
    /\ UNCHANGED <<provider, lockHolder, published, service, refreshes>>

\* build_session_consistent_output and write_csv_atomically.
RowsOf(run) == {s \in AllSymbols : run.results[s] = run.target}
PublishSession ==
    /\ cRun.at = "publish" /\ Cardinality(RowsOf(cRun)) >= MinimumRows
    /\ published' = [session |-> cRun.target, counts |-> Counts(cRun.results)]
    /\ ServiceEnds(lockHolder, "SUCCEEDED")
    /\ lockHolder' = "nobody" /\ cRun' = NoRun
    /\ UNCHANGED <<provider, refreshes>>

\* No usable candle, too little coverage, or an error outside the fetches.
RunFails ==
    /\ \/ cRun.at = "fetch" /\ cRun.todo = {} /\ SessionsOf(cRun.results) = {}
       \/ cRun.at = "publish" /\ Cardinality(RowsOf(cRun)) < MinimumRows
       \/ cRun.at = "quotes"
    /\ ServiceEnds(lockHolder, "FAILED")
    /\ lockHolder' = "nobody" /\ cRun' = NoRun
    /\ UNCHANGED <<provider, published, refreshes>>

\* The process dies: the system drops its lock, the file stays.
ProcessDies(who) ==
    /\ \/ lockHolder = who
       \/ who = "service" /\ serviceBusy
    /\ IF lockHolder = who THEN lockHolder' = "nobody" /\ cRun' = NoRun ELSE UNCHANGED <<lockHolder, cRun>>
    /\ ServiceEnds(who, "IDLE")
    /\ UNCHANGED <<provider, published, refreshes>>
-----------------------------------------------------------------------------
CollectorInit ==
    /\ daily = [s \in AllSymbols |-> 1] /\ traded = [s \in AllSymbols |-> 1]
    /\ lockHolder = "nobody" /\ cRun = NoRun
    /\ published = [session |-> 0, counts |-> Counts(NoRun.results)]
    /\ serviceState = "IDLE" /\ serviceBusy = FALSE /\ refreshes = 0

CollectorNext ==
    \/ \E s \in MappedSymbols : ProviderMoves(s)
    \/ StartService \/ LockRefused \/ EndPass \/ PublishSession \/ RunFails
    \/ \E who \in {"timer", "service"} : BeginRun(who) \/ ProcessDies(who)
    \/ \E yes \in BOOLEAN : LoadQuotes(yes) \/ FetchSymbol(yes)

CollectorSpec == CollectorInit /\ [][CollectorNext]_collectorVars
-----------------------------------------------------------------------------
\* What is published is of a session that no other session outnumbers among the
\* results of the whole run, the retries included, and it covers the minimum.
PublishedIsMajority ==
    published.session # 0 =>
        /\ published.counts[published.session] >= MinimumRows
        /\ \A x \in 1..LastSession : published.counts[x] <= published.counts[published.session]
=============================================================================
