------------------------------- MODULE Screener -------------------------------
(***************************************************************************)
(* The screener of one market: runs of the background executor, their      *)
(* ranked results, the watchlists ("universes") saved from them and the    *)
(* versions of watchlist profiles (backend/screener, ScreenerServices and  *)
(* the routes of backend/api/screener_routes.py, with their repositories). *)
(*                                                                         *)
(* Symbols are numbers, in the order that breaks ties; Metrics holds what  *)
(* the filters and the ranking see of each.                                *)
(***************************************************************************)
EXTENDS Integers, Sequences, FiniteSets

CONSTANTS
    Catalogue,      \* the symbols of the market
    Metrics,        \* symbol -> [rejection, score]: filters.evaluate and the ranking key
    Sources,        \* the symbol lists that requests or profiles name
    Limits,         \* maximum_symbols of filters and of saved watchlists; 0 is none
    ScreenBatch,    \* batch_size of the engine
    MaxScreens,     \* bounds: runs,
    MaxUniverses,   \*   watchlists,
    MaxProfiles     \*   and versions of the profile

ASSUME ScreenerBounds ==
    /\ {ScreenBatch, MaxScreens, MaxUniverses, MaxProfiles} \subseteq Nat /\ ScreenBatch > 0
    /\ Sources \subseteq SUBSET Catalogue /\ Limits \subseteq Nat
\* The symbols of a market are finitely many; no filter gives the reason that the
\* ranking keeps for itself.
ASSUME MetricsAreRanked ==
    /\ Catalogue \subseteq Nat /\ IsFiniteSet(Catalogue)
    /\ \A s \in Catalogue : Metrics[s].score \in Int /\ Metrics[s].rejection # "RANKED_OUT"

VARIABLES
    serving,        \* the service is up; FALSE from its shutdown to the next start
    screens,        \* rows of screener_runs in the order of their creation
    outcomes,       \* run -> its rows of screener_results
    waiting,        \* the queue of the executor, which has one thread
    job,            \* what that thread does
    profile,        \* versions of the watchlist profile
    universes       \* rows of saved_universes

screenerVars == <<serving, screens, outcomes, waiting, job, profile, universes>>
-----------------------------------------------------------------------------
NoJob == [at |-> "idle", run |-> 0, todo |-> {}, batch |-> {}, failed |-> {}, rows |-> {}]
OutcomeRow(symbol, rejection) == [symbol |-> symbol, rejection |-> rejection, rank |-> 0]
First(S, n) == {s \in S : Cardinality({t \in S : t < s}) < n}

\* rank_symbols: by score downwards, then by symbol; what is beyond the limit is rejected.
Better(s, t) == Metrics[s].score > Metrics[t].score \/ (Metrics[s].score = Metrics[t].score /\ s < t)
Position(rows, s) == Cardinality({r \in rows : r.rejection = "none" /\ Better(r.symbol, s)}) + 1
RankSymbols(rows, limit) ==
    {IF r.rejection # "none" THEN r
     ELSE IF limit > 0 /\ Position(rows, r.symbol) > limit THEN [r EXCEPT !.rejection = "RANKED_OUT"]
     ELSE [r EXCEPT !.rank = Position(rows, r.symbol)] : r \in rows}

\* ScreenerResultRepository.list of the passing rows: in the order of their rank.
RowsBySymbol(run) ==
    LET passing == {r \in outcomes[run] : r.rejection = "none"}
    IN  [i \in 1 .. Cardinality(passing) |-> CHOOSE s \in {r.symbol : r \in passing} : Cardinality({r \in passing : r.symbol < s}) = i - 1]
RowsByRank(run) ==
    LET passing == {r \in outcomes[run] : r.rejection = "none"}
    IN  [i \in 1 .. Cardinality(passing) |-> (CHOOSE r \in passing : r.rank = i).symbol]

\* apply_manual_selection, of a list that may have been cut to a maximum.
Selected(listed, maximum, includes, excludes) ==
    LET kept == {listed[i] : i \in {j \in DOMAIN listed : maximum = 0 \/ j <= maximum}}
    IN  (kept \cup includes) \ excludes
-----------------------------------------------------------------------------
\* create and add_version of the profile repository: a version is never changed.
AddProfileVersion(symbols, limit) ==
    /\ serving /\ Len(profile) < MaxProfiles
    /\ profile' = Append(profile, [symbols |-> symbols, limit |-> limit])
    /\ UNCHANGED <<serving, screens, outcomes, waiting, job, universes>>

\* start_run and ScreenerServices.start, for symbols and filters of the request or of a
\* version; an empty list is refused.
StartScreen(source) ==
    /\ serving /\ Len(screens) < MaxScreens /\ source.symbols # {}
    /\ screens' = Append(screens, [status |-> "RUNNING", symbols |-> source.symbols, limit |-> source.limit, cut |-> FALSE])
    /\ outcomes' = Append(outcomes, {})
    /\ waiting' = Append(waiting, Len(screens) + 1)
    /\ UNCHANGED <<serving, job, profile, universes>>

\* _execute and ScreenerEngine.run: batch by batch, symbol by symbol.
TakeScreen ==
    /\ job.at = "idle" /\ waiting # <<>>
    /\ job' = [NoJob EXCEPT !.at = "read", !.run = Head(waiting), !.todo = screens[Head(waiting)].symbols]
    /\ waiting' = Tail(waiting)
    /\ UNCHANGED <<serving, screens, outcomes, profile, universes>>

\* The shutdown event ends both loops, and the run goes on as if it were whole.
Cancelled == ~serving
\* A batch is read; symbols fail one by one, or all of them with the batch.
ReadBatch(failed) ==
    /\ job.at = "read"
    /\ LET batch == First(job.todo, ScreenBatch)
       IN  /\ failed \subseteq batch
           /\ job' = IF batch = {} \/ Cancelled THEN [job EXCEPT !.at = "store"]
                     ELSE [job EXCEPT !.at = "score", !.batch = batch, !.failed = failed, !.todo = @ \ batch]
    /\ UNCHANGED <<serving, screens, outcomes, waiting, profile, universes>>
EvaluateSymbol ==
    /\ job.at = "score"
    /\ LET next == First(job.batch, 1)
           row == CHOOSE s \in next : TRUE
       IN  job' = IF next = {} \/ Cancelled THEN [job EXCEPT !.at = "read", !.batch = {}]
                  ELSE [job EXCEPT !.batch = @ \ next, !.rows = @ \cup
                            {OutcomeRow(row, IF row \in job.failed THEN "CANDLE_DATA_UNAVAILABLE" ELSE Metrics[row].rejection)}]
    /\ UNCHANGED <<serving, screens, outcomes, waiting, profile, universes>>

\* insert_many, in one transaction, then finish.
StoreOutcome ==
    /\ job.at = "store"
    /\ outcomes' = [outcomes EXCEPT ![job.run] = RankSymbols(job.rows, screens[job.run].limit)]
    /\ job' = [job EXCEPT !.at = "finish"]
    /\ UNCHANGED <<serving, screens, waiting, profile, universes>>
\* finish writes over whatever the row says.
FinishScreen(status) ==
    /\ job.at = "finish" \/ (status = "FAILED" /\ job.at \in {"read", "store"})
    /\ screens' = [screens EXCEPT ![job.run].status = status]
    /\ job' = NoJob
    /\ UNCHANGED <<serving, outcomes, waiting, profile, universes>>
\* Neither the outcome nor the failure could be written.
ScreenLost ==
    /\ job.at \in {"read", "store", "finish"}
    /\ job' = NoJob
    /\ UNCHANGED <<serving, screens, outcomes, waiting, profile, universes>>
-----------------------------------------------------------------------------
\* SavedUniverseRepository.save and activate: one watchlist is active.
StoreUniverse(row, activate) ==
    /\ Len(universes) < MaxUniverses
    /\ universes' = Append(IF activate THEN [i \in DOMAIN universes |-> [universes[i] EXCEPT !.active = FALSE]] ELSE universes,
                           [row EXCEPT !.active = activate])

\* save_universe: of a COMPLETE run, never empty.
SaveUniverse(run, maximum, includes, excludes, activate) ==
    /\ serving /\ screens[run].status = "COMPLETE"
    /\ LET symbols == Selected(RowsByRank(run), maximum, includes, excludes)
       IN  /\ symbols # {}
           /\ StoreUniverse([run |-> run, symbols |-> symbols, includes |-> includes, excludes |-> excludes, active |-> FALSE], activate)
    /\ UNCHANGED <<serving, screens, outcomes, waiting, job, profile>>

\* import_tradingview: the named symbols that the market has.
ImportTradingview(named, activate) ==
    /\ serving /\ named \cap Catalogue # {}
    /\ StoreUniverse([run |-> 0, symbols |-> named \cap Catalogue, includes |-> {}, excludes |-> {}, active |-> FALSE], activate)
    /\ UNCHANGED <<serving, screens, outcomes, waiting, job, profile>>

ActivateUniverse(i) ==
    /\ serving
    /\ universes' = [j \in DOMAIN universes |-> [universes[j] EXCEPT !.active = (j = i)]]
    /\ UNCHANGED <<serving, screens, outcomes, waiting, job, profile>>
-----------------------------------------------------------------------------
\* ScreenerServices.shutdown: the event is set, the queue is dropped, and the database
\* is closed behind the running thread, which may still finish before that.
ShutDown ==
    /\ serving /\ serving' = FALSE
    /\ waiting' = <<>>
    /\ screens' = [i \in DOMAIN screens |-> [screens[i] EXCEPT !.cut = @ \/ (job.at # "idle" /\ job.run = i)]]
    /\ UNCHANGED <<outcomes, job, profile, universes>>
Die ==
    /\ serving /\ serving' = FALSE
    /\ waiting' = <<>> /\ job' = NoJob
    /\ UNCHANGED <<screens, outcomes, profile, universes>>
\* recover_interrupted: what was left RUNNING has failed.
StartScreener ==
    /\ ~serving /\ job.at = "idle" /\ serving' = TRUE
    /\ screens' = [i \in DOMAIN screens |-> IF screens[i].status = "RUNNING" THEN [screens[i] EXCEPT !.status = "FAILED"] ELSE screens[i]]
    /\ UNCHANGED <<outcomes, waiting, job, profile, universes>>
-----------------------------------------------------------------------------
ScreenerInit ==
    /\ serving = TRUE /\ screens = <<>> /\ outcomes = <<>> /\ waiting = <<>>
    /\ job = NoJob /\ profile = <<>> /\ universes = <<>>

ScreenerNext ==
    \/ \E symbols \in Sources, limit \in Limits :
        AddProfileVersion(symbols, limit) \/ StartScreen([symbols |-> symbols, limit |-> limit])
    \/ \E version \in DOMAIN profile : StartScreen(profile[version])
    \/ TakeScreen \/ EvaluateSymbol \/ StoreOutcome \/ ScreenLost \/ ShutDown \/ Die \/ StartScreener
    \/ \E failed \in SUBSET job.todo : ReadBatch(failed)
    \/ \E status \in {"COMPLETE", "FAILED"} : FinishScreen(status)
    \/ \E run \in DOMAIN screens, maximum \in Limits, includes, excludes \in Sources, activate \in BOOLEAN :
        SaveUniverse(run, maximum, includes, excludes, activate)
    \/ \E named \in Sources, activate \in BOOLEAN : ImportTradingview(named, activate)
    \/ \E i \in DOMAIN universes : ActivateUniverse(i)

ScreenerSpec == ScreenerInit /\ [][ScreenerNext]_screenerVars
-----------------------------------------------------------------------------
\* A watchlist saved from a run holds the best of it: whatever it does not owe to the
\* manual list passed the filters of that run, and what passed them, was not excluded
\* and is missing ranks below all of that, after the limit of the run and that of the
\* watchlist.  A complete run judged all of its symbols, unless the service was shut
\* down while it ran.
WatchlistHoldsTheBest ==
    /\ \A i \in {j \in DOMAIN universes : universes[j].run > 0} :
        LET u == universes[i]
            passed == {r.symbol : r \in {q \in outcomes[u.run] : q.rejection \in {"none", "RANKED_OUT"}}}
        IN  /\ u.symbols \subseteq passed \cup u.includes
            /\ \A s \in u.symbols \ u.includes, t \in passed \ (u.symbols \cup u.excludes) : Better(s, t)
    /\ \A run \in DOMAIN screens : screens[run].status = "COMPLETE" /\ ~screens[run].cut =>
            {r.symbol : r \in outcomes[run]} = screens[run].symbols
=============================================================================
