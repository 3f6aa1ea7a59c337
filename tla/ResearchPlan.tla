---------------------------- MODULE ResearchPlan ----------------------------
(***************************************************************************)
(* What a research request becomes before it is queued: the variants of an *)
(* experiment (backend/research/parameter_experiments.py), the folds and   *)
(* the workload of a walk-forward validation (research/walk_forward.py),   *)
(* and the two-step protocol of the routes (api/research_routes.py,        *)
(* api/walk_forward_routes.py): a preview answers with a hash of the       *)
(* plan, a submission prepares the plan again and is refused when the hash *)
(* differs.  The watchlist, the session calendar and the strategy source   *)
(* may change between any two steps.                                       *)
(*                                                                         *)
(* A day is a number.  The hash is the plan itself.                        *)
(***************************************************************************)
EXTENDS Integers, Sequences, FiniteSets, FiniteSetsExt, SequencesExt, TLC

CONSTANTS
    PlanRequests,       \* the requests that users make
    Watchlists,         \* the contents a watchlist may have
    Calendars,          \* the contents the session calendar may have
    WeekendDays,
    PlanKeys,           \* idempotency keys
    PlanMetrics,        \* what a training run may report, see Beats
    MaxValues,          \* MAX_VALUES_PER_PARAMETER
    MaxVariants,        \* MAX_GENERATED_VARIANTS
    MaxCandidatesPerFold, MaxFolds, MaxChildRuns, MaxSymbolRuns, MaxCandleWorkload,
    MaxEdits            \* bound: edits and previews

ASSUME PlanLimitsArePositive ==
    {MaxValues, MaxVariants, MaxCandidatesPerFold, MaxFolds, MaxChildRuns, MaxSymbolRuns,
     MaxCandleWorkload} \subseteq Nat \ {0}

\* WalkForwardRequest: dates, and windows of one session at least.
ASSUME PlanRequestsAreValid ==
    \A req \in PlanRequests :
        /\ {req.start, req.end} \subseteq Int
        /\ req.kind # "experiment" => {req.training, req.testing, req.step, req.maximumFolds} \subseteq Nat \ {0}

ASSUME PlanMetricsAreNumbers ==
    \A m \in PlanMetrics : {m.pnl, m.wins, m.trades} \subseteq Int /\ m.drawdown \in Nat

VARIABLES
    watchlist, calendar, archived,  \* what a plan is made of, next to the request
    previews,                       \* the plans that were shown to a user
    submissions,                    \* requests between their check and their insert
    plans,                          \* the stored plans: a set of [key, plan, sessions],
                                    \* with the sessions there were when it was submitted
    ranking,                        \* the last fold that was ranked
    edits

planVars == <<watchlist, calendar, archived, previews, submissions, plans, ranking, edits>>
-----------------------------------------------------------------------------
(* Experiments. *)

\* _parameter_values: a numeric range, a list, or one fixed value.
ParameterValues(d) ==
    IF d.method = "NUMERIC_RANGE"
    THEN [i \in 1..((d.maximum - d.minimum) \div d.step + 1) |-> d.minimum + d.step * (i - 1)]
    ELSE d.values

\* What _parameter_values, _numeric_range and _normalise_value refuse.
DefinitionOK(d) ==
    /\ d.method = "NUMERIC_RANGE" => d.step > 0 /\ d.minimum <= d.maximum
    /\ LET values == ParameterValues(d)
       IN  /\ Len(values) \in 1..MaxValues
           /\ \A i \in DOMAIN values : values[i] \in d.low..d.high

\* _grid_variants: every combination of values over the base configuration.
GridSize(parameters) == FoldSeq(LAMBDA d, n : n * Len(ParameterValues(d)), 1, parameters)
GridVariants(base, parameters) ==
    LET paths == {parameters[i].path : i \in DOMAIN parameters}
        valuesOf(p) == UNION {ToSet(ParameterValues(parameters[i])) :
                                i \in {j \in DOMAIN parameters : parameters[j].path = p}}
        choices == {f \in [paths -> UNION {valuesOf(p) : p \in paths}] : \A p \in paths : f[p] \in valuesOf(p)}
    IN  {f @@ base : f \in choices}

\* generate_variants: a grid, or configurations by name.
VariantsOf(req) ==
    IF req.mode = "GRID" THEN GridVariants(req.base, req.parameters)
    ELSE {req.variants[i].values @@ req.base : i \in DOMAIN req.variants}

\* Duplicate names, paths, values or resolved configurations refuse the whole request.
ManualOK(req) ==
    /\ Len(req.variants) \in 1..MaxVariants
    /\ \A i, j \in DOMAIN req.variants : i # j => req.variants[i].name # req.variants[j].name
    /\ Cardinality(VariantsOf(req)) = Len(req.variants)
GridOK(req) ==
    /\ req.parameters # <<>>
    /\ \A i, j \in DOMAIN req.parameters : i # j => req.parameters[i].path # req.parameters[j].path
    /\ \A i \in DOMAIN req.parameters : DefinitionOK(req.parameters[i])
    /\ GridSize(req.parameters) <= MaxVariants
    /\ Cardinality(VariantsOf(req)) = GridSize(req.parameters)
ExperimentOK(req) ==
    /\ IF req.mode = "GRID" THEN GridOK(req) ELSE ManualOK(req)
    /\ Cardinality(VariantsOf(req)) * Cardinality(watchlist) <= MaxSymbolRuns
-----------------------------------------------------------------------------
(* Validations. *)

\* walk_forward_sessions.
Sessions(req) ==
    {d \in req.start..req.end : req.market = "CRYPTO" \/ d \in calendar \ WeekendDays}

\* generate_folds: `s' are the sessions in order, `i' the fold counted from 0.
Ascending(days) ==
    [i \in 1..Cardinality(days) |-> CHOOSE d \in days : Cardinality({e \in days : e <= d}) = i]

FoldOf(req, s, i) ==
    LET end == req.training + i * req.step
    IN  [trainingStart |-> s[IF req.mode = "ANCHORED" THEN 1 ELSE i * req.step + 1],
         trainingEnd |-> s[end], testingStart |-> s[end + 1], testingEnd |-> s[end + req.testing]]

Folds(req) ==
    LET s == Ascending(Sessions(req))
        whole == {i \in 0..(req.maximumFolds - 1) :
                    req.training + i * req.step + req.testing <= Cardinality(Sessions(req))}
    IN  [i \in 1..Cardinality(whole) |-> FoldOf(req, s, i - 1)]

\* workload_estimate.
ChildRuns(req, candidates) == Len(Folds(req)) * (candidates + 1)
CandleWorkload(req, candidates) ==
    LET trained(i) == IF req.mode = "ANCHORED" THEN req.training + i * req.step ELSE req.training
    IN  req.bars * Cardinality(watchlist)
        * FoldSeq(LAMBDA i, n : n + trained(i) * candidates + req.testing, 0,
                  [i \in 1..Len(Folds(req)) |-> i - 1])
WorkloadOK(req, candidates) ==
    /\ candidates \in 1..MaxCandidatesPerFold
    /\ ChildRuns(req, candidates) <= MaxChildRuns
    /\ ChildRuns(req, candidates) * Cardinality(watchlist) <= MaxSymbolRuns
    /\ CandleWorkload(req, candidates) <= MaxCandleWorkload

\* The stored variants a validation chooses from.
Candidates(req) == UNION {p.plan.variants : p \in {q \in plans : q.key = req.experiment /\ q.plan.req.kind = "experiment"}}
ValidationOK(req) ==
    /\ Candidates(req) # {}
    /\ req.maximumFolds <= MaxFolds
    /\ req.market = "NSE" => Sessions(req) # {}
    /\ Folds(req) # <<>>
    /\ WorkloadOK(req, Cardinality(Candidates(req)))
-----------------------------------------------------------------------------
(* The routes. *)

\* _strategy_for_request, _symbols_for_request, _validate_identity_and_range.
RequestOK(req) == ~archived /\ watchlist # {} /\ req.end >= req.start

\* The basis of the hash: the sessions of the calendar are not part of it, only the
\* folds that were cut from them.
PlanOf(req) ==
    [req |-> req, symbols |-> watchlist,
     variants |-> IF req.kind = "experiment" THEN VariantsOf(req) ELSE Candidates(req),
     folds |-> IF req.kind = "experiment" THEN <<>> ELSE Folds(req)]

\* prepare.
Prepared(req) ==
    /\ RequestOK(req)
    /\ IF req.kind = "experiment" THEN ExperimentOK(req) ELSE ValidationOK(req)

Preview(req) ==
    /\ edits < MaxEdits /\ edits' = edits + 1
    /\ Prepared(req)
    /\ previews' = previews \cup {PlanOf(req)}
    /\ UNCHANGED <<watchlist, calendar, archived, submissions, plans, ranking>>

\* A submission carries the hash of a preview of the same request; it is prepared
\* again and the key is looked up.
StaleIgnored(req, preview) == preview.req = req
HashMatches(req, preview) == PlanOf(req) = preview
BeginSubmission(req, preview, key) ==
    /\ Prepared(req)
    /\ HashMatches(req, preview)
    /\ \A p \in plans : p.key # key
    /\ submissions' = submissions \cup {[key |-> key, plan |-> PlanOf(req), sessions |-> Sessions(req)]}
    /\ UNCHANGED <<watchlist, calendar, archived, previews, plans, ranking, edits>>

\* create_generated: the key is unique; the loser is answered with what is stored,
\* or refused when that is another plan.
StorePlan(s) ==
    /\ s \in submissions
    /\ submissions' = submissions \ {s}
    /\ plans' = IF \E p \in plans : p.key = s.key THEN plans ELSE plans \cup {s}
    /\ UNCHANGED <<watchlist, calendar, archived, previews, ranking, edits>>

\* Another user.
EditInputs(symbols, days, gone) ==
    /\ edits < MaxEdits /\ edits' = edits + 1
    /\ watchlist' = symbols /\ calendar' = days /\ archived' = gone
    /\ UNCHANGED <<previews, submissions, plans, ranking>>
-----------------------------------------------------------------------------
(* rank_completed_candidates. *)

\* The objectives, exactly: a / Max(d, 1) is compared by the products.
Better(objective, a, b) ==
    CASE objective = "NET_PNL" -> a.pnl > b.pnl
      [] objective = "RETURN_DRAWDOWN" -> a.pnl * Max({b.drawdown, 1}) > b.pnl * Max({a.drawdown, 1})
      [] objective = "LOWEST_DRAWDOWN" -> a.drawdown < b.drawdown
      [] OTHER -> a.wins > b.wins

\* Sorted by the value and then the position, both descending and ascending.
EnoughTrades(minimum, runs) == {i \in DOMAIN runs : runs[i].status = "COMPLETE" /\ runs[i].trades >= minimum}
Before(objective, runs, i, j) ==
    Better(objective, runs[i], runs[j]) \/ (~Better(objective, runs[j], runs[i]) /\ i < j)
Ranked(objective, minimum, runs) ==
    LET eligible == EnoughTrades(minimum, runs)
    IN  [k \in 1..Cardinality(eligible) |->
           CHOOSE i \in eligible : Cardinality({j \in eligible : Before(objective, runs, j, i)}) = k - 1]

RankFold(p, runs) ==
    /\ p \in plans /\ p.plan.req.kind = "validation"
    /\ ranking = <<>>
    /\ LET order == Ranked(p.plan.req.objective, p.plan.req.minimumTrades, runs)
       IN  ranking' = <<[req |-> p.plan.req, runs |-> runs,
                         winner |-> IF order = <<>> THEN 0 ELSE Head(order)]>>
    /\ UNCHANGED <<watchlist, calendar, archived, previews, submissions, plans, edits>>
-----------------------------------------------------------------------------
PlanInit ==
    /\ watchlist \in Watchlists /\ calendar \in Calendars /\ archived = FALSE
    /\ previews = {} /\ submissions = {} /\ plans = {} /\ ranking = <<>> /\ edits = 0

PlanNext ==
    \/ \E req \in PlanRequests : Preview(req)
    \/ \E preview \in previews, key \in PlanKeys : BeginSubmission(preview.req, preview, key)
    \/ \E s \in submissions : StorePlan(s)
    \/ \E symbols \in Watchlists, days \in Calendars, gone \in BOOLEAN : EditInputs(symbols, days, gone)
    \/ \E p \in plans : \E runs \in [1..Cardinality(p.plan.variants) -> PlanMetrics] : RankFold(p, runs)

PlanSpec == PlanInit /\ [][PlanNext]_planVars
-----------------------------------------------------------------------------
\* No plan runs that a user has not seen: its symbols, variants and folds are those
\* of a preview of the same request, whatever was edited between the two steps.
StoredPlanWasPreviewed == \A p \in plans : p.plan \in previews

\* The folds of a stored plan: the test follows the training with no session between
\* them or in both, has all its sessions, and moves on by `step' sessions each time,
\* by the calendar of the submission.
TestsAreUnseen(req, folds, sessions) ==
    LET within(a, b) == {d \in sessions : a <= d /\ d <= b}
    IN  \A i \in DOMAIN folds :
        LET f == folds[i]
        IN  /\ f.trainingEnd < f.testingStart
            /\ within(f.trainingEnd + 1, f.testingStart - 1) = {}
            /\ Cardinality(within(f.testingStart, f.testingEnd)) = req.testing
            /\ Cardinality(within(f.trainingStart, f.trainingEnd))
                 = req.training + (IF req.mode = "ANCHORED" THEN (i - 1) * req.step ELSE 0)
            /\ i > 1 => Cardinality(within(folds[i - 1].testingStart, f.testingStart - 1)) = req.step
UnseenStaysUnseen == \A p \in plans : TestsAreUnseen(p.plan.req, p.plan.folds, p.sessions)

\* The winner of a fold has completed with enough trades, no other candidate that did
\* is better by the objective, and among equals it is the first one.
WinnerIsBest ==
    \A k \in DOMAIN ranking :
        LET r == ranking[k]
            eligible == EnoughTrades(r.req.minimumTrades, r.runs)
        IN  IF eligible = {} THEN r.winner = 0
            ELSE /\ r.winner \in eligible
                 /\ \A i \in eligible : ~Better(r.req.objective, r.runs[i], r.runs[r.winner])
                 /\ \A i \in eligible : i < r.winner => Better(r.req.objective, r.runs[r.winner], r.runs[i])

\* What is stored is what was shown, its tests are on unseen sessions, and the
\* candidate that a fold goes on with is its best.
PlansAreSound == StoredPlanWasPreviewed /\ UnseenStaysUnseen /\ WinnerIsBest
=============================================================================
