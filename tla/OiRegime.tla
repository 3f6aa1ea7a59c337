------------------------------ MODULE OiRegime ------------------------------
(***************************************************************************)
(* The open-interest regime of the NIFTY: the service that turns a live    *)
(* market feed into one observation per contract and completed bar         *)
(* (backend/markets/nse/oi.py), the scoring of a bar (oi_regime.py), and   *)
(* the filter that judges trades by the regimes on file.                   *)
(*                                                                         *)
(* What a datum says is left out; its value in the model is the moment it  *)
(* was true.  An observation therefore shows what it was made of next to   *)
(* the source moment it claims.  Price stands for price, and interest for  *)
(* the four other fields of a packet.                                      *)
(***************************************************************************)
EXTENDS Integers, Sequences, FiniteSets, FiniteSetsExt, SequencesExt

CONSTANTS
    Contracts,      \* the selected option contracts
    OiBar,          \* completed_bar_seconds
    OiStale,        \* stale_data_seconds
    OiLookback,     \* lookback_bars
    OiDelay,        \* bound: how late a packet or a call may come
    MaxOiTime,      \* bound: the clock
    MaxPackets      \* bound: packets that arrive

ASSUME OiConfigIsValid == {OiBar, OiStale, OiLookback} \subseteq Nat \ {0}
ASSUME OiBoundsAreNatural == {OiDelay, MaxOiTime, MaxPackets} \subseteq Nat

VARIABLES
    oiNow,          \* the clock
    seeds,          \* the subscription plan: when each contract was quoted; 0: none
    planned,        \* _subscription_plan_timestamp
    replan,         \* _subscription_refresh_required
    events,         \* _live_events, in the order of arrival
    observations,   \* the observation files
    regimes,        \* the regime file
    lastBar, lastEvaluation,
    packets

serviceVars == <<seeds, planned, replan, events, lastBar, lastEvaluation>>
oiVars == <<oiNow, serviceVars, observations, regimes, packets>>
-----------------------------------------------------------------------------
Fields == {"price", "interest"}
Tracked == Contracts \cup {"future", "index"}
None == 0
MaximumGap == OiBar * (OiLookback + 1) + OiStale
LastClose == (oiNow \div OiBar) * OiBar

\* _feed_state_at: per field the event that arrived last of those not after t.
FeedState(id, t) ==
    LET of(f) == {i \in DOMAIN events : events[i].id = id /\ events[i].at <= t /\ f \in events[i].fields}
    IN  [f \in Fields |-> IF of(f) = {} THEN None ELSE events[Max(of(f))].at]
Given(state) == {state[f] : f \in Fields} \ {None}

\* What an observation is made of: the feed, and the seed where it is silent.
Composed(id, t) == [f \in Fields |-> IF FeedState(id, t)[f] = None THEN seeds[id] ELSE FeedState(id, t)[f]]

IndexPrice(t) == FeedState("index", t)["price"]
IndexSource(t) == IF IndexPrice(t) = None THEN None ELSE Min(Given(FeedState("index", t)))

\* The source moments of an option: "fresh price ticks must not conceal an older
\* OI or depth observation".
OptionSourcesOfFeed(id, t) == Given(FeedState(id, t)) \cup {IF IndexSource(t) = None THEN seeds[id] ELSE IndexSource(t)}
OptionSources(id, t) ==
    Given(FeedState(id, t))
    \cup (IF None \in {FeedState(id, t)[f] : f \in Fields} THEN {seeds[id]} ELSE {})
    \cup {IF IndexSource(t) = None THEN seeds[id] ELSE IndexSource(t)}

\* Those of the future: a seed after the bar is no candidate, and is used all the same.
FutureSources(t) ==
    LET id == "future"
    IN  Given(FeedState(id, t))
        \cup (IF None \in {FeedState(id, t)[f] : f \in Fields} /\ seeds[id] <= t THEN {seeds[id]} ELSE {})
        \cup {IF IndexSource(t) = None THEN seeds[id] ELSE IndexSource(t)}

Observation(id, t, sources) ==
    [id |-> id, ts |-> t, source |-> Min(sources), made |-> {Composed(id, t)[f] : f \in Fields}]

\* The observations of a completed bar.  An option that the feed is silent about is
\* left out when its seed is later than the bar.
BarObservations(t) ==
    {Observation(id, t, OptionSources(id, t)) :
        id \in {c \in Contracts : seeds[c] # None /\ (Given(FeedState(c, t)) # {} \/ seeds[c] <= t)}}
    \cup (IF seeds["future"] = None THEN {} ELSE {Observation("future", t, FutureSources(t))})
-----------------------------------------------------------------------------
(* The service. *)

OiTick ==
    /\ oiNow < MaxOiTime
    /\ oiNow' = oiNow + 1
    /\ UNCHANGED <<serviceVars, observations, regimes, packets>>

\* prepare_live_subscriptions: the chain is quoted now and the feed starts anew; a
\* future is not always quoted.  poll_subscription_updates calls it when it is due.
PrepareSubscriptions(quoted) ==
    /\ replan \/ planned = None
    /\ oiNow > 0
    /\ seeds' = [id \in Contracts \cup {"future"} |-> IF id \in Contracts \cup quoted THEN oiNow ELSE None]
    /\ planned' = oiNow
    /\ replan' = FALSE
    /\ events' = <<>>
    /\ UNCHANGED <<oiNow, observations, regimes, lastBar, lastEvaluation, packets>>

InvalidateLiveState ==
    /\ planned # None
    /\ seeds' = [id \in Contracts \cup {"future"} |-> None]
    /\ planned' = None /\ replan' = FALSE /\ events' = <<>>
    /\ UNCHANGED <<oiNow, observations, regimes, lastBar, lastEvaluation, packets>>

\* on_market_feed: a packet of a tracked instrument, late by OiDelay at most.
OnMarketFeed(id, at, fields) ==
    /\ packets < MaxPackets
    /\ planned # None /\ (id \in DOMAIN seeds => seeds[id] # None)
    /\ at > 0 /\ at >= oiNow - OiDelay /\ at <= oiNow
    /\ events' = Append(events, [id |-> id, at |-> at, fields |-> fields])
    /\ packets' = packets + 1
    /\ UNCHANGED <<oiNow, seeds, planned, replan, lastBar, lastEvaluation, observations, regimes>>

CompleteLiveBar(t) ==
    /\ t = LastClose /\ t > 0 /\ oiNow <= t + OiDelay
    /\ lastBar # t /\ \E c \in Contracts : seeds[c] # None
    /\ observations' = observations \cup BarObservations(t)
    /\ replan' = (replan \/ t - planned >= OiBar)
    /\ lastBar' = t
    /\ UNCHANGED <<oiNow, seeds, planned, events, lastEvaluation, regimes, packets>>
-----------------------------------------------------------------------------
(* The score of a bar. *)

\* observations_at: the newest bar not after t and the one OiLookback bars before,
\* by the bars that have observations at all.
BarsBefore(ids, t) == {o.ts : o \in {x \in observations : x.id \in ids /\ x.ts <= t}}
Current(ids, t) == LET bars == BarsBefore(ids, t)
                   IN  {o \in observations : o.id \in ids /\ bars # {} /\ o.ts = Max(bars)}
Lookback(ids, t) ==
    LET bars == BarsBefore(ids, t)
        old == {b \in bars : Cardinality({c \in bars : c > b}) = OiLookback}
    IN  {o \in observations : o.id \in ids /\ o.ts \in old}

\* option_contract_is_eligible and the gap check of score_options, score_futures.
Eligible(o, t) == 0 <= t - o.source /\ t - o.source <= OiStale
Comparable(o, p) == o.ts - p.ts > 0 /\ o.ts - p.ts <= MaximumGap
Scored(ids, t) ==
    {o \in Current(ids, t) : Eligible(o, t) /\ \E p \in Lookback(ids, t) : p.id = o.id /\ Comparable(o, p)}

\* combine_regime_components with the weights 0.35, 0.35, 0.30 and the minimum 0.65:
\* in floating point 0.35 + 0.30 is less than 0.65, so that options and futures
\* are both needed and the spot trend changes the score only.  score_options asks
\* for half of the selected contracts.
Snapshot(t, insufficient) ==
    LET options == Scored(Contracts, t)
        futures == Scored({"future"}, t)
        enough == 2 * Cardinality(options) >= Cardinality(Contracts) /\ futures # {} /\ ~insufficient
        used == options \cup futures
    IN  [ts |-> t, known |-> enough,
         source |-> IF enough THEN Max({o.source : o \in used}) ELSE None,
         oldest |-> IF enough THEN Min({o.source : o \in used}) ELSE None,
         made |-> IF enough THEN UNION {o.made : o \in used} ELSE {}]

\* refresh with strict_causal: from what is on file.  A failing provider (`down')
\* gives INSUFFICIENT_OI_DATA.  append_regime drops a second snapshot of the last
\* timestamp.
Refresh(t, down) ==
    /\ t = LastClose /\ t > 0 /\ oiNow <= t + OiDelay
    /\ lastEvaluation # t
    /\ regimes' = IF regimes # <<>> /\ regimes[Len(regimes)].ts = t THEN regimes
                  ELSE Append(regimes, Snapshot(t, down))
    /\ lastEvaluation' = t
    /\ UNCHANGED <<oiNow, seeds, planned, replan, events, lastBar, observations, packets>>
-----------------------------------------------------------------------------
OiInit ==
    /\ oiNow = 0
    /\ seeds = [id \in Contracts \cup {"future"} |-> None]
    /\ planned = None /\ replan = FALSE /\ events = <<>>
    /\ observations = {} /\ regimes = <<>>
    /\ lastBar = None /\ lastEvaluation = None /\ packets = 0

OiNext ==
    \/ OiTick \/ InvalidateLiveState
    \/ \E quoted \in SUBSET {"future"} : PrepareSubscriptions(quoted)
    \/ \E id \in Tracked, at \in 1..MaxOiTime, fields \in SUBSET Fields \ {{}} : OnMarketFeed(id, at, fields)
    \/ CompleteLiveBar(LastClose)
    \/ \E down \in BOOLEAN : Refresh(LastClose, down)

OiSpec == OiInit /\ [][OiNext]_oiVars
-----------------------------------------------------------------------------
\* A regime that is not INSUFFICIENT_OI_DATA is made of nothing older than the
\* tolerance for stale data, whichever fields the feed was silent about.
RegimesAreFresh ==
    \A i \in DOMAIN regimes : \A m \in regimes[i].made : regimes[i].ts - m <= OiStale
=============================================================================
