------------------------- MODULE MCPlatformServices -------------------------
(* The services around the trading core, for TLC.  They share no state, so *)
(* a behaviour is one of them and their state spaces add up instead of     *)
(* multiplying.                                                            *)
EXTENDS ProviderToken, Collector, OperationsAlerts, AgentRequests,
        ExchangeConnections, Promotion, Screener

VARIABLE part

marketVars == <<tokenVars, collectorVars>>
operationVars == <<alertVars, agentVars, connectionVars>>
strategyVars == <<promotionVars, screenerVars>>
serviceVars == <<part, marketVars, operationVars, strategyVars>>

Init ==
    /\ part \in {"token", "collector", "alerts", "agent", "connection", "promotion", "screener"}
    /\ TokenInit /\ CollectorInit
    /\ AlertInit /\ AgentInit /\ ConnectionInit
    /\ PromotionInit /\ ScreenerInit

\* A step of one part leaves the others alone.
MarketNext ==
    \/ part = "token" /\ TokenNext /\ UNCHANGED collectorVars
    \/ part = "collector" /\ CollectorNext /\ UNCHANGED tokenVars

OperationNext ==
    \/ part = "alerts" /\ AlertNext /\ UNCHANGED <<agentVars, connectionVars>>
    \/ part = "agent" /\ AgentNext /\ UNCHANGED <<alertVars, connectionVars>>
    \/ part = "connection" /\ ConnectionNext /\ UNCHANGED <<alertVars, agentVars>>

StrategyNext ==
    \/ part = "promotion" /\ PromotionNext /\ UNCHANGED screenerVars
    \/ part = "screener" /\ ScreenerNext /\ UNCHANGED promotionVars

Next ==
    \/ MarketNext /\ UNCHANGED <<part, operationVars, strategyVars>>
    \/ OperationNext /\ UNCHANGED <<part, marketVars, strategyVars>>
    \/ StrategyNext /\ UNCHANGED <<part, marketVars, operationVars>>

Spec == Init /\ [][Next]_serviceVars

\* Only the deployments of strategies.
DeploymentsOnly == part = "promotion" /\ Spec

-----------------------------------------------------------------------------
MCAdapters == <<"WEBHOOK">>

\* Credentials that may only read, and ones that may trade as well.
MCGrants == [safe |-> {"read"}, full |-> {"read", "trade"}]

\* A completed backtest of one strategy, and the watchlist it ran on.
MCRunOf == [r1 |-> [strategy |-> "ema", version |-> 1, timeframe |-> "5m", content |-> "c1",
                    symbols |-> {"A"}, complete |-> TRUE]]

MCWatchlists == [w1 |-> {"A"}]

\* Three symbols that pass, two of them alike, and one that is rejected.
MCMetrics == [s \in 1..4 |-> [rejection |-> IF s = 4 THEN "PRICE_BELOW_MINIMUM" ELSE "none",
                              score |-> IF s = 1 THEN 1 ELSE 5]]
=============================================================================
