SPECIFICATION Spec
CONSTANTS
    Clients = {"c1", "c2"}
    MaxTokens = 3
    CollectorSymbols = 4
    MappedSymbols = {1, 2, 3}
    LastSession = 2
    RetryPasses = 1
    MinimumRows = 1
    MaxRefreshes = 2
    Monitors = {"m1", "m2"}
    FaultKinds = {"data"}
    Adapters <- MCAdapters
    Cooldown = 1
    MaxAlertTime = 1
    MaxAlertRows = 2
    Calls = {"c1", "c2"}
    AgentKeys = {"k1", "k2"}
    Bodies = {"b1", "b2"}
    MinuteLimit = 2
    MaxMinutes = 1
    Connections = {"x"}
    Credentials = {"safe", "full"}
    Grants <- MCGrants
    WebUsers = {"u1", "u2"}
    MaxKeyVersion = 2
    MaxEvents = 4
    Strategies = {"ema"}
    BacktestRuns = {"r1"}
    RunOf <- MCRunOf
    Watchlists <- MCWatchlists
    Timeframes = {"1d"}
    Contents = {"c2"}
    WebThreads = {"u1", "u2"}
    LastVersion = 2
    MaxSaves = 3
    Catalogue = {1, 2, 3, 4}
    Metrics <- MCMetrics
    Sources = {{}, {3}, {1, 2, 3, 4}}
    Limits = {0, 2}
    ScreenBatch = 3
    MaxScreens = 1
    MaxUniverses = 1
    MaxProfiles = 1
INVARIANTS
    OneRetryIsEnough PublishedIsMajority
    NoticesKeepCooldown SubmittedOnce
    UnsafeStaysDisabled ReconcileSettles WatchlistHoldsTheBest
CHECK_DEADLOCK FALSE
