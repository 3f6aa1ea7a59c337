SPECIFICATION Spec
CONSTANTS
    d1 = d1
    d2 = d2
    e1 = e1
    Deliveries = {d1, d2}
    Event <- MCEvent
    AlertCandle <- MCAlertCandle
    Rows <- MCRows
    Kinds <- MCKinds
    MaxTime = 3
    Holding = 2
    MaxFaults = 1
    MaxChanges = 1
    ReplayPlans <- MCReplayPlans
    ReplayCandles <- MCReplayCandles
    ReplaySlip = 1
    ReplayFee = 0
    ReplayBars = 7
    ReplayWarmup = 1
    SessionBars = 2
    CancelBars = 3
    Instruments = {"btc", "eth"}
    OkxInstruments = {"btc"}
    PageSize = 2
    CryptoThreads = {"t1", "t2"}
    Windows = {2, 4}
    MaxBarTime = 4
    MaxCryptoTasks = 2
    PullbackConfigs <- MCPullbackConfigs
    PullbackBars <- MCPullbackBars
    PullbackSlip = 1
    PullbackCost = 1
    MinimumBars = 3
    MaxPullbackBars = 5
    Contracts = {"call"}
    OiBar = 2
    OiStale = 2
    OiLookback = 1
    OiDelay = 1
    MaxOiTime = 4
    MaxPackets = 2
    FilterRegimes <- MCRegimes
    FilterQuality <- MCQuality
    FilterStale = 2
    FilterTime = 4
    MaxCandidates = 3
    PlanRequests <- MCRequests
    Watchlists = {{"a"}, {"a", "b"}}
    Calendars = {{1, 2, 3, 4, 5, 8}, {1, 2, 4, 5, 6, 8}}
    WeekendDays = {6, 7}
    PlanKeys = {"k1", "k2"}
    PlanMetrics <- MCMetrics
    MaxValues = 3
    MaxVariants = 4
    MaxCandidatesPerFold = 2
    MaxFolds = 2
    MaxChildRuns = 6
    MaxSymbolRuns = 12
    MaxCandleWorkload = 36
    MaxEdits = 3
INVARIANTS
    HeardExactlyOnce NoMissedExit ReplayIsSound SyncedWindowIsWhole PullbackIsSound RegimesAreFresh
    BearishEntriesAreAlone PlansAreSound
SYMMETRY Alike
CHECK_DEADLOCK FALSE
