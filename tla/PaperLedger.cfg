SPECIFICATION Spec
CONSTANTS
    d1 = d1
    d2 = d2
    Deployments = {d1}
    Config <- LedgerConfig
    BarLen <- MCBarLen
    NSE = TRUE
    Candles <- SagAndWhip
    StartingBalance = 60
    Slippage = 1
    UnitFee = 1
    DayBars = 2
    MaxBars = 7
    MaxSignals = 2
    HandOvers = FALSE
    MaxRestarts = 0
    MaxTorn = 0
    MaxManual = 1
    MaxResets = 1
INVARIANTS
    LedgerConserved
    MemoryIsRebuildable
    ProfitExitsAreSound
    NoStrandedEntry
    CyclesAreNumbered
CHECK_DEADLOCK FALSE
