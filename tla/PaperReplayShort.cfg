SPECIFICATION Spec
CONSTANTS
    d1 = d1
    d2 = d2
    Deployments = {d1, d2}
    Config <- MixedConfig
    BarLen <- MCBarLen
    NSE = TRUE
    Candles <- LowAndSpike
    StartingBalance = 60
    Slippage = 1
    UnitFee = 1
    DayBars = 2
    MaxBars = 4
    MaxSignals = 2
    HandOvers = FALSE
    MaxRestarts = 1
    MaxTorn = 1
    MaxManual = 0
    MaxResets = 0
INVARIANT ReplayNeverShort
CHECK_DEADLOCK FALSE
