SPECIFICATION Spec
CONSTANTS
    d1 = d1
    d2 = d2
    Deployments = {d1}
    Config <- RecoveryConfig
    BarLen <- MCBarLen
    NSE = TRUE
    Candles <- LowAndSpike
    StartingBalance = 30
    Slippage = 1
    UnitFee = 1
    DayBars = 2
    MaxBars = 4
    MaxSignals = 2
    HandOvers = TRUE
    MaxRestarts = 1
    MaxTorn = 1
    MaxManual = 0
    MaxResets = 0
INVARIANTS
    OneLotPerSignal
    NoOverdraft
    ReplayNeverShort
CHECK_DEADLOCK FALSE
