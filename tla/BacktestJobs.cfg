SPECIFICATION JobsSpec
CONSTANTS
    blue = blue
    green = green
    q1 = q1
    q2 = q2
    r1 = r1
    r2 = r2
    r3 = r3
    k1 = k1
    NoKey = NoKey
    None = None
    Runs = {r1, r2, r3}
    Containers = {blue, green}
    Requests = {q1, q2}
    RequestRuns <- MCRequestRuns
    Key <- MCKey
    MaxPending = 2
    MaxWorkers = 1
    Symbols = 1
    First = blue
    MaxStarts = 2
    MaxCancels = 1
    MaxFaults = 1
INVARIANTS QueueBounded SlotsAreOwned OneExperimentPerKey
PROPERTIES ImplementsLifecycle RunSettles EndedExperimentStaysEnded
CHECK_DEADLOCK FALSE
