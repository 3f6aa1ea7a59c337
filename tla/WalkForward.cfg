SPECIFICATION MCSpec
CONSTANTS
    blue = blue
    green = green
    v1 = v1
    v2 = v2
    q1 = q1
    q2 = q2
    a1 = a1
    a2 = a2
    a3 = a3
    b1 = b1
    b2 = b2
    t1 = t1
    t2 = t2
    u1 = u1
    NoKey = NoKey
    None = None
    Runs = {a1, a2, a3, b1, b2, t1, t2, u1}
    Containers = {blue, green}
    First = blue
    Requests = {q1, q2}
    RequestRuns <- MCRequestRuns
    Key <- MCKey
    MaxPending = 3
    MaxWorkers = 1
    Symbols = 1
    MaxStarts = 2
    MaxCancels = 1
    MaxFaults = 1
    Validations = {v1, v2}
    Submission <- MCSubmission
    Folds <- MCFolds
    Training <- MCTraining
    Test <- MCTest
    Trades <- MCTrades
    Score <- MCScore
    MinTrades = 1
    MaxValidations = 1
INVARIANTS TestFollowsTraining EndedValidationIsSettled
PROPERTIES ValidationEnds
CHECK_DEADLOCK FALSE
