CONSTANTS
    Items = {q1, q2}
    Workers = {w1, w2}
    Stable = {w1}
    Nothing = Nothing
    Backends = {"memory", "sqlite", "redis"}
    MaxAttempts = 2
    TTL = 1
    MaxSize = 1
    MaxSubmits = 3
    MaxTroubles = 2
    Nodes = {1, 2, 3}
    Priorities = {1, 2}
    Budgets = {0, 3}
    MaxParallel = 2
    MaxFailures = 2
    MaxCrashes = 1
SPECIFICATION WorkSpec
\* A graph is refused, or its workflow is done.
CHECK_DEADLOCK FALSE
INVARIANT PoolIInv
PROPERTY CompletedForGood
PROPERTY JoinMeansIdle
PROPERTY ItemsSettle
PROPERTY JoinReturns
INVARIANT WorkflowIInv
INVARIANT GraphAlgorithmsRight
PROPERTY DoneIsFinal
PROPERTY WorkflowCompletes
