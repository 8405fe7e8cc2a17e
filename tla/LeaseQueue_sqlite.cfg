CONSTANTS
    q1 = q1
    q2 = q2
    Items = {q1, q2}
    Scopes <- OneAgent
    Workers = {w1, w2}
    Stable = {w1}
    NoWorker = NoWorker
    Backend = "sqlite"
    MaxAttempts = 2
    TTL = 1
SPECIFICATION QueueFairSpec
INVARIANT QueueIInv
PROPERTY LiveLeaseRespected
PROPERTY OperationsAreAtomic
PROPERTY ExpiredTakenBack
PROPERTY NothingStarves
