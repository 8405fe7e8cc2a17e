CONSTANTS
    q1 = q1
    q2 = q2
    Items = {q1, q2}
    Scopes <- OneAgent
    Workers = {w1, w2}
    Stable = {}
    NoWorker = NoWorker
    Backend = "postgres"
    MaxAttempts = 2
    TTL = 1
SPECIFICATION QueueSpec
PROPERTY LiveLeaseRespected
