CONSTANTS
    Backend = "postgres"
    Writers = {c1, c2}
    Readers = {r1}
    Projects = {s1}
    NoWriter = NoWriter
    Legacy = 1
    PageSize = 1
    MaxBatch = 2
    MaxEvents = 4
    Clients = {c1, c2}
    NoClient = NoClient
    StaleAfter = 1
    EmptyTTL = 1
    MaxSessions = 2
    MaxTime = 3
    q1 = q1
    Items = {q1}
    Scopes <- OneAgent
    Workers = {c1, c2}
    Stable = {}
    NoWorker = NoWorker
    MaxAttempts = 2
    TTL = 1
SPECIFICATION TablesSpec
SYMMETRY TablesSymmetry
PROPERTY ImplementsEventLog
PROPERTY NeverResurrected
INVARIANT AnsweredOnce
