CONSTANTS
    Backend = "sqlite"
    Writers = {w1, w2, w3}
    Readers = {r1}
    Projects = {s1, s2}
    NoWriter = NoWriter
    Legacy = 1
    PageSize = 2
    MaxBatch = 2
    MaxEvents = 4
    Clients = {c1, c2}
    NoClient = NoClient
    StaleAfter = 1
    EmptyTTL = 1
    MaxSessions = 2
    MaxTime = 3
    Sources = {d1, d2}
    SourceSessions = {s3}
    LiveSessions = {s4}
    MaxIds = 3
SPECIFICATION TablesSpec
SYMMETRY TablesSymmetry
INVARIANT IInv
INVARIANT PositionsContiguous
INVARIANT ThroughComplete
INVARIANT RowsIInv
PROPERTY CallsAreAtomic
PROPERTY EndsOnce
PROPERTY ReconciledRightly
INVARIANT RepairIInv
INVARIANT RepairedHaveSummaries
