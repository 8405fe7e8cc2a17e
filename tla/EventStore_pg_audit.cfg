CONSTANTS
    Writers = {w1, w2}
    Readers = {r1}
    Projects = {p1}
    NoWriter = NoWriter
    Backend = "postgres"
    Legacy = 1
    PageSize = 1
    MaxBatch = 2
    MaxEvents = 4
SPECIFICATION Spec
INVARIANT VerifyIntegrityOK
