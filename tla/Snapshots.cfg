CONSTANTS
    Nothing = Nothing
    Builders = {b1, b2}
    Stable = {b1}
    Nobody = Nobody
    NoSnapshot = NoSnapshot
    Backends = {"sqlite", "postgres"}
    Threshold = 2
    CheckInterval = 2
    MinInterval = 1
    StaleAfter = 0
    MaxEvents = 3
    MaxTroubles = 2
    Names = {1, 2, 3, 4}
    Normal <- FourNames
    Files = {"f"}
    Agents = {1, 2, 3}
    Texts = {"fix", "late"}
    Capability <- ThreeAgents
    Score <- ThousandthsOf
    UnhealthyAfter = 1
    Events <- AllEvents
    PageSizes = {2}
    MaxLog = 4
SPECIFICATION BothSpec
\* The bound ends the log.
CHECK_DEADLOCK FALSE
INVARIANT SnapshotIInv
INVARIANT LeaseExclusive
INVARIANT ResumeKeepsState
INVARIANT ProjectionKeepsTasks
PROPERTY DueIsTaken
