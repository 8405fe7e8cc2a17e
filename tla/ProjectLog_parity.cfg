CONSTANTS
    Names = {1, 2, 3, 4}
    Normal <- FourNames
    Nothing = Nothing
    Files = {"f"}
    Agents = {1, 2, 3}
    Texts = {"fix", "late"}
    Capability <- ThreeAgents
    Score <- ThousandthsOf
    UnhealthyAfter = 1
    Events <- LabelEvents
    PageSizes = {2}
    MaxLog = 4
SPECIFICATION LogSpec
\* The bound ends the log.
CHECK_DEADLOCK FALSE
INVARIANT ResumeEqualsReplay
