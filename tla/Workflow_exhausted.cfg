CONSTANTS
    Nodes = {1, 2, 3}
    Budgets = {0}
    MaxParallel = 2
    MaxFailures = 1
    MaxCrashes = 0
SPECIFICATION WorkflowSpec
CHECK_DEADLOCK FALSE
INVARIANT ExhaustedBlocks
