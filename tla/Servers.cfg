CONSTANTS
    Threads = {t1, t2}
    Nobody = Nobody
    Other = Other
    Backend = "sqlite"
    Servers = {i1, i2}
    Stable = {i1}
    Used = {i2}
    Calls = {k1, k2}
    NoSession = NoSession
    MaxSessions = 1
SPECIFICATION BothSpec
INVARIANT DeadlocksTimeOut
INVARIANT PythonWaitsAreShort
INVARIANT LifecycleIInv
INVARIANT SummaryBeforeClose
PROPERTY EveryCallEnds
PROPERTY AbandonedEnds
PROPERTY StaleSummarized
PROPERTY ServersLeaveDeadSessions
