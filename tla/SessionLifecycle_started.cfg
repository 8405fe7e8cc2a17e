CONSTANTS
    Servers = {i1}
    Stable = {}
    Used = {i1}
    Calls = {k1}
    NoSession = NoSession
    MaxSessions = 2
SPECIFICATION Spec
INVARIANT CallsRunInStartedSessions
