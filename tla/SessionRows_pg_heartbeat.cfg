CONSTANTS
    Clients = {p1, p2}
    NoClient = NoClient
    Backend = "postgres"
    StaleAfter = 1
    EmptyTTL = 1
    MaxSessions = 1
    MaxTime = 3
SPECIFICATION RowsSpec
INVARIANT HeartbeatNotPastEnd
