SPECIFICATION QueriesSpec
CONSTANTS
    Domains = {"d1", "d2"}
    Ids = {"w"}
    MaxKeys = 2
    Timeouts = {1, 3, 4}
    PollInterval = 2
    StopWithin = 2
    NumFindings = 3
    Types = {"phishing", "malware"}
    Statuses <- Workflow
    PageSize = 1
    MaxCalls = 3
    MaxChanges = 1
    Nodes = {n1, n2, n3}
    Claims = {k1}
    Concurrency = 2
    Percents = {50, 85}
    Thresholds = {0, 60}
    MaxLines = 2
    Containers = {"a", "b"}
    MaxLogBytes = 4
    MaxStream = 5
    Requests = {r1, r2}
    Period = 3
    Burst = 2
    Second = 2
    Idle = 6
    MaxTime = 12
    MaxSent = 5
INVARIANTS
    QueryGivenUp
    CountsExact
    UsageTold
    LogsWhole
PROPERTIES
    RateHeld
    PeersKnown
    WaitsEnd
