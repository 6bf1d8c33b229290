SPECIFICATION Spec
CONSTANTS
    c1 = c1
    c2 = c2
    Keys = {"us-east-1"}
    Last = 2
    Guard = 2
    Interval = 2
    Second = 3
    MaxAttempts = 2
    Calls = {c1, c2}
    Logins = {c1}
    KeyOf <- SameKey
    Histories <- Mixed
    PageLimits = {1, 2}
    MatchLimits = {1}
    Budget = 3
    MaxClock = 5
    MaxRuns = 2
INVARIANTS
    ScannedOnce
    CoverageHonest
    WithinBudget
PROPERTIES
    PagesPaced
