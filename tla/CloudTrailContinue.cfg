SPECIFICATION Spec
CONSTANTS
    c1 = c1
    c2 = c2
    Keys = {"us-east-1"}
    Last = 2
    Guard = 2
    Interval = 2
    Second = 3
    MaxAttempts = 1
    Calls = {c1}
    Logins = {}
    KeyOf <- OneCall
    Histories <- Single
    PageLimits = {2}
    MatchLimits = {1}
    Budget = 6
    MaxClock = 9
    MaxRuns = 3
INVARIANTS
    ContinueLosesNothing
