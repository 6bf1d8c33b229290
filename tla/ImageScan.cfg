SPECIFICATION Spec
CONSTANTS
    i1 = i1
    i2 = i2
    i3 = i3
    f1 = f1
    f2 = f2
    f3 = f3
    None = None
    Workers = {w1, w2}
    Images = {i1, i2, i3}
    RepoOf <- MCRepoOf
    PlatformsOf <- MCPlatformsOf
    Findings = {f1, f2, f3}
    FoundOn <- MCFoundOn
    HashesPerCall = 2
    EcrBatch = 1
INVARIANTS
    FindingsAccounted
    AssessedWereRead
PROPERTIES
    ScanEnds
