SPECIFICATION Spec
CONSTANTS
    p1 = p1
    p2 = p2
    c1 = c1
    c2 = c2
    c3 = c3
    None = None
    Procs = {p1, p2}
    Calls = {c1, c2, c3}
    ProcOf <- TwoProcs
    Queries = {q1, q2}
    Arns = {a1, a2}
    Quota = 2
    MaxAttempts = 2
    MaxRestarts = 0
    DeleteDenied = FALSE
PROPERTIES
    CallsEnd
