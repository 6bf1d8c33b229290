SPECIFICATION WatchSpec
CONSTANTS
    Calls = {c1, c2}
    Mixes <- Together
    Wanted = {0, 4}
    Replicas = {0, 1, 4}
    MaxEdits = 2
    MaxSecond = 2
SYMMETRY Callers
INVARIANTS
    OptOutHonoured
    ScaleWithinCall
    BudgetHonoured
    RestartRolls
