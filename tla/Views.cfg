SPECIFICATION ViewsSpec
CONSTANTS
    Namespaces = {"a", "b"}
    Kinds = {"Secret", "ConfigMap", "Widget"}
    Namespaced = {"Secret", "ConfigMap"}
    Names = {1}
    Extra = {}
    DefaultLimit = 1
    MaxLimit = 2
    MaxCrdEdits = 1
    Workloads <- SomeWorkloads
    Templates <- SomeTemplates
    Budgets <- SomeBudgets
    Scaled <- ScaledOne
    Asks <- SomeAsks
    MaxListEdits = 1
    PodNamespaces = {1, 2}
    SetNames = {1}
    Owners <- SomeOwners
    MaxSetEdits = 2
    Routes <- SomeRoutes
    ParentRefs <- SomeParents
    MaxParents = 2
    MaxRouteEdits = 2
    Nodes = {"n1", "n2"}
    AccountPods <- SomePods
    Amounts = {1, 2}
    Rooms = {1, 2}
    MinPressure = 90
    Top = 1
    UsagePods = {1, 2, 3}
    Limits <- SomeLimits
    Usages <- SomeUsages
    Payloads <- SomePayloads
    MaxUsageEdits = 1
    PendingGrace = 1
    NodeGrace = 1
    RestartWindow = 1
    Threshold = 1
    MaxRestarts = 2
INVARIANTS
    ListingsJoined
    RoutesHonest
    AccountsHonest
    AccessHonest
PROPERTIES
    ReportsHonest
