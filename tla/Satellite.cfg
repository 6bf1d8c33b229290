SPECIFICATION Spec
CONSTANTS
    Requests = {r1}
    Flaggable = {"workload_scale", "securityhub"}
    Asked <- AllGroups
    None = None
INVARIANTS
    RequestsSound
    GaugeCountsOpen
PROPERTIES
    GracefulExit
    SignalEnds
