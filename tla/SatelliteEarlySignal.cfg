SPECIFICATION Spec
CONSTANTS
    Requests = {r1}
    Flaggable = {}
    Asked = {"network"}
    None = None
INVARIANTS
    SignalNeverCrashes
