SPECIFICATION Spec
CONSTANTS
    Calls = {c1, c2}
    Overlays <- Sent
    Edits <- Edited
    MaxEdits = 2
    None = None
SYMMETRY Callers
INVARIANTS
    SeenIsMerged
    DeleteTellsTruth
PROPERTIES
    NeverCorrupts
    AppliesAtomically
