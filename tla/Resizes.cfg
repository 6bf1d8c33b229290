SPECIFICATION ResizesSpec
CONSTANTS
    Calls = {c1, c2}
    Asks <- ClaimAsks
    Sizes = {1, 2, 3}
    MaxEdits = 1
    PodCalls = {c1, c2}
    PodAsks <- PodAsked
    Pods <- PodsSeen
    ContainerNames = {"app", "side"}
    Resources = {"memory", "cpu"}
    Unit <- HalfCores
    Allocatable <- NodeHas
    Cap <- Caps
    ShrinkBuffer = 100
    PodUsages = {1, 2}
    Rests <- Rested
    MaxPodEdits = 1
SYMMETRY Symmetry
INVARIANTS
    ForbiddenStays
    ClaimTold
PROPERTIES
    GrowsOnly
    PodPatchSound
