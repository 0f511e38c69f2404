CONSTANTS
    i1 = i1
    i2 = i2
    i3 = i3
    Instances = {i1, i2, i3}
    Files <- Upgrade
    FileOf <- Script
    Needs <- References
    Named = {1, 2, 4}
    Unnamed = {3}
    MaxRounds = 2
    MaxFaults = 2
SPECIFICATION Spec
SYMMETRY SameRelease
INVARIANTS
    InOrder
    RunOnce
    OkMeansApplied
