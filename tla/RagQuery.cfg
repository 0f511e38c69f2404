SPECIFICATION Spec
CONSTANTS
    Own = {o1, o2, o3}
    Foreign = {f1}
    TopK = 2
    MaxVariants = 2
    Lookups = {"local key", "tenant context"}
    Exact = FALSE
    MaxChanges = 1
SYMMETRY Symmetry
INVARIANTS
    Cited
    ConsensusKept
    FailureIsTold
