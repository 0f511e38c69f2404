SPECIFICATION Spec
CONSTANTS
    Own = {o1, o2}
    Foreign = {f1}
    TopK = 2
    MaxVariants = 2
    Lookups = {"local key"}
    Exact = TRUE
    MaxChanges = 0
INVARIANTS
    TenantIsServed
