CONSTANTS
    Hooks = {h1}
    Calls = {c1, c2, c3}
    Capacity = 2
    MaxRestarts = 1
SPECIFICATION FairSpec
INVARIANTS
    Accounted
    LogFaithful
PROPERTIES
    ImplementsFifo
    AcceptedIsSettled
    DispatchReturns
