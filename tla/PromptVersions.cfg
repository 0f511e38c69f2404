CONSTANTS
    Requests = {r1, r2, r3}
    Prompts = {p1}
    Templates = {t1, t2}
    NoRequest = NoRequest
    MaxVersion = 2
SPECIFICATION FairSpec
INVARIANTS
    HistoryContiguous
    AckedDurable
    NoSpuriousConflict
    ReadsSeeAcked
PROPERTIES
    ImplementsHistory
    AllAnswered
