CONSTANTS
    Docs = {d1}
    MaxRetry = 2
    MaxFaults = 2
    Deployments = {
        {},
        {"enqueue"},
        {"enqueue", "handlers"},
        {"enqueue", "handlers", "tenant"},
        {"enqueue", "handlers", "tenant", "payload"},
        {"enqueue", "handlers", "tenant", "payload", "text"}}
SPECIFICATION FairSpec
INVARIANTS
    ReadyHasChunks
    DeletedHasNoChunks
    DuplicatesNeedFaults
    HonestOutcome
PROPERTIES
    ProcessingEnds
