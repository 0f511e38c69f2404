SPECIFICATION FairReasoningSpec
CONSTANTS
    Goroutines = {g1, g2, g3}
    Nobody = Nobody
    Answers = {"yes", "no"}
    Branches = 2
    MaxDepth = 3
    MaxThoughts = 3
    Scores <- MCScores
    Iterations = 2
    ChainLength = 3
INVARIANTS
    TreeIsGreedy
    MajorityOfAll
PROPERTIES
    RequestsEnd
