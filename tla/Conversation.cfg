SPECIFICATION FairSpec
CONSTANTS
    Agents = {a1, a2}
    Callers = {c1, c2}
    Nobody = Nobody
    a1 = a1
    a2 = a2
    Memories <- MCMemories
    MaxSize = 2
    MaxTokens = 4
    Sizes = {2, 5}
    SummarizeAfter = 2
    MaxSteps = 1
    Rounds = 1
    MaxClears = 1
INVARIANT RecentKept
INVARIANT NothingForgotten
PROPERTY RunsEnd
