CONSTANTS
    Kinds = {"openai", "anthropic", "ollama", "unknown"}
    Capacity = 2
    MaxParts = 4
    Stacks = {{"RequestID", "RealIP", "Recoverer", "CORS", "Limit"},
              {"RequestID", "RealIP", "Logging", "Recoverer", "CORS", "Limit"}}
SPECIFICATION FairStreamSpec
INVARIANTS
    WroteInOrder
    EndIsTold
PROPERTIES
    ProducerEnds
