CONSTANTS
    Kinds = {"openai", "anthropic", "ollama", "unknown"}
    Capacity = 2
    MaxParts = 4
    Stacks = {{"RequestID", "RealIP", "Logging", "Recoverer", "CORS", "Limit"}}
SPECIFICATION StreamSpec
INVARIANTS
    StreamingSupported
