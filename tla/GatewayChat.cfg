CONSTANTS
    Providers = {openai, ollama}
    Lenient = {ollama}
    NoProvider = NoProvider
    RetrySettings <- Retries
SPECIFICATION FairSpec
INVARIANTS
    CallBudget
    FallbackComesLast
    ErrorIsExhausted
    CancelStops
    AnswersAreGenuine
PROPERTIES
    ChatReturns
