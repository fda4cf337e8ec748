CONSTANTS
    Formats = {"claude", "openai", "responses", "completions", "images"}
    MaxRetries = 2
    MaxPayloads = 3
SPECIFICATION FairSpec
INVARIANTS TypeOK HeadersMatch
PROPERTIES PromiseKept EveryoneEnds
CHECK_DEADLOCK FALSE
