SPECIFICATION LLMSpec
CONSTANTS
    g = g
    d = d
    s = s
    Callers <- MCCallers
    Guarded <- MCGuarded
    Streaming <- MCStreaming
    NumProviders = 2
    Swallowing <- MCSwallowing
    Threshold = 2
    Recovery = 1
    Tries = 2
    MaxRetries = 1
    \* ToolStream, at rest
    s1 = s1
    s2 = s2
    NoCall = NoCall
    Streams <- NoStream
    Answers <- MCAnswers
    MaxChunk = 3
    MaxBuffer = 4
INVARIANTS
    TrippedIffThreshold
    CallsBounded
