CONSTANTS
    Chunks = {"cats", "not", " "}
    MaxChunks = 5
    MaxTokens = 3
SPECIFICATION FrontEndSpec
INVARIANT
    NothingUnderNotScores
CHECK_DEADLOCK FALSE
