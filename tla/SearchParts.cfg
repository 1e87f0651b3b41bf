CONSTANTS
    Chunks = {"cats", "the", "not", " ", "-", "(", "quote"}
    MaxChunks = 5
    MaxTokens = 6
    Score = {1, 2, 3}
    Asked = {0, 1, 2, 3, 9}
    DefaultTopK = 2
    MaxTopK = 4
    MaxCandidates = 5
    Char = {"a", "B", " "}
    Space = {" "}
    to_lower <- MCLower
    WordLists <- MCWordLists
    ContextChars = 2
    MaxText = 9
    Key = {k1, k2, k3, k4}
    Value = {v1, v2}
    k1 = k1
    k2 = k2
    k3 = k3
    k4 = k4
    v1 = v1
    v2 = v2
    Capacity = 3
    MaxLookups = 4
SPECIFICATION PartsSpec
INVARIANTS
    NothingIsLost
    PlainWordsShareVocabulary
    ParserFollowsGrammar
    ScoredLeavesHelp
    HeapHoldsBest
    AnswerIsBest
    AnswerWithinLimit
    MatchIsShown
    MarksEncloseAWord
    ListMatchesMap
PROPERTIES
    ImplementsRecencyCache
    CallsUseTheirKey
CHECK_DEADLOCK FALSE
