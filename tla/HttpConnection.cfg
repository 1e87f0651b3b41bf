CONSTANTS
    MaxText = 2
    Requests <- MCRequests
    Piece = 3
    HeaderGuard = 9
    Documents <- MCDocuments
SPECIFICATION FairSpec
INVARIANTS
    EngineGetsWhatClientMeant
    AnswersReadBack
PROPERTIES
    RequestsAreAnswered
CHECK_DEADLOCK FALSE
