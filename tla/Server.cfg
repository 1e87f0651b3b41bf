CONSTANTS
    Connection = {c1, c2, c3}
    Descriptors = 2
    MaxSessions = 2
    c1 = c1
    c2 = c2
    c3 = c3
SPECIFICATION FairSpec
PROPERTIES
    SaveCoversReplies
    SavedIndexNeverGoesBack
    StopEndsServing
    BacklogDrains
CHECK_DEADLOCK FALSE
