CONSTANTS
    Connection = {c1, c2}
    Descriptors = 2
    MaxSessions = 1
    c1 = c1
    c2 = c2
SPECIFICATION Spec
PROPERTIES
    EveryReplyIsSaved
CHECK_DEADLOCK FALSE
