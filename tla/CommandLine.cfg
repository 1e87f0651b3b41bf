CONSTANTS
    p1 = p1
    p2 = p2
    p3 = p3
    Process = {p1, p2, p3}
    MaxBlocks = 2
    MaxRuns = 2
SPECIFICATION Spec
SYMMETRY Processes
INVARIANTS
    TornFileIsReported
PROPERTIES
    LoneSavesAreSafe
CHECK_DEADLOCK FALSE
