CONSTANTS
    StableId = {d1, d2}
    Info = {v1}
    Term = {rust, sea}
    d1 = d1
    d2 = d2
    v1 = v1
    rust = rust
    sea = sea
    MaxDocs = 3
    MaxWords = 2
    NoFile = NoFile
    Unfinished = Unfinished
SPECIFICATION StoreSpec
SYMMETRY Symmetry
INVARIANTS
    IdsNameLiveSlots
    CountersMatchPostings
    PositionsTileDocuments
    StatsMatchPostings
    IndexFileWhole
PROPERTIES
    ImplementsDurableStore
