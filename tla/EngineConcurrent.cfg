CONSTANTS
    Thread = {"t1", "t2"}
    Indexer = {"t1"}
    Path = {"a.md", "b.md"}
    Directory = {"notes"}
    FilesUnder <- MCFilesUnder
    StableId <- MCStableId
    hash_path <- MCHashPath
    Text = {"cat", "dog"}
    Query = {"cat"}
    Malformed = {}
    Finds <- MCFinds
    Capacity = 1
    DistinctSeconds = TRUE
    NoFile = NoFile
    NoDocument = NoDocument
    MaxSearches = 2
    MaxIndexRuns = 2
    MaxGets = 0
    MaxSaves = 0
    MaxLoads = 0
    MaxEdits = 3
SPECIFICATION FairSpec
INVARIANTS
    TypeOK
    SearchHoldsItsIndex
    ReindexReflectsDisk
    ReportAddsUp
PROPERTIES
    IndexNeverGoesBack
    CallsReturn
