CONSTANTS
    Thread = {"t1"}
    Indexer = {"t1"}
    Path = {"a.md", "b.md"}
    Directory = {"notes", "drafts"}
    FilesUnder <- MCFilesUnder
    StableId <- MCStableId
    hash_path <- MCHashPath
    Text = {"cat", "dog"}
    Query = {"cat", "dog", "("}
    Malformed = {"("}
    Finds <- MCFinds
    Capacity = 1
    DistinctSeconds = TRUE
    NoFile = NoFile
    NoDocument = NoDocument
    MaxSearches = 2
    MaxIndexRuns = 2
    MaxGets = 1
    MaxSaves = 1
    MaxLoads = 1
    MaxEdits = 2
SPECIFICATION Spec
INVARIANTS
    CacheFresh
