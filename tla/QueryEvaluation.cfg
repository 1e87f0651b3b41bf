CONSTANTS
    StableId = {d1, d2}
    Info = {v1, v2}
    Term = {rust, sea}
    d1 = d1
    d2 = d2
    v1 = v1
    v2 = v2
    rust = rust
    sea = sea
    NoTerm = NoTerm
    MaxDocs = 3
    MaxWords = 3
    MaxPhrase = 3
    Queries <- MCQueries
    Height <- MCHeight
SPECIFICATION Spec
SYMMETRY Symmetry
INVARIANTS
    SearchFindsMatches
    PhrasesAreOccurrences
    ScoresCountOccurrences
PROPERTIES
    PostingsAppendInOrder
    SlotsNeverReused
    ImplementsStore
