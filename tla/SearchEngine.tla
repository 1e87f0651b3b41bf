---------------------------- MODULE SearchEngine ----------------------------
(***************************************************************************)
(* SearchEngine (src/search_engine.cpp) under many threads: search() with  *)
(* its cache, index_directory() with its private copy and pointer swap,    *)
(* get_document(), save() and load().  One action is the code between two  *)
(* points where another thread, or the owner of the files, can step in.    *)
(*                                                                         *)
(* The index is seen through what InvertedIndex implements, a store of     *)
(* documents under stable ids.  mutex_ is a shared_mutex: `readers` holds  *)
(* the threads inside a shared section of more than one step.  A section   *)
(* of one step needs no lock variable: an exclusive one waits for          *)
(* readers = {}, a shared one never sees a writer half way.                *)
(***************************************************************************)
EXTENDS Naturals, Sequences, FiniteSets, Functions

CONSTANTS
    Thread,           \* HTTP connection threads, or the one CLI thread
    Indexer,          \* the threads that may call index_directory()
    Path,             \* indexable files
    Directory,        \* what index_directory() may be pointed at
    FilesUnder(_),    \* the paths a scan of a directory walks over
    StableId,
    hash_path(_),     \* path -> stable id
    Text,             \* file contents, up to what a query can tell apart
    Query,            \* cache keys: ranker, top_k and query text
    Malformed,        \* queries the parser rejects
    Finds(_, _),      \* Finds(q, x): query q finds a document with text x
    Capacity,         \* of the cache
    DistinctSeconds,  \* TRUE: no file is written twice within one second
    NoFile, NoDocument,
    MaxSearches, MaxIndexRuns, MaxGets, MaxSaves, MaxLoads, MaxEdits  \* bounds

ASSUME EngineAssumption ==
    /\ Indexer \subseteq Thread
    /\ Query # {} /\ Malformed \subseteq Query
    /\ Capacity \in Nat
    /\ DistinctSeconds \in BOOLEAN
    /\ \A p \in Path : hash_path(p) \in StableId
    /\ \A d \in Directory : FilesUnder(d) \subseteq Path
    /\ IsFiniteSet(Path)
    /\ {MaxSearches, MaxIndexRuns, MaxGets, MaxSaves, MaxLoads, MaxEdits} \subseteq Nat

VARIABLES
    disk,       \* the indexed files, owned by somebody else
    clock,      \* seconds
    published,  \* every index ever installed; the last one is *index_
    saved,      \* index.dat (see IndexStore)
    readers,
    cache_entries, cache_index, hits, misses,
    pc,         \* where each thread is
    query,      \* search: the query
    found,      \* search: candidates, then the response
    work,       \* index_directory and load: the private index
    files,      \* index_directory: what the scan returned
    todo,       \* index_directory: files not yet processed
    report,     \* index_directory: the counters of IndexReport
    pointer,    \* get_document: the DocumentMeta* returned
    calls       \* calls made so far, for the bounds

cacheVars == <<cache_entries, cache_index, hits, misses>>
vars == <<disk, clock, published, saved, readers, cacheVars, pc, query, found,
          work, files, todo, report, pointer, calls>>

Indexed == [path : Path, modified_time : Nat, text : Text]
File    == [text : Text, modified_time : Nat]
Scanned == [path : Path, modified_time : Nat]
Counter == {"found", "added", "updated", "unchanged", "errors", "deleted"}
Call    == {"search", "index", "get", "save", "load", "edit"}

Bound == [search |-> MaxSearches, index |-> MaxIndexRuns, get |-> MaxGets,
          save |-> MaxSaves, load |-> MaxLoads, edit |-> MaxEdits]

Answers == UNION {[S -> Text] : S \in SUBSET StableId}

Cache == INSTANCE LruCache
            WITH Key <- Query, Value <- Answers, MaxLookups <- MaxSearches,
                 entries <- cache_entries, index <- cache_index

EmptyIndex == << >>
generation == Len(published)
index      == published[generation]

Install(idx) == published' = Append(published, idx)

\* The documents of idx a query finds, and the response made of them.  Scores,
\* their order and the snippet are functions of these and of the files.
Candidates(q, idx) == {id \in DOMAIN idx : Finds(q, idx[id].text)}

\* Mutant: the response holds the paths in place of the texts.
AnswerPaths(q, idx) == [id \in Candidates(q, idx) |-> idx[id].path]

Answer(q, idx) == [id \in Candidates(q, idx) |-> idx[id].text]

-----------------------------------------------------------------------------

Init == /\ disk = [p \in Path |-> NoFile]
        /\ clock = 0
        /\ published = <<EmptyIndex>>
        /\ saved = NoFile
        /\ readers = {}
        /\ Cache!CacheInit
        /\ pc = [t \in Thread |-> "idle"]
        /\ query = [t \in Thread |-> CHOOSE q \in Query : TRUE]
        /\ found = [t \in Thread |-> << >>]
        /\ work = [t \in Thread |-> EmptyIndex]
        /\ files = [t \in Thread |-> {}]
        /\ todo = [t \in Thread |-> {}]
        /\ report = [t \in Thread |-> [c \in Counter |-> 0]]
        /\ pointer = [t \in Thread |-> NoDocument]
        /\ calls = [c \in Call |-> 0]

Goto(t, label) == pc' = [pc EXCEPT ![t] = label]

Begins(t, call) == /\ pc[t] = "idle"
                   /\ calls[call] < Bound[call]
                   /\ calls' = [calls EXCEPT ![call] = @ + 1]

\* The two ends of a lock on mutex_.  Mutants: no lock is taken, or released.
NoExclusion == TRUE
LockKept(t) == UNCHANGED readers

NoReaders  == readers = {}
Release(t) == readers' = readers \ {t}

searchVars == <<query, found>>
indexVars  == <<work, files, todo, report>>
diskVars   == <<disk, clock>>
-----------------------------------------------------------------------------
(* search()                                                                *)

\* The key is in the cache: the cached response is returned.
SearchHit(t) ==
    \E q \in Query :
        /\ Begins(t, "search")
        /\ Cache!Hit(q)
        /\ UNCHANGED <<diskVars, published, saved, readers, pc, searchVars,
                       indexVars, pointer>>

\* It is not: the query is parsed, and a malformed one throws to the caller.
SearchMiss(t) ==
    \E q \in Query :
        /\ Begins(t, "search")
        /\ Cache!Miss(q)
        /\ Goto(t, IF q \in Malformed THEN "idle" ELSE "evaluate")
        /\ query' = [query EXCEPT ![t] = q]
        /\ UNCHANGED <<diskVars, published, saved, readers, found, indexVars, pointer>>

\* Takes mutex_ shared, evaluates and scores: internal ids of *index_.
SearchEvaluate(t) ==
    /\ pc[t] = "evaluate"
    /\ readers' = readers \cup {t}
    /\ found' = [found EXCEPT ![t] = Answer(query[t], index)]
    /\ Goto(t, "collect")
    /\ UNCHANGED <<diskVars, published, saved, cacheVars, query, indexVars, pointer, calls>>

\* Looks every id up in *index_ again (one without a document is dropped), reads
\* the files for the snippets and releases mutex_.
SearchCollect(t) ==
    /\ pc[t] = "collect"
    /\ found' = [found EXCEPT ![t] = Restrict(@, DOMAIN @ \cap DOMAIN index)]
    /\ Release(t)
    /\ Goto(t, "memoize")
    /\ UNCHANGED <<diskVars, published, saved, cacheVars, query, indexVars, pointer, calls>>

\* Caches the response, with no lock but the cache's own, and returns it.
SearchMemoize(t) ==
    /\ pc[t] = "memoize"
    /\ Cache!Put(query[t], found[t])
    /\ found' = [found EXCEPT ![t] = << >>]
    /\ Goto(t, "idle")
    /\ UNCHANGED <<diskVars, published, saved, readers, query, indexVars, pointer, calls>>

-----------------------------------------------------------------------------
(* index_directory()                                                       *)

\* Copies *index_ under a shared lock, or starts from nothing.
IndexSnapshot(t) ==
    \E incremental \in BOOLEAN :
        /\ t \in Indexer
        /\ Begins(t, "index")
        /\ work' = [work EXCEPT ![t] = IF incremental THEN index ELSE EmptyIndex]
        /\ Goto(t, "scan")
        /\ UNCHANGED <<diskVars, published, saved, readers, cacheVars, searchVars,
                       files, todo, report, pointer>>

\* Mutant: the age of the file is taken for its time.
ScanAges(d) == {[path |-> p, modified_time |-> clock - disk[p].modified_time] :
                   p \in {x \in FilesUnder(d) : disk[x] # NoFile}}

\* Scanner::scan: the paths and times of the files there are.
Scan(d) == {[path |-> p, modified_time |-> disk[p].modified_time] :
               p \in {x \in FilesUnder(d) : disk[x] # NoFile}}

IndexScan(t) ==
    \E d \in Directory :
        /\ pc[t] = "scan"
        /\ files' = [files EXCEPT ![t] = Scan(d)]
        /\ todo' = [todo EXCEPT ![t] = Scan(d)]
        /\ report' = [report EXCEPT ![t] =
                         [c \in Counter |-> IF c = "found" THEN Cardinality(Scan(d)) ELSE 0]]
        /\ Goto(t, "build")
        /\ UNCHANGED <<diskVars, published, saved, readers, cacheVars, searchVars,
                       work, pointer, calls>>

\* The walk itself fails (a directory vanishes under it): index_directory throws.
IndexScanFail(t) ==
    /\ pc[t] = "scan"
    /\ Goto(t, "idle")
    /\ work' = [work EXCEPT ![t] = EmptyIndex]
    /\ UNCHANGED <<diskVars, published, saved, readers, cacheVars, searchVars,
                   files, todo, report, pointer, calls>>

Count(t, c) == report' = [report EXCEPT ![t][c] = @ + 1]

\* Mutant: the time is not compared.
IsKnown(idx, f) == /\ hash_path(f.path) \in DOMAIN idx
                   /\ idx[hash_path(f.path)].path = f.path

\* Same id, same path, same time: the file is not opened.
IsUnchanged(idx, f) == /\ hash_path(f.path) \in DOMAIN idx
                       /\ idx[hash_path(f.path)].path = f.path
                       /\ idx[hash_path(f.path)].modified_time = f.modified_time

IndexUnchanged(t, f) == /\ IsUnchanged(work[t], f)
                        /\ Count(t, "unchanged")
                        /\ UNCHANGED work

\* Reads the file as it is now and records the time the scan saw.
IndexFile(t, f) ==
    LET id == hash_path(f.path)
    IN  /\ ~IsUnchanged(work[t], f)
        /\ disk[f.path] # NoFile
        /\ work' = [work EXCEPT ![t] =
                       [x \in DOMAIN @ \cup {id} |->
                          IF x = id THEN [path          |-> f.path,
                                          modified_time |-> f.modified_time,
                                          text          |-> disk[f.path].text]
                                    ELSE @[x]]]
        /\ Count(t, IF id \in DOMAIN work[t] THEN "updated" ELSE "added")

\* Mutant: the error is not counted.
IndexErrorUncounted(t, f) == ~IsUnchanged(work[t], f) /\ UNCHANGED <<work, report>>

\* The file is gone since the scan, or cannot be read.
IndexError(t, f) == /\ ~IsUnchanged(work[t], f)
                    /\ Count(t, "errors")
                    /\ UNCHANGED work

IndexNext(t) ==
    \E f \in todo[t] :
        /\ pc[t] = "build"
        /\ IndexUnchanged(t, f) \/ IndexFile(t, f) \/ IndexError(t, f)
        /\ todo' = [todo EXCEPT ![t] = @ \ {f}]
        /\ UNCHANGED <<diskVars, published, saved, readers, cacheVars, pc, searchVars,
                       files, pointer, calls>>

\* Drops every document whose id the scan did not see.
IndexDelete(t) ==
    LET seen == {hash_path(f.path) : f \in files[t]}
    IN  /\ pc[t] = "build"
        /\ todo[t] = {}
        /\ work' = [work EXCEPT ![t] = Restrict(@, DOMAIN @ \cap seen)]
        /\ report' = [report EXCEPT ![t]["deleted"] = Cardinality(DOMAIN work[t] \ seen)]
        /\ Goto(t, "swap")
        /\ UNCHANGED <<diskVars, published, saved, readers, cacheVars, searchVars,
                       files, todo, pointer, calls>>

\* Takes mutex_ exclusively, moves the private index in, destroys the old one.
IndexSwap(t) ==
    /\ pc[t] = "swap"
    /\ NoReaders
    /\ Install(work[t])
    /\ Goto(t, "invalidate")
    /\ UNCHANGED <<diskVars, saved, readers, cacheVars, searchVars, indexVars, pointer, calls>>

\* After mutex_ is released; then the report is returned and the locals die.
IndexInvalidate(t) ==
    /\ pc[t] = "invalidate"
    /\ Cache!InvalidateAll
    /\ Goto(t, "idle")
    /\ work' = [work EXCEPT ![t] = EmptyIndex]
    /\ files' = [files EXCEPT ![t] = {}]
    /\ report' = [report EXCEPT ![t] = [c \in Counter |-> 0]]
    /\ UNCHANGED <<diskVars, published, saved, readers, searchVars, todo, pointer, calls>>

-----------------------------------------------------------------------------
(* get_document(), save(), load()                                          *)

\* Returns a pointer into *index_ and releases mutex_.
GetDocument(t) ==
    \E id \in StableId :
        /\ Begins(t, "get")
        /\ pointer' = [pointer EXCEPT ![t] = IF id \in DOMAIN index
                                             THEN [into |-> generation, id |-> id]
                                             ELSE NoDocument]
        /\ Goto(t, "deref")
        /\ UNCHANGED <<diskVars, published, saved, readers, cacheVars, searchVars, indexVars>>

\* The caller reads the fields (the GET /documents handler) and forgets it.
Dereference(t) ==
    /\ pc[t] = "deref"
    /\ pointer' = [pointer EXCEPT ![t] = NoDocument]
    /\ Goto(t, "idle")
    /\ UNCHANGED <<diskVars, published, saved, readers, cacheVars, searchVars, indexVars, calls>>

\* Under a shared lock; IndexStore has the steps and the failures.
Save(t) ==
    /\ Begins(t, "save")
    /\ saved' = index
    /\ UNCHANGED <<diskVars, published, readers, cacheVars, pc, searchVars, indexVars, pointer>>

\* Reads the file into a private index, without a lock.
LoadRead(t) ==
    /\ Begins(t, "load")
    /\ saved # NoFile
    /\ work' = [work EXCEPT ![t] = saved]
    /\ Goto(t, "install")
    /\ UNCHANGED <<diskVars, published, saved, readers, cacheVars, searchVars,
                   files, todo, report, pointer>>

\* There is no file: load throws and nothing changes.
LoadFail(t) ==
    /\ Begins(t, "load")
    /\ saved = NoFile
    /\ UNCHANGED <<diskVars, published, saved, readers, cacheVars, pc, searchVars,
                   indexVars, pointer>>

\* Installs it and empties the cache before mutex_ is released.
LoadInstall(t) ==
    /\ pc[t] = "install"
    /\ NoReaders
    /\ Install(work[t])
    /\ Cache!InvalidateAll
    /\ Goto(t, "idle")
    /\ work' = [work EXCEPT ![t] = EmptyIndex]
    /\ UNCHANGED <<diskVars, saved, readers, searchVars, files, todo, report, pointer, calls>>

-----------------------------------------------------------------------------
(* The files change under the engine at any time.                          *)

Edit == /\ calls["edit"] < Bound["edit"]
        /\ calls' = [calls EXCEPT !["edit"] = @ + 1]
        /\ UNCHANGED <<published, saved, readers, cacheVars, pc, searchVars, indexVars, pointer>>

WriteFile == \E p \in Path, x \in Text, now \in {clock, clock + 1} :
                /\ DistinctSeconds => now > clock
                /\ clock' = now
                /\ disk' = [disk EXCEPT ![p] = [text |-> x, modified_time |-> now]]
                /\ Edit

DeleteFile == \E p \in Path :
                /\ disk[p] # NoFile
                /\ disk' = [disk EXCEPT ![p] = NoFile]
                /\ UNCHANGED clock
                /\ Edit

\* Every call has returned and the bounds are used up.
Finished == /\ \A t \in Thread : pc[t] = "idle"
            /\ UNCHANGED vars

Step(t) == \/ SearchEvaluate(t) \/ SearchCollect(t) \/ SearchMemoize(t)
           \/ IndexScan(t) \/ IndexScanFail(t) \/ IndexNext(t) \/ IndexDelete(t)
           \/ IndexSwap(t) \/ IndexInvalidate(t)
           \/ Dereference(t) \/ LoadInstall(t)

Start(t) == \/ SearchHit(t) \/ SearchMiss(t) \/ IndexSnapshot(t)
            \/ GetDocument(t) \/ Save(t) \/ LoadRead(t) \/ LoadFail(t)

Next == \/ \E t \in Thread : Start(t) \/ Step(t)
        \/ WriteFile \/ DeleteFile
        \/ Finished

Spec == Init /\ [][Next]_vars

\* A thread inside a call keeps running.
FairSpec == Spec /\ \A t \in Thread : WF_vars(Step(t))
-----------------------------------------------------------------------------
(* Correctness.                                                            *)

IsIndex(idx) == DOMAIN idx \subseteq StableId /\ \A id \in DOMAIN idx : idx[id] \in Indexed

IsAnswer(a) == DOMAIN a \subseteq StableId /\ \A id \in DOMAIN a : a[id] \in Text

Labels == {"idle", "evaluate", "collect", "memoize", "scan", "build", "swap",
           "invalidate", "deref", "install"}

TypeOK ==
    /\ disk \in [Path -> File \cup {NoFile}]
    /\ clock \in Nat
    /\ published # << >>
    /\ \A n \in DOMAIN published : IsIndex(published[n])
    /\ saved = NoFile \/ IsIndex(saved)
    /\ readers \subseteq Thread
    /\ Cache!CacheTypeOK
    /\ pc \in [Thread -> Labels]
    /\ query \in [Thread -> Query]
    /\ \A t \in Thread : IsAnswer(found[t]) /\ IsIndex(work[t])
    /\ \A t \in Thread : files[t] \subseteq Scanned /\ todo[t] \subseteq files[t]
    /\ report \in [Thread -> [Counter -> Nat]]
    /\ pointer \in [Thread -> [into : Nat, id : StableId] \cup {NoDocument}]
    /\ calls \in [Call -> Nat]

(* A search sees one index from the evaluation of the query to the look-up *)
(* of its results: while it holds mutex_ no swap happens, so every         *)
(* candidate still has its document (the `meta == nullptr` branch is never *)
(* taken) and the response is the answer of the index published now.       *)
SearchHoldsItsIndex ==
    \A t \in Thread : pc[t] = "collect" => /\ t \in readers
                                           /\ found[t] = Answer(query[t], index)

(* The cache answers for the index that is published, except between a     *)
(* swap and the invalidation that follows it (README: "Automatically       *)
(* invalidated whenever the index changes").                               *)
CacheFresh ==
    (\A t \in Thread : pc[t] # "invalidate") =>
        \A i \in DOMAIN cache_entries :
            cache_entries[i].value = Answer(cache_entries[i].key, index)

(* An index run that saw the files as they still are, and could read them, *)
(* publishes exactly these files: what it skipped as unchanged, what it    *)
(* read and what it deleted add up to the directory.  The time is taken at *)
(* the scan and the text read later, so this needs every write to get a    *)
(* time of its own.                                                        *)
ReindexReflectsDisk ==
    \A t \in Thread, d \in Directory :
        /\ pc[t] = "swap"
        /\ report[t]["errors"] = 0
        /\ files[t] = Scan(d)
        => /\ DOMAIN work[t] = {hash_path(f.path) : f \in files[t]}
           /\ \A f \in files[t] : work[t][hash_path(f.path)].text = disk[f.path].text

(* The report accounts for every file the scan found.                      *)
ReportAddsUp ==
    \A t \in Thread :
        pc[t] \in {"build", "swap", "invalidate"} =>
            report[t]["found"] = report[t]["added"] + report[t]["updated"]
                                 + report[t]["unchanged"] + report[t]["errors"]
                                 + Cardinality(todo[t])

(* A published document is never replaced by an older version of the same  *)
(* file.                                                                   *)
IndexNeverGoesBack ==
    [][\A id \in DOMAIN index \cap DOMAIN index' :
          index'[id].path = index[id].path =>
             index[id].modified_time <= index'[id].modified_time]_vars

(* A pointer get_document() handed out points into the index that is       *)
(* published, not into one a swap destroyed ("Safe for concurrent use",    *)
(* search_engine.h:58).                                                    *)
PointersAreLive ==
    \A t \in Thread : pointer[t] # NoDocument => pointer[t].into = generation

(* Every call returns: a search never waits for an index run to build, and *)
(* an index run waits at its swap only for the searches inside mutex_.     *)
CallsReturn == \A t \in Thread : pc[t] # "idle" ~> pc[t] = "idle"
=============================================================================
