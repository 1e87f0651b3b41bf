------------------------- MODULE SearchEngineProofs -------------------------
(***************************************************************************)
(* SearchEngine: what mutex_ gives a search, what the report of an index   *)
(* run counts, what the run publishes and what the cache answers, for any  *)
(* number of threads, index runs, files, directories and queries.          *)
(***************************************************************************)
EXTENDS SearchEngine, FiniteSetTheorems, SequenceTheorems, TLAPS

\* What is known of the cache.
CacheFacts == INSTANCE LruCacheProofs
                 WITH Key <- Query, Value <- Answers, MaxLookups <- MaxSearches,
                      entries <- cache_entries, index <- cache_index

USE DEF diskVars, cacheVars, searchVars, indexVars, Goto, Begins

-----------------------------------------------------------------------------
(* The lock.                                                               *)

(* The threads that hold mutex_ over more than one step are the searches   *)
(* between evaluation and look-up.                                         *)
ReadersSearch == readers = {t \in Thread : pc[t] = "collect"}

LockInv == /\ pc \in [Thread -> Labels]
           /\ DOMAIN query = Thread /\ DOMAIN found = Thread
           /\ ReadersSearch
           /\ SearchHoldsItsIndex

LEMMA LockInit == Init => LockInv
  BY DEF Init, LockInv, Labels, ReadersSearch, SearchHoldsItsIndex

(* A step that neither swaps, nor touches what a search holds, nor enters  *)
(* or leaves the shared section.                                           *)
LEMMA LockElsewhere ==
  ASSUME LockInv, UNCHANGED <<published, readers, found>>,
         pc' \in [Thread -> Labels], DOMAIN query' = Thread,
         \A t \in Thread : pc'[t] = "collect" => query'[t] = query[t],
         \A t \in Thread : pc'[t] = "collect" <=> pc[t] = "collect"
  PROVE  LockInv'
  BY DEF LockInv, ReadersSearch, SearchHoldsItsIndex, Answer, Candidates, index, generation

(* A step that swaps does so while nobody is in the shared section.        *)
LEMMA LockSwap ==
  ASSUME LockInv, NoReaders, UNCHANGED <<readers, query, found>>,
         pc' \in [Thread -> Labels],
         \A t \in Thread : pc'[t] = "collect" => pc[t] = "collect"
  PROVE  LockInv'
  BY DEF LockInv, ReadersSearch, SearchHoldsItsIndex, NoReaders

LEMMA LockStart == ASSUME LockInv, NEW t \in Thread, Start(t) PROVE LockInv'
<1> USE DEF LockInv, Labels
<1>1. CASE SearchHit(t)
  BY <1>1, LockElsewhere DEF SearchHit
<1>2. CASE SearchMiss(t)
  BY <1>2, LockElsewhere DEF SearchMiss
<1>3. CASE IndexSnapshot(t)
  BY <1>3, LockElsewhere DEF IndexSnapshot
<1>4. CASE GetDocument(t)
  BY <1>4, LockElsewhere DEF GetDocument
<1>5. CASE Save(t)
  BY <1>5, LockElsewhere DEF Save
<1>6. CASE LoadRead(t) \/ LoadFail(t)
  BY <1>6, LockElsewhere DEF LoadRead, LoadFail
<1> QED
  BY <1>1, <1>2, <1>3, <1>4, <1>5, <1>6 DEF Start

LEMMA LockSearch ==
  ASSUME LockInv, NEW t \in Thread,
         SearchEvaluate(t) \/ SearchCollect(t) \/ SearchMemoize(t)
  PROVE  LockInv'
<1> USE DEF LockInv, Labels, SearchHoldsItsIndex, ReadersSearch
<1>1. CASE SearchEvaluate(t)
  <2>1. \A u \in Thread : Answer(query[u], index)' = Answer(query[u], index)
    BY <1>1 DEF SearchEvaluate, Answer, Candidates, index, generation
  <2>2. ReadersSearch'
    BY <1>1 DEF SearchEvaluate
  <2>3. SearchHoldsItsIndex'
    BY <1>1, <2>1 DEF SearchEvaluate
  <2> QED
    BY <1>1, <2>2, <2>3 DEF SearchEvaluate
<1>2. CASE SearchCollect(t)
  <2>1. \A u \in Thread : Answer(query[u], index)' = Answer(query[u], index)
    BY <1>2 DEF SearchCollect, Answer, Candidates, index, generation
  <2>2. ReadersSearch'
    BY <1>2 DEF SearchCollect, Release
  <2>3. SearchHoldsItsIndex'
    BY <1>2, <2>1 DEF SearchCollect, Release
  <2> QED
    BY <1>2, <2>2, <2>3 DEF SearchCollect
<1>3. CASE SearchMemoize(t)
  <2>1. \A u \in Thread : Answer(query[u], index)' = Answer(query[u], index)
    BY <1>3 DEF SearchMemoize, Answer, Candidates, index, generation
  <2> QED
    BY <1>3, <2>1 DEF SearchMemoize
<1> QED
  BY <1>1, <1>2, <1>3

LEMMA LockStep == ASSUME LockInv, NEW t \in Thread, Step(t) PROVE LockInv'
<1> USE DEF LockInv, Labels
<1>1. CASE SearchEvaluate(t) \/ SearchCollect(t) \/ SearchMemoize(t)
  BY <1>1, LockSearch
<1>2. CASE IndexScan(t) \/ IndexScanFail(t)
  BY <1>2, LockElsewhere DEF IndexScan, IndexScanFail
<1>3. CASE IndexNext(t)
  BY <1>3, LockElsewhere DEF IndexNext
<1>4. CASE IndexDelete(t)
  BY <1>4, LockElsewhere DEF IndexDelete
<1>5. CASE IndexSwap(t)
  BY <1>5, LockSwap DEF IndexSwap
<1>6. CASE IndexInvalidate(t)
  BY <1>6, LockElsewhere DEF IndexInvalidate
<1>7. CASE Dereference(t)
  BY <1>7, LockElsewhere DEF Dereference
<1>8. CASE LoadInstall(t)
  BY <1>8, LockSwap DEF LoadInstall
<1> QED
  BY <1>1, <1>2, <1>3, <1>4, <1>5, <1>6, <1>7, <1>8 DEF Step

LEMMA LockNext == ASSUME LockInv, [Next]_vars PROVE LockInv'
<1>1. ASSUME NEW t \in Thread, Start(t) \/ Step(t) PROVE LockInv'
  BY <1>1, LockStart, LockStep
<1>2. CASE WriteFile \/ DeleteFile
  BY <1>2, LockElsewhere DEF WriteFile, DeleteFile, Edit, LockInv
<1>3. CASE UNCHANGED vars
  BY <1>3, LockElsewhere DEF vars, LockInv
<1> QED
  BY <1>1, <1>2, <1>3 DEF Next, Finished

(* While a search holds mutex_ no index is swapped under it: what it found *)
(* is the answer of the index published now.                               *)
THEOREM SearchesCorrect == Spec => []SearchHoldsItsIndex
<1>1. LockInv /\ [Next]_vars => LockInv'
  BY LockNext
<1>2. LockInv => SearchHoldsItsIndex
  BY DEF LockInv
<1> QED
  BY LockInit, <1>1, <1>2, PTL DEF Spec

-----------------------------------------------------------------------------
(* The report.                                                             *)

Reporting == {"build", "swap", "invalidate"}

\* The counters that ReportAddsUp adds; "deleted" counts documents.
FileCounter == {"found", "added", "updated", "unchanged", "errors"}

ReportTypes == /\ DOMAIN report = Thread
               /\ \A t \in Thread : /\ DOMAIN report[t] = Counter
                                    /\ \A c \in FileCounter : report[t][c] \in Nat

ReportInv == /\ pc \in [Thread -> Labels]
             /\ ReportTypes
             /\ DOMAIN todo = Thread
             /\ \A t \in Thread : IsFiniteSet(todo[t])
             /\ ReportAddsUp

LEMMA ReportInit == Init => ReportInv
  BY FS_EmptySet DEF Init, ReportInv, ReportTypes, FileCounter, Labels, Counter, ReportAddsUp

(* A step that counts nothing and does not begin to report.                *)
LEMMA ReportElsewhere ==
  ASSUME ReportInv, UNCHANGED <<report, todo>>, pc' \in [Thread -> Labels],
         \A t \in Thread : pc'[t] \in Reporting => pc[t] \in Reporting
  PROVE  ReportInv'
  BY DEF ReportInv, ReportTypes, ReportAddsUp, Reporting

(* There are finitely many files.                                          *)
LEMMA ScansFinite ==
  ASSUME NEW d \in Directory
  PROVE  IsFiniteSet(Scan(d)) /\ Cardinality(Scan(d)) \in Nat
<1> DEFINE There == {x \in FilesUnder(d) : disk[x] # NoFile}
           Record(p) == [path |-> p, modified_time |-> disk[p].modified_time]
<1>1. IsFiniteSet(There)
  BY FS_Subset, EngineAssumption
<1>2. IsFiniteSet({Record(p) : p \in There})
  <2> DEFINE f == [p \in There |-> Record(p)]
  <2>1. f \in Surjection(There, {Record(p) : p \in There})
    BY DEF Surjection
  <2> QED
    BY <1>1, <2>1, FS_Surjection
<1>3. Scan(d) = {Record(p) : p \in There}
  BY DEF Scan
<1> QED
  BY <1>2, <1>3, FS_CardinalityType

LEMMA ReportScan == ASSUME ReportInv, NEW t \in Thread, IndexScan(t) PROVE ReportInv'
<1>1. PICK d \in Directory : IndexScan(t)!(d)
  BY DEF IndexScan
<1>2. IsFiniteSet(Scan(d)) /\ Cardinality(Scan(d)) \in Nat
  BY ScansFinite
<1>3. pc' \in [Thread -> Labels] /\ DOMAIN todo' = Thread
  BY <1>1 DEF ReportInv, Labels
<1>4. ReportTypes'
  BY <1>1, <1>2 DEF ReportInv, ReportTypes, FileCounter, Counter
<1>5. \A u \in Thread : IsFiniteSet(todo'[u])
  BY <1>1, <1>2 DEF ReportInv
<1>6. ReportAddsUp'
  BY <1>1, <1>2 DEF ReportInv, ReportTypes, FileCounter, ReportAddsUp, Labels, Counter
<1> QED
  BY <1>3, <1>4, <1>5, <1>6 DEF ReportInv

(* Each file moves from the files to do to one of the counters.            *)
LEMMA ReportNextFile == ASSUME ReportInv, NEW t \in Thread, IndexNext(t) PROVE ReportInv'
<1>1. PICK f \in todo[t] : IndexNext(t)!(f)
  BY DEF IndexNext
<1>2. PICK c \in {"unchanged", "updated", "added", "errors"} : Count(t, c)
  BY <1>1 DEF IndexUnchanged, IndexFile, IndexError
<1>3. /\ IsFiniteSet(todo'[t])
      /\ Cardinality(todo[t]) \in Nat /\ Cardinality(todo'[t]) \in Nat
      /\ Cardinality(todo[t]) = Cardinality(todo'[t]) + 1
  <2>1. IsFiniteSet(todo[t]) /\ todo'[t] = todo[t] \ {f}
    BY <1>1 DEF ReportInv
  <2>2. IsFiniteSet(todo'[t]) /\ Cardinality(todo'[t]) = Cardinality(todo[t]) - 1
    BY <2>1, FS_RemoveElement
  <2>3. Cardinality(todo[t]) \in Nat /\ Cardinality(todo'[t]) \in Nat
    BY <2>1, <2>2, FS_CardinalityType
  <2> QED
    BY <2>2, <2>3
<1>4. ReportTypes'
  BY <1>2 DEF Count, ReportInv, ReportTypes, FileCounter, Counter
<1>5. ReportAddsUp'
  <2> SUFFICES ASSUME NEW u \in Thread, pc'[u] \in Reporting
               PROVE  report'[u]["found"] = report'[u]["added"] + report'[u]["updated"]
                                            + report'[u]["unchanged"] + report'[u]["errors"]
                                            + Cardinality(todo'[u])
    BY DEF ReportAddsUp, Reporting
  <2>1. report[u]["found"] = report[u]["added"] + report[u]["updated"]
                             + report[u]["unchanged"] + report[u]["errors"]
                             + Cardinality(todo[u])
    BY <1>1 DEF ReportInv, ReportAddsUp, Reporting
  <2>2. CASE u = t
    BY <1>2, <1>3, <2>1, <2>2 DEF Count, ReportInv, ReportTypes, FileCounter, Counter
  <2>3. CASE u # t
    BY <1>1, <1>2, <2>1, <2>3 DEF Count, ReportInv, ReportTypes
  <2> QED
    BY <2>2, <2>3
<1> QED
  BY <1>1, <1>3, <1>4, <1>5 DEF ReportInv

LEMMA ReportStep == ASSUME ReportInv, NEW t \in Thread, Step(t) PROVE ReportInv'
<1> USE DEF ReportInv, Labels, Reporting
<1>1. CASE SearchEvaluate(t) \/ SearchCollect(t) \/ SearchMemoize(t)
  BY <1>1, ReportElsewhere DEF SearchEvaluate, SearchCollect, SearchMemoize
<1>2. CASE IndexScan(t)
  BY <1>2, ReportScan
<1>3. CASE IndexScanFail(t)
  BY <1>3, ReportElsewhere DEF IndexScanFail
<1>4. CASE IndexNext(t)
  BY <1>4, ReportNextFile
<1>5. CASE IndexDelete(t)
  <2>1. ReportTypes'
    BY <1>5 DEF IndexDelete, ReportTypes, FileCounter, Counter
  <2>2. \A u \in Thread, c \in FileCounter : report'[u][c] = report[u][c]
    BY <1>5 DEF IndexDelete, ReportTypes, FileCounter, Counter
  <2>3. ReportAddsUp'
    BY <1>5, <2>2 DEF IndexDelete, ReportAddsUp, FileCounter
  <2> QED
    BY <1>5, <2>1, <2>3 DEF IndexDelete
<1>6. CASE IndexSwap(t)
  BY <1>6, ReportElsewhere DEF IndexSwap
<1>7. CASE IndexInvalidate(t)
  BY <1>7 DEF IndexInvalidate, ReportAddsUp, ReportTypes, FileCounter, Counter
<1>8. CASE Dereference(t)
  BY <1>8, ReportElsewhere DEF Dereference
<1>9. CASE LoadInstall(t)
  BY <1>9, ReportElsewhere DEF LoadInstall
<1> QED
  BY <1>1, <1>2, <1>3, <1>4, <1>5, <1>6, <1>7, <1>8, <1>9 DEF Step

LEMMA ReportNext == ASSUME ReportInv, [Next]_vars PROVE ReportInv'
<1> USE DEF ReportInv, Labels, Reporting
<1>1. ASSUME NEW t \in Thread, SearchHit(t) \/ SearchMiss(t) \/ IndexSnapshot(t)
      PROVE  ReportInv'
  BY <1>1, ReportElsewhere DEF SearchHit, SearchMiss, IndexSnapshot
<1>2. ASSUME NEW t \in Thread, GetDocument(t) \/ Save(t) \/ LoadRead(t) \/ LoadFail(t)
      PROVE  ReportInv'
  BY <1>2, ReportElsewhere DEF GetDocument, Save, LoadRead, LoadFail
<1>3. ASSUME NEW t \in Thread, Step(t) PROVE ReportInv'
  BY <1>3, ReportStep
<1>4. CASE WriteFile \/ DeleteFile
  BY <1>4, ReportElsewhere DEF WriteFile, DeleteFile, Edit
<1>5. CASE UNCHANGED vars
  BY <1>5, ReportElsewhere DEF vars
<1> QED
  BY <1>1, <1>2, <1>3, <1>4, <1>5 DEF Next, Start, Finished

(* The counters of the report account for every file the scan found, while *)
(* the run works through them and after.                                   *)
THEOREM ReportsCorrect == Spec => []ReportAddsUp
<1>1. ReportInv /\ [Next]_vars => ReportInv'
  BY ReportNext
<1>2. ReportInv => ReportAddsUp
  BY DEF ReportInv
<1> QED
  BY ReportInit, <1>1, <1>2, PTL DEF Spec

-----------------------------------------------------------------------------
(* What an index run publishes: if it met no error and the files are still *)
(* as its scan saw them, it publishes exactly these files.                 *)
(*                                                                         *)
(* The argument: whatever index holds a document with a time, the file     *)
(* that has this time now has the text of the document.  A file that was   *)
(* written between the scan and the read is stored with a time it no       *)
(* longer has, and never has again.                                        *)

Stores == UNION {[S -> Indexed] : S \in SUBSET StableId}

\* The indexes there are: the published ones, the private ones, the saved one.
Held == {published[n] : n \in DOMAIN published} \cup {work[t] : t \in Thread}
           \cup ({saved} \ {NoFile})

FilesTypes ==
    /\ disk \in [Path -> File \cup {NoFile}]
    /\ clock \in Nat
    /\ published \in Seq(Stores) /\ published # << >>
    /\ saved \in Stores \cup {NoFile}
    /\ work \in [Thread -> Stores]
    /\ files \in [Thread -> SUBSET Scanned]
    /\ todo \in [Thread -> SUBSET Scanned]

\* No time is later than the clock.
TimesPass ==
    /\ \A p \in Path : disk[p] # NoFile => disk[p].modified_time <= clock
    /\ \A t \in Thread : \A f \in files[t] \cup todo[t] : f.modified_time <= clock

\* A document whose file still has its time is what the file says.
IsTrue(idx) ==
    \A id \in DOMAIN idx :
        LET p == idx[id].path
        IN  /\ idx[id].modified_time <= clock
            /\ disk[p] # NoFile /\ disk[p].modified_time = idx[id].modified_time
                  => idx[id].text = disk[p].text

HeldAreTrue == \A idx \in Held : IsTrue(idx)

Running == {"build", "swap"}

\* The files a run has processed without an error are in its index, each with
\* the time of the scan; at the end nothing else is.
RunOnCourse(t) ==
    /\ todo[t] \subseteq files[t]
    /\ \A f, g \in files[t] : f.path = g.path => f = g
    /\ report[t]["errors"] = 0 =>
          \A f \in files[t] \ todo[t] :
              /\ hash_path(f.path) \in DOMAIN work[t]
              /\ work[t][hash_path(f.path)].path = f.path
              /\ work[t][hash_path(f.path)].modified_time = f.modified_time
    /\ pc[t] = "swap" => /\ todo[t] = {}
                         /\ DOMAIN work[t] \subseteq {hash_path(f.path) : f \in files[t]}

RunsOnCourse == \A t \in Thread : pc[t] \in Running => RunOnCourse(t)

FilesInv == ReportInv /\ FilesTypes /\ TimesPass /\ HeldAreTrue /\ RunsOnCourse

-----------------------------------------------------------------------------

LEMMA StoreIs ==
    /\ << >> \in Stores
    /\ \A S \in SUBSET StableId : \A f : f \in [S -> Indexed] => f \in Stores
    /\ \A f \in Stores : /\ DOMAIN f \subseteq StableId
                         /\ \A id \in DOMAIN f : f[id] \in Indexed
                         /\ f \in [DOMAIN f -> Indexed]
<1>1. << >> \in [{} -> Indexed]
  OBVIOUS
<1>2. \A S \in SUBSET StableId : \A f : f \in [S -> Indexed] => f \in Stores
  BY DEF Stores
<1>3. << >> \in Stores
  BY <1>1, <1>2
<1>4. ASSUME NEW f \in Stores
      PROVE  /\ DOMAIN f \subseteq StableId
             /\ \A id \in DOMAIN f : f[id] \in Indexed
             /\ f \in [DOMAIN f -> Indexed]
  <2>1. PICK S \in SUBSET StableId : f \in [S -> Indexed]
    BY DEF Stores
  <2> QED BY <2>1
<1> QED
  BY <1>2, <1>3, <1>4

LEMMA IndexIsHeld ==
    ASSUME FilesTypes
    PROVE  index \in Stores /\ index \in Held
<1>1. generation \in DOMAIN published
  BY EmptySeq DEF FilesTypes, generation
<1> QED
  BY <1>1 DEF FilesTypes, index, Held

LEMMA EmptyIsTrue == IsTrue(<< >>)
  BY DEF IsTrue

\* A step that leaves the files alone and makes no index that is not true.
LEMMA TruthKept ==
    ASSUME HeldAreTrue, UNCHANGED <<disk, clock>>,
           \A idx \in Held' : idx \in Held \/ IsTrue(idx)
    PROVE  HeldAreTrue'
  BY DEF HeldAreTrue, IsTrue

LEMMA TimesKept ==
    ASSUME TimesPass, UNCHANGED <<disk, clock, files, todo>>
    PROVE  TimesPass'
  BY DEF TimesPass

\* A step outside the index runs.
LEMMA RunsElsewhere ==
    ASSUME RunsOnCourse, UNCHANGED <<files, report, todo>>,
           \A t \in Thread : pc'[t] \in Running => pc'[t] = pc[t] /\ work'[t] = work[t]
    PROVE  RunsOnCourse'
  BY DEF RunsOnCourse, RunOnCourse

LEMMA FilesElsewhere ==
    ASSUME FilesInv, ReportInv', UNCHANGED <<disk, clock, published, saved, indexVars>>,
           \A t \in Thread : pc'[t] \in Running => pc'[t] = pc[t]
    PROVE  FilesInv'
<1>1. FilesTypes'
  BY DEF FilesInv, FilesTypes
<1>2. Held' = Held
  BY DEF Held
<1> QED
  BY <1>1, <1>2, TruthKept, TimesKept, RunsElsewhere DEF FilesInv

LEMMA FilesInit == Init => FilesInv
<1> SUFFICES ASSUME Init PROVE FilesInv
  OBVIOUS
<1>1. FilesTypes
  <2>1. published \in Seq(Stores) /\ published # << >>
    BY StoreIs DEF Init, EmptyIndex
  <2> QED
    BY <2>1, StoreIs DEF Init, FilesTypes, EmptyIndex
<1>2. TimesPass
  BY DEF Init, TimesPass
<1>3. \A idx \in Held : idx = << >>
  BY DEF Init, Held, EmptyIndex
<1>4. HeldAreTrue
  BY <1>3, EmptyIsTrue DEF HeldAreTrue
<1>5. RunsOnCourse
  BY DEF Init, RunsOnCourse, Running
<1> QED
  BY <1>1, <1>2, <1>4, <1>5, ReportInit DEF FilesInv

-----------------------------------------------------------------------------
(* The steps of an index run.                                              *)

LEMMA SnapshotKeeps ==
    ASSUME FilesInv, NEW t \in Thread, IndexSnapshot(t), ReportInv'
    PROVE  FilesInv'
<1>1. PICK x \in {index, << >>} : work' = [work EXCEPT ![t] = x]
  BY DEF IndexSnapshot, EmptyIndex
<1>2. x \in Stores /\ (x \in Held \/ IsTrue(x))
  BY <1>1, IndexIsHeld, StoreIs, EmptyIsTrue DEF FilesInv
<1>3. /\ UNCHANGED <<disk, clock, published, saved, files, report, todo>>
      /\ pc[t] = "idle" /\ pc' = [pc EXCEPT ![t] = "scan"]
  BY DEF IndexSnapshot
<1>4. FilesTypes'
  BY <1>1, <1>2, <1>3 DEF FilesInv, FilesTypes
<1>5. HeldAreTrue'
  <2>1. \A idx \in Held' : idx \in Held \/ idx = x
    BY <1>1, <1>3 DEF Held, FilesInv, FilesTypes
  <2> QED BY <1>2, <1>3, <2>1, TruthKept DEF FilesInv
<1>6. RunsOnCourse'
  <2>1. \A u \in Thread : pc'[u] \in Running => pc'[u] = pc[u] /\ work'[u] = work[u]
    BY <1>1, <1>3 DEF FilesInv, FilesTypes, ReportInv, Running
  <2> QED BY <1>3, <2>1, RunsElsewhere DEF FilesInv
<1> QED
  BY <1>3, <1>4, <1>5, <1>6, TimesKept DEF FilesInv

LEMMA ScanKeeps ==
    ASSUME FilesInv, NEW t \in Thread, IndexScan(t), ReportInv'
    PROVE  FilesInv'
<1>1. PICK d \in Directory : IndexScan(t)!(d)
  BY DEF IndexScan
<1>2. \A f \in Scan(d) : \E p \in Path : /\ disk[p] # NoFile /\ f.path = p
                                         /\ f.modified_time = disk[p].modified_time
  BY EngineAssumption DEF Scan
<1>3. Scan(d) \subseteq Scanned
  BY EngineAssumption DEF Scan, Scanned, File, FilesInv, FilesTypes
<1>4. UNCHANGED <<disk, clock, published, saved, work>>
  BY <1>1
<1>5. files' = [files EXCEPT ![t] = Scan(d)] /\ todo' = [todo EXCEPT ![t] = Scan(d)]
  BY <1>1
<1>6. FilesTypes'
  BY <1>3, <1>4, <1>5 DEF FilesInv, FilesTypes
<1>7. TimesPass'
  BY <1>2, <1>4, <1>5 DEF TimesPass, FilesInv, FilesTypes
<1>8. HeldAreTrue'
  BY <1>4, TruthKept DEF FilesInv, Held
<1>9. RunsOnCourse'
  <2> SUFFICES ASSUME NEW u \in Thread, pc'[u] \in Running
               PROVE  RunOnCourse(u)'
    BY DEF RunsOnCourse
  <2>1. CASE u = t
    <3>1. /\ files'[t] = Scan(d) /\ todo'[t] = Scan(d) /\ pc'[t] = "build"
      BY <1>1, <1>5 DEF FilesInv, FilesTypes, ReportInv
    <3>2. \A f, g \in Scan(d) : f.path = g.path => f = g
      BY DEF Scan
    <3> QED BY <2>1, <3>1, <3>2 DEF RunOnCourse
  <2>2. CASE u # t
    <3>1. /\ files'[u] = files[u] /\ todo'[u] = todo[u] /\ pc'[u] = pc[u]
          /\ report'[u] = report[u] /\ work'[u] = work[u]
      BY <1>1, <2>2 DEF FilesInv, FilesTypes, ReportInv, ReportTypes
    <3> QED BY <3>1 DEF RunOnCourse, RunsOnCourse, FilesInv
  <2> QED BY <2>1, <2>2
<1> QED
  BY <1>6, <1>7, <1>8, <1>9 DEF FilesInv

\* A private index is given up, outside the runs that are on course.
LEMMA WorkDropped ==
    ASSUME FilesInv, NEW t \in Thread, ReportInv',
           work' = [work EXCEPT ![t] = << >>],
           UNCHANGED <<disk, clock, saved>>,
           published' \in Seq(Stores), published' # << >>,
           \A n \in DOMAIN published' : published'[n] \in Held,
           files' = files \/ files' = [files EXCEPT ![t] = {}], todo' = todo,
           report' = report \/ \E r : report' = [report EXCEPT ![t] = r],
           pc' = [pc EXCEPT ![t] = "idle"]
    PROVE  FilesInv'
<1>1. FilesTypes'
  BY StoreIs DEF FilesInv, FilesTypes
<1>2. TimesPass'
  BY DEF FilesInv, FilesTypes, TimesPass
<1>3. HeldAreTrue'
  <2>1. \A idx \in Held' : idx \in Held \/ idx = << >>
    BY DEF Held, FilesInv, FilesTypes
  <2> QED BY <2>1, EmptyIsTrue, TruthKept DEF FilesInv
<1>4. RunsOnCourse'
  <2> SUFFICES ASSUME NEW u \in Thread, pc'[u] \in Running
               PROVE  RunOnCourse(u)'
    BY DEF RunsOnCourse
  <2>1. u # t
    BY DEF FilesInv, ReportInv, Running
  <2>2. /\ files'[u] = files[u] /\ todo'[u] = todo[u] /\ pc'[u] = pc[u]
        /\ report'[u] = report[u] /\ work'[u] = work[u]
    BY <2>1 DEF FilesInv, FilesTypes, ReportInv, ReportTypes
  <2> QED BY <2>2 DEF RunOnCourse, RunsOnCourse, FilesInv
<1> QED
  BY <1>1, <1>2, <1>3, <1>4 DEF FilesInv

\* The current index is replaced by a private one.
LEMMA Installed ==
    ASSUME FilesTypes, NEW t \in Thread, Install(work[t])
    PROVE  /\ published' \in Seq(Stores) /\ published' # << >>
           /\ \A n \in DOMAIN published' : published'[n] \in Held
<1>1. work[t] \in Stores /\ work[t] \in Held
  BY DEF FilesTypes, Held
<1>2. published' = Append(published, work[t]) /\ published \in Seq(Stores)
  BY DEF Install, FilesTypes
<1>3. \A n \in DOMAIN published' : n \in DOMAIN published \/ published'[n] = work[t]
  BY <1>1, <1>2
<1>4. \A n \in DOMAIN published : published'[n] = published[n]
  BY <1>1, <1>2
<1>5. published' \in Seq(Stores) /\ published' # << >>
  BY <1>1, <1>2
<1> QED
  BY <1>1, <1>3, <1>4, <1>5 DEF Held

LEMMA SwapKeeps ==
    ASSUME FilesInv, NEW t \in Thread, IndexSwap(t), ReportInv'
    PROVE  FilesInv'
<1>1. /\ published' \in Seq(Stores) /\ published' # << >>
      /\ \A n \in DOMAIN published' : published'[n] \in Held
  BY Installed DEF IndexSwap, FilesInv
<1>2. UNCHANGED <<disk, clock, saved, work, files, report, todo>>
      /\ pc' = [pc EXCEPT ![t] = "invalidate"]
  BY DEF IndexSwap
<1>3. FilesTypes'
  BY <1>1, <1>2 DEF FilesInv, FilesTypes
<1>4. HeldAreTrue'
  <2>1. \A idx \in Held' : idx \in Held
    BY <1>1, <1>2 DEF Held
  <2> QED BY <1>2, <2>1, TruthKept DEF FilesInv
<1>5. \A u \in Thread : pc'[u] \in Running => pc'[u] = pc[u]
  BY <1>2 DEF FilesInv, ReportInv, Running
<1> QED
  BY <1>2, <1>3, <1>4, <1>5, TimesKept, RunsElsewhere DEF FilesInv

LEMMA DeleteKeeps ==
    ASSUME FilesInv, NEW t \in Thread, IndexDelete(t), ReportInv'
    PROVE  FilesInv'
<1> DEFINE seen == {hash_path(f.path) : f \in files[t]}
           kept == DOMAIN work[t] \cap seen
           x    == [id \in kept |-> work[t][id]]
<1>1. /\ pc[t] = "build" /\ todo[t] = {} /\ work' = [work EXCEPT ![t] = x]
      /\ \E n : report' = [report EXCEPT ![t]["deleted"] = n]
      /\ pc' = [pc EXCEPT ![t] = "swap"]
      /\ UNCHANGED <<disk, clock, published, saved, files, todo>>
  BY DEF IndexDelete, Restrict, FilesInv, FilesTypes
<1>2. work[t] \in Stores /\ work[t] \in Held
  BY DEF FilesInv, FilesTypes, Held
<1>3. x \in Stores
  <2>1. kept \in SUBSET StableId /\ x \in [kept -> Indexed]
    BY <1>2, StoreIs
  <2> QED BY <2>1, StoreIs
<1>4. DOMAIN x = kept /\ \A id \in kept : id \in DOMAIN work[t] /\ x[id] = work[t][id]
  OBVIOUS
<1>5. kept \subseteq seen /\ \A id \in seen : id \in DOMAIN work[t] => id \in kept
  OBVIOUS
<1> HIDE DEF x, kept
<1>6. IsTrue(x)
  BY <1>2, <1>4 DEF IsTrue, HeldAreTrue, FilesInv
<1>7. FilesTypes'
  BY <1>1, <1>3 DEF FilesInv, FilesTypes
<1>8. HeldAreTrue'
  <2>1. \A idx \in Held' : idx \in Held \/ idx = x
    BY <1>1 DEF Held, FilesInv, FilesTypes
  <2> QED BY <1>1, <1>6, <2>1, TruthKept DEF FilesInv
<1>9. \A u \in Thread : report'[u]["errors"] = report[u]["errors"]
  BY <1>1 DEF FilesInv, ReportInv, ReportTypes, Counter
<1>10. RunsOnCourse'
  <2> SUFFICES ASSUME NEW u \in Thread, pc'[u] \in Running
               PROVE  RunOnCourse(u)'
    BY DEF RunsOnCourse
  <2>1. CASE u = t
    <3>1. work'[t] = x /\ files'[t] = files[t] /\ todo'[t] = todo[t] /\ pc'[t] = "swap"
      BY <1>1 DEF FilesInv, FilesTypes, ReportInv
    <3>2. RunOnCourse(t)
      BY <1>1 DEF RunsOnCourse, FilesInv, Running
    <3>3. \A f \in files[t] : hash_path(f.path) \in seen
      OBVIOUS
    <3> HIDE DEF seen
    <3>4. \A f \in files[t] : hash_path(f.path) \in DOMAIN work[t] =>
             hash_path(f.path) \in DOMAIN x /\ x[hash_path(f.path)] = work[t][hash_path(f.path)]
      BY <1>4, <1>5, <3>3
    <3> QED BY <1>1, <1>4, <1>5, <1>9, <2>1, <3>1, <3>2, <3>4 DEF RunOnCourse, seen
  <2>2. CASE u # t
    <3>1. /\ files'[u] = files[u] /\ todo'[u] = todo[u] /\ pc'[u] = pc[u]
          /\ report'[u]["errors"] = report[u]["errors"] /\ work'[u] = work[u]
      BY <1>1, <1>9, <2>2 DEF FilesInv, FilesTypes, ReportInv
    <3> QED BY <3>1 DEF RunOnCourse, RunsOnCourse, FilesInv
  <2> QED BY <2>1, <2>2
<1> QED
  BY <1>1, <1>7, <1>8, <1>10, TimesKept DEF FilesInv

-----------------------------------------------------------------------------
(* One file: it is skipped, read or in error.                              *)

OwnIds == \A p, q \in Path : hash_path(p) = hash_path(q) => p = q

\* What the three branches do to the private index of t.
LEMMA FileIndexed ==
    ASSUME FilesInv, NEW t \in Thread, NEW f \in Scanned, f.modified_time <= clock,
           IndexUnchanged(t, f) \/ IndexFile(t, f) \/ IndexError(t, f)
    PROVE  /\ \E x \in Stores : work' = [work EXCEPT ![t] = x] /\ (x \in Held \/ IsTrue(x))
           /\ \A id \in DOMAIN work[t] : id # hash_path(f.path) =>
                 id \in DOMAIN work'[t] /\ work'[t][id] = work[t][id]
           /\ \A id \in DOMAIN work'[t] :
                 \/ id \in DOMAIN work[t] /\ work'[t][id] = work[t][id]
                 \/ work'[t][id].path = f.path /\ work'[t][id].modified_time = f.modified_time
           /\ \/ /\ Count(t, "errors")
              \/ /\ \E c \in {"unchanged", "updated", "added"} : Count(t, c)
                 /\ hash_path(f.path) \in DOMAIN work'[t]
                 /\ work'[t][hash_path(f.path)].path = f.path
                 /\ work'[t][hash_path(f.path)].modified_time = f.modified_time
<1>1. work \in [Thread -> Stores] /\ work[t] \in Stores /\ work[t] \in Held
  BY DEF FilesInv, FilesTypes, Held
<1>2. ASSUME UNCHANGED work
      PROVE  \E x \in Stores : work' = [work EXCEPT ![t] = x] /\ (x \in Held \/ IsTrue(x))
  <2> work[t] \in Stores
    BY <1>1
  <2> WITNESS work[t] \in Stores
  <2> QED BY <1>1, <1>2
<1>3. CASE IndexUnchanged(t, f)
  BY <1>1, <1>2, <1>3 DEF IndexUnchanged, IsUnchanged
<1>4. CASE IndexError(t, f)
  BY <1>1, <1>2, <1>4 DEF IndexError
<1>5. CASE IndexFile(t, f)
  <2> DEFINE key == hash_path(f.path)
             new == [path |-> f.path, modified_time |-> f.modified_time,
                     text |-> disk[f.path].text]
             dom == DOMAIN work[t] \cup {key}
             x   == [id \in dom |-> IF id = key THEN new ELSE work[t][id]]
  <2>1. work' = [work EXCEPT ![t] = x]
    BY <1>1, <1>5 DEF IndexFile
  <2>2. \E c \in {"unchanged", "updated", "added"} : Count(t, c)
    BY <1>5 DEF IndexFile
  <2>3. f.path \in Path /\ f.modified_time \in Nat /\ disk[f.path] \in File
    BY <1>5 DEF IndexFile, Scanned, FilesInv, FilesTypes
  <2>4. new \in Indexed /\ key \in StableId
    BY <2>3, EngineAssumption DEF Indexed, File
  <2>5. /\ new.path = f.path /\ new.modified_time = f.modified_time
        /\ new.text = disk[f.path].text
    OBVIOUS
  <2>6. DOMAIN x = dom /\ x[key] = new /\ \A id \in dom : id # key => x[id] = work[t][id]
    OBVIOUS
  <2>7. DOMAIN work[t] \subseteq StableId /\ \A id \in DOMAIN work[t] : work[t][id] \in Indexed
    BY <1>1, StoreIs
  <2>8. x \in [dom -> Indexed]
    <3> HIDE DEF new, key
    <3> QED BY <2>4, <2>7
  <2> HIDE DEF x, new, key
  <2>9. x \in Stores
    BY <2>4, <2>7, <2>8, StoreIs
  <2>10. \A id \in DOMAIN x : id = key \/ (id \in DOMAIN work[t] /\ x[id] = work[t][id])
    BY <2>6
  <2>11. IsTrue(work[t])
    BY <1>1 DEF HeldAreTrue, FilesInv
  <2>12. IsTrue(x)
    BY <2>5, <2>6, <2>10, <2>11 DEF IsTrue
  <2>13. work'[t] = x
    BY <1>1, <2>1
  <2> QED
    BY <2>1, <2>2, <2>5, <2>6, <2>9, <2>10, <2>12, <2>13 DEF key
<1> QED
  BY <1>3, <1>4, <1>5

LEMMA NextKeeps ==
    ASSUME OwnIds, FilesInv, NEW t \in Thread, IndexNext(t), ReportInv'
    PROVE  FilesInv'
<1>1. PICK f \in todo[t] : IndexNext(t)!(f)
  BY DEF IndexNext
<1>2. f \in Scanned /\ f.modified_time <= clock
  BY DEF FilesInv, FilesTypes, TimesPass
<1>3. /\ pc[t] = "build" /\ todo' = [todo EXCEPT ![t] = @ \ {f}]
      /\ UNCHANGED <<disk, clock, published, saved, files, pc>>
  BY <1>1
<1>4. IndexUnchanged(t, f) \/ IndexFile(t, f) \/ IndexError(t, f)
  BY <1>1
<1>5. PICK x \in Stores : work' = [work EXCEPT ![t] = x] /\ (x \in Held \/ IsTrue(x))
  BY <1>2, <1>4, FileIndexed
<1>6. FilesTypes'
  BY <1>3, <1>5 DEF FilesInv, FilesTypes
<1>7. TimesPass'
  BY <1>3 DEF FilesInv, FilesTypes, TimesPass
<1>8. HeldAreTrue'
  <2>1. \A idx \in Held' : idx \in Held \/ idx = x
    BY <1>3, <1>5 DEF Held, FilesInv, FilesTypes
  <2> QED BY <1>3, <1>5, <2>1, TruthKept DEF FilesInv
<1>9. PICK c \in {"unchanged", "updated", "added", "errors"} : Count(t, c)
  BY <1>4 DEF IndexUnchanged, IndexFile, IndexError
<1>10. RunsOnCourse'
  <2> SUFFICES ASSUME NEW u \in Thread, pc'[u] \in Running
               PROVE  RunOnCourse(u)'
    BY DEF RunsOnCourse
  <2>1. CASE u = t
    <3>1. RunOnCourse(t)
      BY <1>3 DEF RunsOnCourse, FilesInv, Running
    <3>2. files'[t] = files[t] /\ todo'[t] = todo[t] \ {f} /\ pc'[t] = "build"
      BY <1>3 DEF FilesInv, FilesTypes
    <3>3. f \in files[t] /\ \A g \in files[t] : g # f => hash_path(g.path) # hash_path(f.path)
      <4>1. f \in files[t] /\ \A g \in files[t] : g # f => g.path # f.path
        BY <3>1 DEF RunOnCourse
      <4>2. f.path \in Path /\ \A g \in files[t] : g.path \in Path
        BY <1>2 DEF Scanned, FilesInv, FilesTypes
      <4> QED BY <4>1, <4>2 DEF OwnIds
    <3>4. ASSUME report'[t]["errors"] = 0, NEW g \in files[t] \ todo'[t]
          PROVE  /\ hash_path(g.path) \in DOMAIN work'[t]
                 /\ work'[t][hash_path(g.path)].path = g.path
                 /\ work'[t][hash_path(g.path)].modified_time = g.modified_time
      <4>1. report[t]["errors"] \in Nat /\ DOMAIN report[t] = Counter /\ t \in DOMAIN report
        BY DEF FilesInv, ReportInv, ReportTypes, FileCounter
      <4>2. ~Count(t, "errors")
        BY <3>4, <4>1 DEF Count, Counter
      <4>3. report[t]["errors"] = 0
        BY <1>9, <3>4, <4>1, <4>2 DEF Count, Counter
      <4>4. CASE g = f
        BY <1>2, <1>4, <4>2, <4>4, FileIndexed
      <4>5. CASE g # f
        <5>1. g \in files[t] \ todo[t]
          BY <3>2, <4>5
        <5>2. /\ hash_path(g.path) \in DOMAIN work[t]
              /\ work[t][hash_path(g.path)].path = g.path
              /\ work[t][hash_path(g.path)].modified_time = g.modified_time
          BY <3>1, <4>3, <5>1 DEF RunOnCourse
        <5>3. hash_path(g.path) # hash_path(f.path)
          BY <3>3, <4>5
        <5> QED BY <1>2, <1>4, <5>2, <5>3, FileIndexed
      <4> QED BY <4>4, <4>5
    <3> QED BY <2>1, <3>1, <3>2, <3>4 DEF RunOnCourse
  <2>2. CASE u # t
    <3>1. /\ files'[u] = files[u] /\ todo'[u] = todo[u] /\ pc'[u] = pc[u]
          /\ report'[u] = report[u] /\ work'[u] = work[u]
      BY <1>3, <1>5, <1>9, <2>2 DEF FilesInv, FilesTypes, ReportInv, ReportTypes, Count
    <3> QED BY <3>1 DEF RunOnCourse, RunsOnCourse, FilesInv
  <2> QED BY <2>1, <2>2
<1> QED
  BY <1>6, <1>7, <1>8, <1>10 DEF FilesInv

-----------------------------------------------------------------------------
(* The users: a written file gets a time no document has yet.              *)

LEMMA EditKeeps ==
    ASSUME DistinctSeconds, FilesInv, WriteFile \/ DeleteFile, ReportInv'
    PROVE  FilesInv'
<1>1. UNCHANGED <<published, saved, pc, indexVars>>
  BY DEF WriteFile, DeleteFile, Edit
<1> DEFINE Written(p) == \E x \in Text :
               /\ clock' > clock
               /\ disk' = [disk EXCEPT ![p] = [text |-> x, modified_time |-> clock']]
           Deleted(p) == disk' = [disk EXCEPT ![p] = NoFile]
           Edited(p)  == clock' \in Nat /\ clock' >= clock /\ (Written(p) \/ Deleted(p))
<1>2. PICK p \in Path : Edited(p)
  <2>1. clock \in Nat
    BY DEF FilesInv, FilesTypes
  <2>2. CASE WriteFile
    <3>1. PICK p \in Path, x \in Text, now \in {clock, clock + 1} : WriteFile!(p, x, now)
      BY <2>2 DEF WriteFile
    <3>2. clock' > clock /\ clock' \in Nat /\ clock' >= clock
      BY <2>1, <3>1
    <3>3. Written(p)
      BY <3>1, <3>2
    <3>4. Edited(p)
      BY <3>2, <3>3
    <3> HIDE DEF Edited
    <3> QED BY <3>4
  <2>3. CASE DeleteFile
    <3>1. PICK p \in Path : Deleted(p) /\ clock' = clock
      BY <2>3 DEF DeleteFile
    <3>2. Edited(p)
      BY <2>1, <3>1
    <3> HIDE DEF Edited
    <3> QED BY <3>2
  <2> QED BY <2>2, <2>3
<1>3. disk' \in [Path -> File \cup {NoFile}]
  BY <1>2 DEF FilesInv, FilesTypes, File
<1>4. FilesTypes'
  BY <1>1, <1>2, <1>3 DEF FilesInv, FilesTypes
<1>5. TimesPass'
  <2>1. \A q \in Path : disk'[q] # NoFile => disk'[q].modified_time <= clock'
    <3> SUFFICES ASSUME NEW q \in Path, disk'[q] # NoFile
                 PROVE  disk'[q].modified_time <= clock'
      OBVIOUS
    <3>1. CASE q = p
      BY <1>2, <3>1 DEF FilesInv, FilesTypes
    <3>2. CASE q # p
      <4>1. disk'[q] = disk[q] /\ disk[q] \in File
        BY <1>2, <3>2 DEF FilesInv, FilesTypes
      <4>2. disk[q].modified_time \in Nat /\ disk[q].modified_time <= clock
        BY <4>1 DEF File, FilesInv, TimesPass
      <4> QED BY <1>2, <4>1, <4>2 DEF FilesInv, FilesTypes
    <3> QED BY <3>1, <3>2
  <2>2. \A u \in Thread : \A f \in files[u] \cup todo[u] : f.modified_time <= clock'
    BY <1>2 DEF FilesInv, FilesTypes, TimesPass, Scanned
  <2> QED BY <1>1, <2>1, <2>2 DEF TimesPass
<1>6. HeldAreTrue'
  <2> SUFFICES ASSUME NEW idx \in Held, NEW id \in DOMAIN idx
               PROVE  /\ idx[id].modified_time <= clock'
                      /\ disk'[idx[id].path] # NoFile
                            /\ disk'[idx[id].path].modified_time = idx[id].modified_time
                         => idx[id].text = disk'[idx[id].path].text
    BY <1>1 DEF HeldAreTrue, IsTrue, Held
  <2>1. idx \in Stores
    BY DEF Held, FilesInv, FilesTypes
  <2>2. idx[id].path \in Path /\ idx[id].modified_time \in Nat
    BY <2>1, StoreIs DEF Indexed
  <2>3. /\ idx[id].modified_time <= clock
        /\ disk[idx[id].path] # NoFile
              /\ disk[idx[id].path].modified_time = idx[id].modified_time
           => idx[id].text = disk[idx[id].path].text
    BY DEF FilesInv, HeldAreTrue, IsTrue
  <2>4. clock \in Nat
    BY DEF FilesInv, FilesTypes
  <2>5. CASE idx[id].path # p
    BY <1>2, <2>2, <2>3, <2>4, <2>5 DEF FilesInv, FilesTypes
  <2>6. CASE idx[id].path = p
    BY <1>2, <2>2, <2>3, <2>4, <2>6 DEF FilesInv, FilesTypes
  <2> QED BY <2>5, <2>6
<1>7. RunsOnCourse'
  BY <1>1, RunsElsewhere DEF FilesInv
<1> QED
  BY <1>4, <1>5, <1>6, <1>7 DEF FilesInv

-----------------------------------------------------------------------------

LEMMA StartKeeps ==
    ASSUME FilesInv, NEW t \in Thread, Start(t), ReportInv'
    PROVE  FilesInv'
<1> USE DEF ReportInv, Labels, Running
<1>1. CASE SearchHit(t)
  BY <1>1, FilesElsewhere DEF SearchHit
<1>2. CASE SearchMiss(t)
  BY <1>2, FilesElsewhere DEF SearchMiss, FilesInv
<1>3. CASE IndexSnapshot(t)
  BY <1>3, SnapshotKeeps
<1>4. CASE GetDocument(t)
  BY <1>4, FilesElsewhere DEF GetDocument, FilesInv
<1>5. CASE Save(t)
  <2>1. saved' = index /\ UNCHANGED <<disk, clock, published, pc, indexVars>>
    BY <1>5 DEF Save
  <2>2. FilesTypes'
    BY <2>1, IndexIsHeld DEF FilesInv, FilesTypes
  <2>3. \A idx \in Held' : idx \in Held
    BY <2>1, IndexIsHeld DEF Held, FilesInv
  <2> QED
    BY <2>1, <2>2, <2>3, TruthKept, TimesKept, RunsElsewhere DEF FilesInv
<1>6. CASE LoadRead(t)
  <2>1. /\ pc[t] = "idle" /\ pc' = [pc EXCEPT ![t] = "install"] /\ saved # NoFile
        /\ work' = [work EXCEPT ![t] = saved]
        /\ UNCHANGED <<disk, clock, published, saved, files, todo, report>>
    BY <1>6 DEF LoadRead
  <2>2. FilesTypes'
    BY <2>1 DEF FilesInv, FilesTypes
  <2>3. \A idx \in Held' : idx \in Held
    BY <2>1 DEF Held, FilesInv, FilesTypes
  <2>4. \A u \in Thread : pc'[u] \in Running => pc'[u] = pc[u] /\ work'[u] = work[u]
    BY <2>1 DEF FilesInv, FilesTypes
  <2> QED
    BY <2>1, <2>2, <2>3, <2>4, TruthKept, TimesKept, RunsElsewhere DEF FilesInv
<1>7. CASE LoadFail(t)
  BY <1>7, FilesElsewhere DEF LoadFail
<1> QED
  BY <1>1, <1>2, <1>3, <1>4, <1>5, <1>6, <1>7 DEF Start

LEMMA StepKeeps ==
    ASSUME OwnIds, FilesInv, NEW t \in Thread, Step(t), ReportInv'
    PROVE  FilesInv'
<1> USE DEF Labels, Running
<1>1. CASE SearchEvaluate(t) \/ SearchCollect(t) \/ SearchMemoize(t) \/ Dereference(t)
  BY <1>1, FilesElsewhere
     DEF SearchEvaluate, SearchCollect, SearchMemoize, Dereference, FilesInv, ReportInv
<1>2. CASE IndexScan(t)
  BY <1>2, ScanKeeps
<1>3. published \in Seq(Stores) /\ published # << >>
      /\ \A n \in DOMAIN published : published[n] \in Held
  BY DEF FilesInv, FilesTypes, Held
<1>4. CASE IndexScanFail(t)
  BY <1>3, <1>4, WorkDropped DEF IndexScanFail, EmptyIndex
<1>5. CASE IndexNext(t)
  BY <1>5, NextKeeps
<1>6. CASE IndexDelete(t)
  BY <1>6, DeleteKeeps
<1>7. CASE IndexSwap(t)
  BY <1>7, SwapKeeps
<1>8. CASE IndexInvalidate(t)
  BY <1>3, <1>8, WorkDropped DEF IndexInvalidate, EmptyIndex
<1>9. CASE LoadInstall(t)
  BY <1>9, Installed, WorkDropped DEF LoadInstall, EmptyIndex, FilesInv
<1> QED
  BY <1>1, <1>2, <1>4, <1>5, <1>6, <1>7, <1>8, <1>9 DEF Step

LEMMA FilesNext ==
    ASSUME OwnIds, DistinctSeconds, FilesInv, [Next]_vars
    PROVE  FilesInv'
<1>1. ReportInv'
  BY ReportNext DEF FilesInv
<1>2. ASSUME NEW t \in Thread, Start(t) \/ Step(t) PROVE FilesInv'
  BY <1>1, <1>2, StartKeeps, StepKeeps
<1>3. CASE WriteFile \/ DeleteFile
  BY <1>1, <1>3, EditKeeps
<1>4. CASE UNCHANGED vars
  BY <1>1, <1>4, FilesElsewhere DEF vars
<1> QED
  BY <1>2, <1>3, <1>4 DEF Next, Finished

(* Whatever the threads and the users do meanwhile: an index run without   *)
(* errors whose files are still as it scanned them publishes exactly these *)
(* files, if no file is written twice within a second and no two paths     *)
(* have the same id.                                                       *)
THEOREM ReindexCorrect ==
    ASSUME DistinctSeconds, OwnIds
    PROVE  Spec => []ReindexReflectsDisk
<1>1. FilesInv /\ [Next]_vars => FilesInv'
  BY FilesNext
<1>2. FilesInv => ReindexReflectsDisk
  <2> SUFFICES ASSUME FilesInv, NEW t \in Thread, NEW d \in Directory,
                      pc[t] = "swap", report[t]["errors"] = 0, files[t] = Scan(d)
               PROVE  /\ DOMAIN work[t] = {hash_path(f.path) : f \in files[t]}
                      /\ \A f \in files[t] :
                            work[t][hash_path(f.path)].text = disk[f.path].text
    BY DEF ReindexReflectsDisk
  <2>1. RunOnCourse(t) /\ todo[t] = {}
    BY DEF FilesInv, RunsOnCourse, RunOnCourse, Running
  <2>2. \A f \in files[t] : /\ hash_path(f.path) \in DOMAIN work[t]
                            /\ work[t][hash_path(f.path)].path = f.path
                            /\ work[t][hash_path(f.path)].modified_time = f.modified_time
    BY <2>1 DEF RunOnCourse
  <2>3. DOMAIN work[t] = {hash_path(f.path) : f \in files[t]}
    BY <2>1, <2>2 DEF RunOnCourse
  <2>4. IsTrue(work[t])
    BY DEF FilesInv, HeldAreTrue, Held
  <2>5. \A f \in files[t] : disk[f.path] # NoFile /\ disk[f.path].modified_time = f.modified_time
    BY DEF Scan
  <2>6. \A f \in files[t] : work[t][hash_path(f.path)].text = disk[f.path].text
    BY <2>2, <2>4, <2>5 DEF IsTrue
  <2> QED
    BY <2>3, <2>6
<1> QED
  BY FilesInit, <1>1, <1>2, PTL DEF Spec

-----------------------------------------------------------------------------
(* Nothing published goes back: one indexer, and no load.                  *)

OneIndexer == \A t, u \in Indexer : t = u

Underway == {"scan", "build", "swap", "invalidate"}

CallsBounded == /\ calls \in [Call -> Nat]
                /\ \A t \in Thread : /\ pc[t] # "install"
                                     /\ pc[t] \in Underway => t \in Indexer

\* No document is newer than its file.
NotNewer(idx) == \A id \in DOMAIN idx :
    disk[idx[id].path] # NoFile => idx[id].modified_time <= disk[idx[id].path].modified_time

NothingNewer ==
    /\ \A idx \in Held : NotNewer(idx)
    /\ \A t \in Thread : \A f \in files[t] :
          disk[f.path] # NoFile => f.modified_time <= disk[f.path].modified_time

\* What a run is about to publish is not older than what is published.
Ahead(t) ==
    /\ \A id \in DOMAIN index \cap DOMAIN work[t] : work[t][id].path = index[id].path =>
          index[id].modified_time <= work[t][id].modified_time
    /\ pc[t] = "build" => \A id \in DOMAIN index, f \in files[t] :
          f.path = index[id].path => index[id].modified_time <= f.modified_time

RunsAhead == \A t \in Thread : pc[t] \in {"scan", "build", "swap"} => Ahead(t)

OrderInv == FilesInv /\ CallsBounded /\ NothingNewer /\ RunsAhead

LEMMA IndexTimes ==
    ASSUME FilesTypes
    PROVE  /\ \A idx \in Held : \A id \in DOMAIN idx : idx[id].path \in Path
                                                      /\ idx[id].modified_time \in Nat
           /\ \A t \in Thread : \A f \in files[t] : f.path \in Path /\ f.modified_time \in Nat
<1>1. \A idx \in Held : idx \in Stores
  BY DEF Held, FilesTypes
<1> QED
  BY <1>1, StoreIs DEF Indexed, Scanned, FilesTypes

LEMMA NewerKept ==
    ASSUME NothingNewer, UNCHANGED disk,
           \A idx \in Held' : idx \in Held \/ NotNewer(idx),
           \A t \in Thread : \A f \in files'[t] : f \in files[t] \/ (disk[f.path] # NoFile =>
                                 f.modified_time <= disk[f.path].modified_time)
    PROVE  NothingNewer'
<1>1. \A idx : NotNewer(idx)' <=> NotNewer(idx)
  BY DEF NotNewer
<1>2. \A idx \in Held' : NotNewer(idx)'
  BY <1>1 DEF NothingNewer
<1> QED
  BY <1>2 DEF NothingNewer

LEMMA SameIndex == ASSUME UNCHANGED published PROVE index' = index
  BY DEF index, generation

\* A step that publishes nothing and leaves the runs alone.
LEMMA OrderElsewhere ==
    ASSUME OrderInv, FilesInv', UNCHANGED <<disk, published, saved, indexVars>>,
           CallsBounded',
           \A t \in Thread : pc'[t] \in Underway => pc'[t] = pc[t]
    PROVE  OrderInv'
<1>1. Held' = Held
  BY DEF Held
<1>2. NothingNewer'
  BY <1>1, NewerKept DEF OrderInv
<1>3. RunsAhead'
  BY SameIndex DEF OrderInv, RunsAhead, Ahead, Underway
<1> QED
  BY <1>2, <1>3 DEF OrderInv

\* One run takes a step with its private data.
LEMMA OrderOfRun ==
    ASSUME OrderInv, FilesInv', NEW t \in Thread, UNCHANGED <<disk, published, saved>>,
           CallsBounded',
           \E x : work' = [work EXCEPT ![t] = x] /\ (x \in Held \/ NotNewer(x)),
           \A u \in Thread \ {t} : files'[u] = files[u] /\ pc'[u] = pc[u],
           \A f \in files'[t] : f \in files[t] \/ (disk[f.path] # NoFile =>
                                    f.modified_time <= disk[f.path].modified_time),
           pc'[t] \in {"scan", "build", "swap"} => Ahead(t)'
    PROVE  OrderInv'
<1>1. PICK x : work' = [work EXCEPT ![t] = x] /\ (x \in Held \/ NotNewer(x))
  OBVIOUS
<1>2. work \in [Thread -> Stores]
  BY DEF OrderInv, FilesInv, FilesTypes
<1>3. \A idx \in Held' : idx \in Held \/ idx = x
  BY <1>1, <1>2 DEF Held
<1>4. NothingNewer'
  BY <1>1, <1>3, NewerKept DEF OrderInv
<1>5. \A u \in Thread \ {t} : work'[u] = work[u]
  BY <1>1, <1>2
<1>6. RunsAhead'
  BY <1>5, SameIndex DEF OrderInv, RunsAhead, Ahead
<1> QED
  BY <1>4, <1>6 DEF OrderInv

\* Only an indexer is under way, and nobody loads.
LEMMA CallsNext ==
    ASSUME MaxLoads = 0, FilesInv, CallsBounded, [Next]_vars
    PROVE  CallsBounded'
<1> USE DEF CallsBounded, Underway, Call
<1>1. pc \in [Thread -> Labels]
  BY DEF FilesInv, ReportInv
<1>2. ASSUME NEW t \in Thread, SearchHit(t) \/ SearchMiss(t) \/ GetDocument(t) \/ Save(t)
                                  \/ LoadFail(t)
      PROVE  CallsBounded'
  BY <1>1, <1>2 DEF SearchHit, SearchMiss, GetDocument, Save, LoadFail
<1>3. ASSUME NEW t \in Thread, IndexSnapshot(t)
      PROVE  CallsBounded'
  BY <1>1, <1>3 DEF IndexSnapshot
<1>4. ASSUME NEW t \in Thread, LoadRead(t)
      PROVE  CallsBounded'
  BY <1>4 DEF LoadRead, Bound
<1>5. ASSUME NEW t \in Thread, SearchEvaluate(t) \/ SearchCollect(t) \/ SearchMemoize(t)
                                  \/ Dereference(t)
      PROVE  CallsBounded'
  BY <1>1, <1>5 DEF SearchEvaluate, SearchCollect, SearchMemoize, Dereference
<1>6. ASSUME NEW t \in Thread, IndexScan(t) \/ IndexScanFail(t) \/ IndexNext(t)
      PROVE  CallsBounded'
  BY <1>1, <1>6 DEF IndexScan, IndexScanFail, IndexNext
<1>7. ASSUME NEW t \in Thread, IndexDelete(t) \/ IndexSwap(t) \/ IndexInvalidate(t)
      PROVE  CallsBounded'
  BY <1>1, <1>7 DEF IndexDelete, IndexSwap, IndexInvalidate
<1>8. ASSUME NEW t \in Thread, LoadInstall(t)
      PROVE  CallsBounded'
  BY <1>8 DEF LoadInstall
<1>9. CASE WriteFile \/ DeleteFile
  BY <1>9 DEF WriteFile, DeleteFile, Edit
<1>10. CASE UNCHANGED vars
  BY <1>10 DEF vars
<1> QED
  BY <1>2, <1>3, <1>4, <1>5, <1>6, <1>7, <1>8, <1>9, <1>10 DEF Next, Start, Step, Finished

LEMMA OrderStart ==
    ASSUME OrderInv, FilesInv', CallsBounded', NEW t \in Thread, Start(t), MaxLoads = 0
    PROVE  OrderInv'
<1> USE DEF Underway
<1>1. pc \in [Thread -> Labels] /\ pc[t] \in Labels
  BY DEF OrderInv, FilesInv, ReportInv
<1>2. CASE SearchHit(t) \/ SearchMiss(t) \/ GetDocument(t) \/ LoadFail(t)
  BY <1>1, <1>2, OrderElsewhere DEF SearchHit, SearchMiss, GetDocument, LoadFail
<1>3. CASE IndexSnapshot(t)
  <2>1. PICK x \in {index, << >>} : work' = [work EXCEPT ![t] = x]
    BY <1>3 DEF IndexSnapshot, EmptyIndex
  <2>2. x \in Held \/ NotNewer(x)
    BY <2>1, IndexIsHeld DEF OrderInv, FilesInv, NotNewer
  <2>3. /\ UNCHANGED <<disk, published, saved, files>>
        /\ pc' = [pc EXCEPT ![t] = "scan"]
    BY <1>3 DEF IndexSnapshot
  <2>4. work'[t] = x
    BY <2>1 DEF OrderInv, FilesInv, FilesTypes
  <2>5. \A id \in DOMAIN index : index[id].modified_time \in Nat
    BY IndexIsHeld, IndexTimes DEF OrderInv, FilesInv
  <2>6. Ahead(t)'
    BY <1>1, <2>1, <2>3, <2>4, <2>5, SameIndex DEF Ahead
  <2> QED
    BY <1>1, <2>1, <2>2, <2>3, <2>6, OrderOfRun
<1>4. CASE Save(t)
  <2>1. saved' = index /\ UNCHANGED <<disk, published, pc, indexVars>>
    BY <1>4 DEF Save
  <2>2. \A idx \in Held' : idx \in Held
    BY <2>1, IndexIsHeld DEF Held, OrderInv, FilesInv
  <2>3. NothingNewer'
    BY <2>1, <2>2, NewerKept DEF OrderInv
  <2>4. RunsAhead'
    BY <2>1, SameIndex DEF OrderInv, RunsAhead, Ahead
  <2> QED
    BY <2>3, <2>4 DEF OrderInv
<1>5. CASE LoadRead(t)
  BY <1>5 DEF LoadRead, OrderInv, CallsBounded, Bound, Call
<1> QED
  BY <1>2, <1>3, <1>4, <1>5 DEF Start

LEMMA OrderIndexing ==
    ASSUME OrderInv, FilesInv', CallsBounded', NEW t \in Thread,
           IndexScan(t) \/ IndexNext(t) \/ IndexDelete(t)
    PROVE  OrderInv'
<1> USE DEF Underway
<1>1. /\ pc \in [Thread -> Labels] /\ pc[t] \in {"scan", "build"}
      /\ work \in [Thread -> Stores] /\ work[t] \in Held
      /\ files \in [Thread -> SUBSET Scanned] /\ todo \in [Thread -> SUBSET Scanned]
  BY DEF IndexScan, IndexNext, IndexDelete, OrderInv, FilesInv, FilesTypes, ReportInv, Held
<1>2. Ahead(t)
  BY <1>1 DEF OrderInv, RunsAhead
<1>3. CASE IndexScan(t)
  <2>1. PICK d \in Directory : IndexScan(t)!(d)
    BY <1>3 DEF IndexScan
  <2>2. \A f \in Scan(d) : /\ f.path \in Path /\ disk[f.path] # NoFile
                           /\ f.modified_time = disk[f.path].modified_time
    BY EngineAssumption DEF Scan
  <2>3. files'[t] = Scan(d) /\ UNCHANGED <<disk, published, saved, work>>
        /\ \A u \in Thread \ {t} : files'[u] = files[u] /\ pc'[u] = pc[u]
    BY <1>1, <2>1
  <2>4. Scan(d) \subseteq Scanned
    BY <1>1, <2>3 DEF FilesInv, FilesTypes
  <2>5. \A id \in DOMAIN index : disk[index[id].path] # NoFile =>
            index[id].modified_time <= disk[index[id].path].modified_time
    BY IndexIsHeld DEF OrderInv, FilesInv, NothingNewer, NotNewer
  <2>6. Ahead(t)'
    BY <1>2, <2>2, <2>3, <2>5, SameIndex DEF Ahead
  <2>7. \A f \in files'[t] : f.modified_time <= disk[f.path].modified_time
    BY <2>2, <2>3, <2>4 DEF Scanned
  <2>8. \E x : work' = [work EXCEPT ![t] = x] /\ (x \in Held \/ NotNewer(x))
    <3>1. work' = [work EXCEPT ![t] = work[t]]
      BY <1>1, <2>3
    <3> QED BY <1>1, <3>1
  <2> QED
    BY <2>3, <2>6, <2>7, <2>8, OrderOfRun
<1>4. CASE IndexNext(t)
  <2>1. PICK f \in todo[t] : IndexNext(t)!(f)
    BY <1>4 DEF IndexNext
  <2>2. /\ pc[t] = "build" /\ UNCHANGED <<disk, published, saved, files, pc>>
        /\ IndexUnchanged(t, f) \/ IndexFile(t, f) \/ IndexError(t, f)
    BY <2>1
  <2>3. f \in Scanned /\ f.modified_time <= clock
    BY <1>1 DEF OrderInv, FilesInv, TimesPass
  <2>4. f \in files[t]
    BY <2>2 DEF OrderInv, FilesInv, RunsOnCourse, RunOnCourse, Running
  <2>5. PICK x \in Stores : work' = [work EXCEPT ![t] = x]
    BY <2>2, <2>3, FileIndexed DEF OrderInv
  <2>6. work'[t] = x
    BY <1>1, <2>5
  <2>7. \A id \in DOMAIN x :
           \/ id \in DOMAIN work[t] /\ x[id] = work[t][id]
           \/ x[id].path = f.path /\ x[id].modified_time = f.modified_time
    BY <2>2, <2>3, <2>6, FileIndexed DEF OrderInv
  <2>8. disk[f.path] # NoFile => f.modified_time <= disk[f.path].modified_time
    BY <2>4 DEF OrderInv, NothingNewer
  <2>9. NotNewer(x)
    BY <1>1, <2>7, <2>8 DEF OrderInv, NothingNewer, NotNewer
  <2>10. Ahead(t)'
    <3>1. \A id \in DOMAIN index \cap DOMAIN x : x[id].path = index[id].path =>
             index[id].modified_time <= x[id].modified_time
      BY <1>2, <2>2, <2>4, <2>7 DEF Ahead
    <3> QED BY <1>2, <2>2, <2>6, <3>1, SameIndex DEF Ahead
  <2> QED
    BY <2>2, <2>5, <2>9, <2>10, OrderOfRun
<1>5. CASE IndexDelete(t)
  <2> DEFINE kept == DOMAIN work[t] \cap {hash_path(f.path) : f \in files[t]}
             x    == [id \in kept |-> work[t][id]]
  <2>1. /\ work' = [work EXCEPT ![t] = x] /\ pc' = [pc EXCEPT ![t] = "swap"]
        /\ UNCHANGED <<disk, published, saved, files>>
    BY <1>1, <1>5 DEF IndexDelete, Restrict
  <2>2. \A id \in DOMAIN x : id \in DOMAIN work[t] /\ x[id] = work[t][id]
    OBVIOUS
  <2> HIDE DEF x
  <2>3. work'[t] = x
    BY <1>1, <2>1
  <2>4. NotNewer(x)
    BY <1>1, <2>2 DEF OrderInv, NothingNewer, NotNewer
  <2>5. Ahead(t)'
    BY <1>1, <1>2, <2>1, <2>2, <2>3, SameIndex DEF Ahead
  <2> QED
    BY <1>1, <2>1, <2>4, <2>5, OrderOfRun
<1> QED
  BY <1>3, <1>4, <1>5

LEMMA OrderEnding ==
    ASSUME OrderInv, FilesInv', CallsBounded', NEW t \in Thread,
           IndexScanFail(t) \/ IndexInvalidate(t)
    PROVE  OrderInv'
<1>1. /\ work' = [work EXCEPT ![t] = << >>] /\ pc' = [pc EXCEPT ![t] = "idle"]
      /\ UNCHANGED <<disk, published, saved>>
      /\ files' = files \/ files' = [files EXCEPT ![t] = {}]
  BY DEF IndexScanFail, IndexInvalidate, EmptyIndex
<1>2. pc \in [Thread -> Labels] /\ files \in [Thread -> SUBSET Scanned]
  BY DEF OrderInv, FilesInv, FilesTypes, ReportInv
<1>3. NotNewer(<< >>)
  BY DEF NotNewer
<1>4. pc'[t] = "idle" /\ \A u \in Thread \ {t} : files'[u] = files[u] /\ pc'[u] = pc[u]
  BY <1>1, <1>2
<1>5. \A f \in files'[t] : f \in files[t]
  BY <1>1, <1>2
<1> QED
  BY <1>1, <1>3, <1>4, <1>5, OrderOfRun

\* The one indexer publishes: it was ahead, and no other run is under way.
LEMMA OrderSwap ==
    ASSUME OneIndexer, OrderInv, FilesInv', CallsBounded', NEW t \in Thread, IndexSwap(t)
    PROVE  /\ OrderInv'
           /\ \A id \in DOMAIN index \cap DOMAIN index' : index'[id].path = index[id].path =>
                 index[id].modified_time <= index'[id].modified_time
<1>1. /\ pc[t] = "swap" /\ pc' = [pc EXCEPT ![t] = "invalidate"]
      /\ Install(work[t]) /\ UNCHANGED <<disk, saved, work, files>>
  BY DEF IndexSwap
<1>2. /\ published' \in Seq(Stores)
      /\ \A n \in DOMAIN published' : published'[n] \in Held
  BY <1>1, Installed DEF OrderInv, FilesInv
<1>3. \A idx \in Held' : idx \in Held
  BY <1>1, <1>2 DEF Held
<1>4. NothingNewer'
  BY <1>1, <1>3, NewerKept DEF OrderInv
<1>5. pc \in [Thread -> Labels]
  BY DEF OrderInv, FilesInv, ReportInv
<1>6. \A u \in Thread : pc'[u] \notin {"scan", "build", "swap"}
  BY <1>1, <1>5, EngineAssumption DEF OneIndexer, OrderInv, CallsBounded, Underway
<1>7. RunsAhead'
  BY <1>6 DEF RunsAhead
<1>8. index' = work[t]
  <2>1. published \in Seq(Stores) /\ work[t] \in Stores
    BY DEF OrderInv, FilesInv, FilesTypes
  <2>2. published' = Append(published, work[t])
    BY <1>1 DEF Install
  <2> QED BY <2>1, <2>2 DEF index, generation
<1>9. Ahead(t)
  BY <1>1 DEF OrderInv, RunsAhead
<1> QED
  BY <1>4, <1>7, <1>8, <1>9 DEF OrderInv, Ahead

LEMMA OrderEdit ==
    ASSUME OrderInv, FilesInv', CallsBounded', WriteFile \/ DeleteFile
    PROVE  OrderInv'
<1>1. UNCHANGED <<published, saved, pc, indexVars>>
  BY DEF WriteFile, DeleteFile, Edit
<1>2. disk \in [Path -> File \cup {NoFile}] /\ clock \in Nat
  BY DEF OrderInv, FilesInv, FilesTypes
<1>3. ASSUME NEW q \in Path, disk'[q] # NoFile
      PROVE  \/ disk'[q] = disk[q]
             \/ disk'[q].modified_time \in Nat /\ disk'[q].modified_time >= clock
  <2>1. CASE WriteFile
    <3>1. PICK p \in Path, x \in Text, now \in {clock, clock + 1} : WriteFile!(p, x, now)
      BY <2>1 DEF WriteFile
    <3>2. CASE q = p
      BY <1>2, <3>1, <3>2
    <3>3. CASE q # p
      BY <1>2, <3>1, <3>3
    <3> QED BY <3>2, <3>3
  <2>2. CASE DeleteFile
    <3>1. PICK p \in Path : disk' = [disk EXCEPT ![p] = NoFile]
      BY <2>2 DEF DeleteFile
    <3> QED BY <1>2, <1>3, <3>1
  <2> QED BY <2>1, <2>2
<1>4. Held' = Held
  BY <1>1 DEF Held
<1>5. ASSUME NEW idx \in Held, NEW id \in DOMAIN idx, disk'[idx[id].path] # NoFile
      PROVE  idx[id].modified_time <= disk'[idx[id].path].modified_time
  <2>1. idx[id].path \in Path /\ idx[id].modified_time \in Nat
    BY IndexTimes DEF OrderInv, FilesInv
  <2>2. idx[id].modified_time <= clock
    BY DEF OrderInv, FilesInv, HeldAreTrue, IsTrue
  <2>3. disk[idx[id].path] # NoFile => idx[id].modified_time <= disk[idx[id].path].modified_time
    BY DEF OrderInv, NothingNewer, NotNewer
  <2> QED BY <1>2, <1>3, <1>5, <2>1, <2>2, <2>3
<1>6. ASSUME NEW t \in Thread, NEW f \in files[t], disk'[f.path] # NoFile
      PROVE  f.modified_time <= disk'[f.path].modified_time
  <2>1. f.path \in Path /\ f.modified_time \in Nat
    BY IndexTimes DEF OrderInv, FilesInv
  <2>2. f.modified_time <= clock
    BY DEF OrderInv, FilesInv, TimesPass
  <2>3. disk[f.path] # NoFile => f.modified_time <= disk[f.path].modified_time
    BY DEF OrderInv, NothingNewer
  <2> QED BY <1>2, <1>3, <1>6, <2>1, <2>2, <2>3
<1>7. NothingNewer'
  BY <1>1, <1>4, <1>5, <1>6 DEF NothingNewer, NotNewer
<1>8. RunsAhead'
  BY <1>1, SameIndex DEF OrderInv, RunsAhead, Ahead
<1> QED
  BY <1>7, <1>8 DEF OrderInv

LEMMA OrderNext ==
    ASSUME OwnIds, DistinctSeconds, OneIndexer, MaxLoads = 0, OrderInv, [Next]_vars
    PROVE  /\ OrderInv'
           /\ UNCHANGED published \/ \E t \in Thread : IndexSwap(t)
<1>1. FilesInv' /\ CallsBounded'
  BY FilesNext, CallsNext DEF OrderInv
<1>2. ASSUME NEW t \in Thread, Start(t)
      PROVE  OrderInv' /\ UNCHANGED published
  <2>1. OrderInv'
    BY <1>1, <1>2, OrderStart
  <2>2. UNCHANGED published
    BY <1>2 DEF Start, SearchHit, SearchMiss, IndexSnapshot, GetDocument, Save, LoadRead, LoadFail
  <2> QED BY <2>1, <2>2
<1>3. ASSUME NEW t \in Thread, SearchEvaluate(t) \/ SearchCollect(t) \/ SearchMemoize(t)
                                  \/ Dereference(t)
      PROVE  OrderInv' /\ UNCHANGED published
  <2>1. UNCHANGED <<disk, published, saved, indexVars>>
    BY <1>3 DEF SearchEvaluate, SearchCollect, SearchMemoize, Dereference
  <2>2. \A u \in Thread : pc'[u] \in Underway => pc'[u] = pc[u]
    BY <1>3 DEF SearchEvaluate, SearchCollect, SearchMemoize, Dereference, Underway,
                OrderInv, FilesInv, ReportInv
  <2> QED BY <1>1, <2>1, <2>2, OrderElsewhere
<1>4. ASSUME NEW t \in Thread, IndexScan(t) \/ IndexNext(t) \/ IndexDelete(t)
      PROVE  OrderInv' /\ UNCHANGED published
  BY <1>1, <1>4, OrderIndexing DEF IndexScan, IndexNext, IndexDelete
<1>5. ASSUME NEW t \in Thread, IndexScanFail(t) \/ IndexInvalidate(t)
      PROVE  OrderInv' /\ UNCHANGED published
  BY <1>1, <1>5, OrderEnding DEF IndexScanFail, IndexInvalidate
<1>6. ASSUME NEW t \in Thread, IndexSwap(t)
      PROVE  OrderInv'
  BY <1>1, <1>6, OrderSwap
<1>7. ASSUME NEW t \in Thread, LoadInstall(t)
      PROVE  FALSE
  BY <1>7 DEF LoadInstall, OrderInv, CallsBounded
<1>8. CASE WriteFile \/ DeleteFile
  BY <1>1, <1>8, OrderEdit DEF WriteFile, DeleteFile, Edit
<1>9. CASE UNCHANGED vars
  <2>1. UNCHANGED <<disk, published, saved, indexVars, pc>>
    BY <1>9 DEF vars
  <2> QED BY <1>1, <2>1, OrderElsewhere
<1> QED
  BY <1>2, <1>3, <1>4, <1>5, <1>6, <1>7, <1>8, <1>9 DEF Next, Step, Finished

(* With one indexer and no load a document is never replaced by an older   *)
(* version of its file, however searches, edits and index runs interleave. *)
THEOREM NothingGoesBack ==
    ASSUME OwnIds, DistinctSeconds, OneIndexer, MaxLoads = 0
    PROVE  Spec => IndexNeverGoesBack
<1>1. Init => OrderInv
  <2> SUFFICES ASSUME Init PROVE OrderInv
    OBVIOUS
  <2>1. \A idx \in Held : idx = << >>
    BY DEF Init, Held, EmptyIndex
  <2>2. NothingNewer
    BY <2>1 DEF Init, NothingNewer, NotNewer
  <2>3. CallsBounded /\ RunsAhead
    BY DEF Init, CallsBounded, RunsAhead, Underway
  <2> QED
    BY <2>2, <2>3, FilesInit DEF OrderInv
<1>2. OrderInv /\ [Next]_vars => OrderInv'
  BY OrderNext
<1>3. OrderInv /\ [Next]_vars =>
         [\A id \in DOMAIN index \cap DOMAIN index' :
             index'[id].path = index[id].path =>
                index[id].modified_time <= index'[id].modified_time]_vars
  <2> SUFFICES ASSUME OrderInv, [Next]_vars,
                      NEW id \in DOMAIN index \cap DOMAIN index',
                      index'[id].path = index[id].path
               PROVE  index[id].modified_time <= index'[id].modified_time
    OBVIOUS
  <2>1. CASE UNCHANGED published
    <3>1. index[id].modified_time \in Nat
      BY IndexIsHeld, IndexTimes DEF OrderInv, FilesInv
    <3> QED BY <2>1, <3>1, SameIndex
  <2>2. ASSUME NEW t \in Thread, IndexSwap(t)
        PROVE  index[id].modified_time <= index'[id].modified_time
    <3>1. FilesInv' /\ CallsBounded'
      BY FilesNext, CallsNext DEF OrderInv
    <3> QED BY <2>2, <3>1, OrderSwap
  <2> QED
    BY <2>1, <2>2, OrderNext
<1> QED
  BY <1>1, <1>2, <1>3, PTL DEF Spec, IndexNeverGoesBack

-----------------------------------------------------------------------------
(* Types.                                                                  *)

\* An index holds finitely many documents: "deleted" counts some of them.
Indexes == {f \in Stores : IsFiniteSet(DOMAIN f)}

ControlTypes ==
    /\ readers \subseteq Thread
    /\ pc \in [Thread -> Labels]
    /\ query \in [Thread -> Query]
    /\ found \in [Thread -> Answers]
    /\ pointer \in [Thread -> [into : Nat, id : StableId] \cup {NoDocument}]
    /\ calls \in [Call -> Nat]

IndexTypes ==
    /\ published \in Seq(Indexes) /\ published # << >>
    /\ saved \in Indexes \cup {NoFile}
    /\ work \in [Thread -> Indexes]

\* What is left to do is among what was found, and at the end it is nothing.
RunTypes ==
    /\ disk \in [Path -> File \cup {NoFile}]
    /\ clock \in Nat
    /\ files \in [Thread -> SUBSET Scanned]
    /\ todo \in [Thread -> SUBSET Scanned]
    /\ \A t \in Thread : todo[t] \subseteq files[t]
    /\ \A t \in Thread : pc[t] \in {"swap", "invalidate"} => todo[t] = {}
    /\ report \in [Thread -> [Counter -> Nat]]

TypeInv == ControlTypes /\ IndexTypes /\ RunTypes /\ CacheFacts!CInv

LEMMA AnswerIs ==
    /\ << >> \in Answers
    /\ \A S \in SUBSET StableId : \A f : f \in [S -> Text] => f \in Answers
    /\ \A f \in Answers : /\ DOMAIN f \subseteq StableId
                          /\ \A id \in DOMAIN f : f[id] \in Text
<1>1. << >> \in [{} -> Text]
  OBVIOUS
<1>2. \A S \in SUBSET StableId : \A f : f \in [S -> Text] => f \in Answers
  BY DEF Answers
<1>3. << >> \in Answers
  BY <1>1, <1>2
<1>4. ASSUME NEW f \in Answers
      PROVE  DOMAIN f \subseteq StableId /\ \A id \in DOMAIN f : f[id] \in Text
  <2>1. PICK S \in SUBSET StableId : f \in [S -> Text]
    BY DEF Answers
  <2> QED BY <2>1
<1> QED
  BY <1>2, <1>3, <1>4

LEMMA EmptyIsIndex == << >> \in Indexes
  BY StoreIs, FS_EmptySet DEF Indexes

LEMMA CurrentIsIndex ==
    ASSUME IndexTypes
    PROVE  index \in Indexes /\ generation \in Nat /\ generation \in DOMAIN published
<1>1. generation \in DOMAIN published /\ generation \in Nat
  BY EmptySeq DEF IndexTypes, generation
<1> QED
  BY <1>1 DEF IndexTypes, index

LEMMA AnswersAreAnswers ==
    ASSUME NEW q, NEW idx \in Indexes
    PROVE  Answer(q, idx) \in Answers
<1>1. DOMAIN idx \subseteq StableId /\ \A id \in DOMAIN idx : idx[id].text \in Text
  BY StoreIs DEF Indexes, Indexed
<1>2. Candidates(q, idx) \in SUBSET StableId /\ Candidates(q, idx) \subseteq DOMAIN idx
  BY <1>1 DEF Candidates
<1>3. Answer(q, idx) \in [Candidates(q, idx) -> Text]
  BY <1>1, <1>2 DEF Answer
<1> QED
  BY <1>2, <1>3, AnswerIs

LEMMA RestrictedAnswer ==
    ASSUME NEW a \in Answers, NEW S
    PROVE  Restrict(a, DOMAIN a \cap S) \in Answers
<1>1. DOMAIN a \cap S \in SUBSET StableId
  BY AnswerIs
<1>2. Restrict(a, DOMAIN a \cap S) \in [DOMAIN a \cap S -> Text]
  BY AnswerIs DEF Restrict
<1> QED
  BY <1>1, <1>2, AnswerIs

LEMMA RestrictedIndex ==
    ASSUME NEW x \in Indexes, NEW S
    PROVE  Restrict(x, DOMAIN x \cap S) \in Indexes
<1> DEFINE kept == DOMAIN x \cap S
           y == Restrict(x, kept)
<1>1. kept \in SUBSET StableId /\ kept \subseteq DOMAIN x
  BY StoreIs DEF Indexes
<1>2. y \in [kept -> Indexed]
  BY StoreIs DEF Restrict, Indexes
<1>3. y \in Stores
  BY <1>1, <1>2, StoreIs
<1>4. DOMAIN y = kept /\ IsFiniteSet(kept)
  BY <1>1, FS_Subset DEF Restrict, Indexes
<1> HIDE DEF y, kept
<1>5. y \in Indexes
  BY <1>3, <1>4 DEF Indexes
<1> QED
  BY <1>5 DEF y, kept

-----------------------------------------------------------------------------
(* The cache under the engine.                                             *)

LEMMA CacheElsewhere ==
    ASSUME CacheFacts!CInv, UNCHANGED cacheVars
    PROVE  CacheFacts!CInv'
<1>1. UNCHANGED CacheFacts!cacheVars
  BY DEF CacheFacts!cacheVars
<1> QED
  BY <1>1, EngineAssumption, CacheFacts!StepKeepsInvariant

\* The operations of the cache, through the two instances.
LEMMA SameCalls ==
    /\ \A k : Cache!Hit(k) => CacheFacts!Hit(k)
    /\ \A k : Cache!Miss(k) => CacheFacts!Miss(k)
    /\ \A k, v : Cache!Put(k, v) => CacheFacts!Put(k, v)
<1>1. \A k, v : Cache!ToFront(k, v) = CacheFacts!ToFront(k, v)
  BY DEF Cache!ToFront, CacheFacts!ToFront, Cache!Node, CacheFacts!Node,
         Cache!Cons, CacheFacts!Cons, Cache!RemoveAt, CacheFacts!RemoveAt
<1>2. \A k : Cache!ValueOf(k) = CacheFacts!ValueOf(k)
  BY DEF Cache!ValueOf, CacheFacts!ValueOf, Cache!Node, CacheFacts!Node
<1>3. \A k : Cache!Hit(k) => CacheFacts!Hit(k)
  BY <1>1, <1>2 DEF Cache!Hit, CacheFacts!Hit
<1>4. \A k : Cache!Miss(k) => CacheFacts!Miss(k)
  BY DEF Cache!Miss, CacheFacts!Miss
<1>5. \A k, v : Cache!Insert(k, v) => CacheFacts!Insert(k, v)
  <2>1. \A S : Cache!Cardinality(S) = CacheFacts!Cardinality(S)
    BY Zenon DEF Cache!Cardinality, CacheFacts!Cardinality
  <2>2. \A e, s : Cache!Cons(e, s) = CacheFacts!Cons(e, s)
    BY DEF Cache!Cons, CacheFacts!Cons
  <2>3. \A s : Cache!Front(s) = CacheFacts!Front(s) /\ Cache!Last(s) = CacheFacts!Last(s)
    BY DEF Cache!Front, CacheFacts!Front, Cache!Last, CacheFacts!Last
  <2> QED
    BY <2>1, <2>2, <2>3 DEF Cache!Insert, CacheFacts!Insert
<1>6. \A k, v : Cache!Overwrite(k, v) => CacheFacts!Overwrite(k, v)
  BY <1>1 DEF Cache!Overwrite, CacheFacts!Overwrite
<1>7. \A k, v : Cache!Put(k, v) => CacheFacts!Put(k, v)
  BY <1>5, <1>6 DEF Cache!Put, CacheFacts!Put
<1> QED
  BY <1>3, <1>4, <1>7

LEMMA CacheCalls ==
    ASSUME CacheFacts!CInv,
           \/ \E q \in Query : Cache!Hit(q) \/ Cache!Miss(q)
           \/ \E q \in Query, a \in Answers : Cache!Put(q, a)
           \/ Cache!InvalidateAll
    PROVE  CacheFacts!CInv'
<1>1. Cache!InvalidateAll => CacheFacts!InvalidateAll
  BY DEF Cache!InvalidateAll, CacheFacts!InvalidateAll
<1>2. CacheFacts!CacheNext
  BY <1>1, SameCalls DEF CacheFacts!CacheNext
<1> QED
  BY <1>2, EngineAssumption, CacheFacts!StepKeepsInvariant

-----------------------------------------------------------------------------
(* Every step keeps the types.                                             *)

LEMMA TypeInit == Init => TypeInv
<1> SUFFICES ASSUME Init PROVE TypeInv
  OBVIOUS
<1>1. ControlTypes
  <2>1. (CHOOSE q \in Query : TRUE) \in Query
    BY EngineAssumption
  <2> QED
    BY <2>1, AnswerIs DEF Init, ControlTypes, Labels, Call
<1>2. IndexTypes
  BY EmptyIsIndex DEF Init, IndexTypes, EmptyIndex
<1>3. RunTypes
  BY DEF Init, RunTypes, Counter
<1>4. CacheFacts!CInv
  <2>1. CacheFacts!CacheInit
    BY DEF Init, Cache!CacheInit, CacheFacts!CacheInit
  <2> QED
    BY <2>1, EngineAssumption, CacheFacts!InitInvariant
<1> QED
  BY <1>1, <1>2, <1>3, <1>4 DEF TypeInv

LEMMA TypeSearch ==
    ASSUME TypeInv, NEW t \in Thread,
           SearchHit(t) \/ SearchMiss(t) \/ SearchEvaluate(t) \/ SearchCollect(t)
              \/ SearchMemoize(t)
    PROVE  TypeInv'
<1> USE DEF TypeInv, Labels, Call
<1>1. ASSUME UNCHANGED <<published, saved, indexVars, diskVars>>,
             \A u \in Thread : pc'[u] \in {"swap", "invalidate"} => pc'[u] = pc[u]
      PROVE  IndexTypes' /\ RunTypes'
  BY <1>1 DEF IndexTypes, RunTypes
<1>2. CASE SearchHit(t)
  <2>1. ControlTypes' /\ CacheFacts!CInv'
    BY <1>2, CacheCalls DEF SearchHit, ControlTypes
  <2> QED BY <1>1, <1>2, <2>1 DEF SearchHit
<1>3. CASE SearchMiss(t)
  <2>1. ControlTypes' /\ CacheFacts!CInv'
    BY <1>3, CacheCalls DEF SearchMiss, ControlTypes
  <2>2. \A u \in Thread : pc'[u] \in {"swap", "invalidate"} => pc'[u] = pc[u]
    BY <1>3 DEF SearchMiss, ControlTypes
  <2> QED BY <1>1, <1>3, <2>1, <2>2 DEF SearchMiss
<1>4. CASE SearchEvaluate(t)
  <2>1. Answer(query[t], index) \in Answers
    BY CurrentIsIndex, AnswersAreAnswers
  <2>2. ControlTypes'
    BY <1>4, <2>1 DEF SearchEvaluate, ControlTypes
  <2>3. \A u \in Thread : pc'[u] \in {"swap", "invalidate"} => pc'[u] = pc[u]
    BY <1>4 DEF SearchEvaluate, ControlTypes
  <2> QED BY <1>1, <1>4, <2>2, <2>3, CacheElsewhere DEF SearchEvaluate
<1>5. CASE SearchCollect(t)
  <2>1. Restrict(found[t], DOMAIN found[t] \cap DOMAIN index) \in Answers
    BY RestrictedAnswer DEF ControlTypes
  <2>2. ControlTypes'
    BY <1>5, <2>1 DEF SearchCollect, ControlTypes, Release
  <2>3. \A u \in Thread : pc'[u] \in {"swap", "invalidate"} => pc'[u] = pc[u]
    BY <1>5 DEF SearchCollect, ControlTypes
  <2> QED BY <1>1, <1>5, <2>2, <2>3, CacheElsewhere DEF SearchCollect
<1>6. CASE SearchMemoize(t)
  <2>1. query[t] \in Query /\ found[t] \in Answers
    BY DEF ControlTypes
  <2>2. CacheFacts!CInv'
    BY <1>6, <2>1, CacheCalls DEF SearchMemoize
  <2>3. ControlTypes'
    BY <1>6, AnswerIs DEF SearchMemoize, ControlTypes
  <2>4. \A u \in Thread : pc'[u] \in {"swap", "invalidate"} => pc'[u] = pc[u]
    BY <1>6 DEF SearchMemoize, ControlTypes
  <2> QED BY <1>1, <1>6, <2>2, <2>3, <2>4 DEF SearchMemoize
<1> QED
  BY <1>2, <1>3, <1>4, <1>5, <1>6

LEMMA TypeIndexNext ==
    ASSUME TypeInv, NEW t \in Thread, IndexNext(t)
    PROVE  TypeInv'
<1>1. PICK f \in todo[t] : IndexNext(t)!(f)
  BY DEF IndexNext
<1>2. f \in Scanned /\ f.path \in Path /\ f.modified_time \in Nat
  BY DEF TypeInv, RunTypes, Scanned
<1>3. PICK c \in Counter : Count(t, c)
  BY <1>1 DEF IndexUnchanged, IndexFile, IndexError, Counter
<1>4. RunTypes'
  BY <1>1, <1>3 DEF TypeInv, RunTypes, ControlTypes, Count
<1>5. work' \in [Thread -> Indexes]
  <2>1. CASE UNCHANGED work
    BY <2>1 DEF TypeInv, IndexTypes
  <2>2. CASE IndexFile(t, f)
    <3> DEFINE key == hash_path(f.path)
               new == [path |-> f.path, modified_time |-> f.modified_time,
                       text |-> disk[f.path].text]
               dom == DOMAIN work[t] \cup {key}
               x   == [id \in dom |-> IF id = key THEN new ELSE work[t][id]]
    <3>1. work' = [work EXCEPT ![t] = x]
      BY <2>2 DEF IndexFile, TypeInv, IndexTypes
    <3>2. disk[f.path] \in File
      BY <1>2, <2>2 DEF IndexFile, TypeInv, RunTypes
    <3>3. new \in Indexed /\ key \in StableId
      BY <1>2, <3>2, EngineAssumption DEF Indexed, File
    <3>4. /\ DOMAIN work[t] \subseteq StableId /\ IsFiniteSet(DOMAIN work[t])
          /\ \A id \in DOMAIN work[t] : work[t][id] \in Indexed
      BY StoreIs DEF TypeInv, IndexTypes, Indexes
    <3>5. dom \in SUBSET StableId /\ IsFiniteSet(dom)
      BY <3>3, <3>4, FS_AddElement
    <3> HIDE DEF new, key
    <3>6. x \in [dom -> Indexed]
      BY <3>3, <3>4
    <3> HIDE DEF x
    <3>7. DOMAIN x = dom
      BY <3>6
    <3>8. x \in Indexes
      BY <3>5, <3>6, <3>7, StoreIs DEF Indexes
    <3> QED
      BY <3>1, <3>8 DEF TypeInv, IndexTypes
  <2> QED
    BY <1>1, <2>1, <2>2 DEF IndexUnchanged, IndexError
<1> QED
  BY <1>1, <1>4, <1>5, CacheElsewhere DEF TypeInv, ControlTypes, IndexTypes

LEMMA TypeIndexing ==
    ASSUME TypeInv, NEW t \in Thread,
           IndexSnapshot(t) \/ IndexScan(t) \/ IndexScanFail(t) \/ IndexDelete(t)
    PROVE  TypeInv'
<1> USE DEF TypeInv, Labels, Call
<1>1. CASE IndexSnapshot(t)
  <2>1. PICK x \in Indexes : work' = [work EXCEPT ![t] = x]
    BY <1>1, CurrentIsIndex, EmptyIsIndex DEF IndexSnapshot, EmptyIndex
  <2>2. IndexTypes'
    BY <1>1, <2>1 DEF IndexSnapshot, IndexTypes
  <2>3. ControlTypes'
    BY <1>1 DEF IndexSnapshot, ControlTypes
  <2>4. RunTypes'
    BY <1>1 DEF IndexSnapshot, RunTypes, ControlTypes
  <2> QED BY <1>1, <2>2, <2>3, <2>4, CacheElsewhere DEF IndexSnapshot
<1>2. CASE IndexScan(t)
  <2>1. PICK d \in Directory : IndexScan(t)!(d)
    BY <1>2 DEF IndexScan
  <2>2. Cardinality(Scan(d)) \in Nat
    BY ScansFinite
  <2>3. Scan(d) \subseteq Scanned
    BY EngineAssumption DEF Scan, Scanned, File, RunTypes
  <2>4. RunTypes'
    BY <2>1, <2>2, <2>3 DEF RunTypes, ControlTypes, Counter
  <2>5. ControlTypes' /\ IndexTypes'
    BY <2>1 DEF ControlTypes, IndexTypes
  <2> QED BY <2>1, <2>4, <2>5, CacheElsewhere
<1>3. CASE IndexScanFail(t)
  <2>1. IndexTypes'
    BY <1>3, EmptyIsIndex DEF IndexScanFail, IndexTypes, EmptyIndex
  <2>2. ControlTypes' /\ RunTypes'
    BY <1>3 DEF IndexScanFail, ControlTypes, RunTypes
  <2> QED BY <1>3, <2>1, <2>2, CacheElsewhere DEF IndexScanFail
<1>4. CASE IndexDelete(t)
  <2> DEFINE seen == {hash_path(f.path) : f \in files[t]}
             gone == DOMAIN work[t] \ seen
             x    == Restrict(work[t], DOMAIN work[t] \cap seen)
  <2>1. x \in Indexes
    BY RestrictedIndex DEF IndexTypes
  <2>2. Cardinality(gone) \in Nat
    <3>1. IsFiniteSet(DOMAIN work[t])
      BY DEF IndexTypes, Indexes
    <3> QED BY <3>1, FS_Subset, FS_CardinalityType
  <2>3. /\ work' = [work EXCEPT ![t] = x] /\ todo[t] = {}
        /\ report' = [report EXCEPT ![t]["deleted"] = Cardinality(gone)]
        /\ pc[t] = "build" /\ pc' = [pc EXCEPT ![t] = "swap"]
        /\ UNCHANGED <<diskVars, published, saved, readers, cacheVars, searchVars,
                       files, todo, pointer, calls>>
    BY <1>4 DEF IndexDelete, IndexTypes
  <2> HIDE DEF x, gone
  <2>4. IndexTypes'
    BY <2>1, <2>3 DEF IndexTypes
  <2>5. ControlTypes'
    BY <2>3 DEF ControlTypes
  <2>6. RunTypes'
    BY <2>2, <2>3 DEF RunTypes, ControlTypes, Counter
  <2> QED BY <2>3, <2>4, <2>5, <2>6, CacheElsewhere
<1> QED
  BY <1>1, <1>2, <1>3, <1>4

LEMMA TypeInstall ==
    ASSUME IndexTypes, NEW t \in Thread, Install(work[t])
    PROVE  published' \in Seq(Indexes) /\ published' # << >>
  BY DEF IndexTypes, Install

LEMMA TypeEnding ==
    ASSUME TypeInv, NEW t \in Thread,
           IndexSwap(t) \/ IndexInvalidate(t) \/ LoadInstall(t)
    PROVE  TypeInv'
<1> USE DEF TypeInv, Labels
<1>1. CASE IndexSwap(t)
  <2>1. IndexTypes'
    BY <1>1, TypeInstall DEF IndexSwap, IndexTypes
  <2>2. ControlTypes' /\ RunTypes'
    BY <1>1 DEF IndexSwap, ControlTypes, RunTypes
  <2> QED BY <1>1, <2>1, <2>2, CacheElsewhere DEF IndexSwap
<1>2. CASE IndexInvalidate(t)
  <2>1. IndexTypes'
    BY <1>2, EmptyIsIndex DEF IndexInvalidate, IndexTypes, EmptyIndex
  <2>2. ControlTypes'
    BY <1>2 DEF IndexInvalidate, ControlTypes
  <2>3. RunTypes'
    BY <1>2 DEF IndexInvalidate, ControlTypes, RunTypes
  <2> QED BY <1>2, <2>1, <2>2, <2>3, CacheCalls DEF IndexInvalidate
<1>3. CASE LoadInstall(t)
  <2>1. published' \in Seq(Indexes) /\ published' # << >>
    BY <1>3, TypeInstall DEF LoadInstall
  <2>2. IndexTypes'
    BY <1>3, <2>1, EmptyIsIndex DEF LoadInstall, IndexTypes, EmptyIndex
  <2>3. ControlTypes' /\ RunTypes'
    BY <1>3 DEF LoadInstall, ControlTypes, RunTypes
  <2> QED BY <1>3, <2>2, <2>3, CacheCalls DEF LoadInstall
<1> QED
  BY <1>1, <1>2, <1>3

LEMMA TypeOthers ==
    ASSUME TypeInv, NEW t \in Thread,
           GetDocument(t) \/ Dereference(t) \/ Save(t) \/ LoadRead(t) \/ LoadFail(t)
    PROVE  TypeInv'
<1> USE DEF TypeInv, Labels, Call
<1>1. CASE GetDocument(t)
  <2>1. generation \in Nat
    BY CurrentIsIndex
  <2>2. PICK id \in StableId : GetDocument(t)!(id)
    BY <1>1 DEF GetDocument
  <2>3. ControlTypes'
    BY <2>1, <2>2 DEF ControlTypes
  <2>4. IndexTypes' /\ RunTypes'
    BY <2>2 DEF IndexTypes, RunTypes, ControlTypes
  <2> QED BY <2>2, <2>3, <2>4, CacheElsewhere
<1>2. CASE Dereference(t)
  <2>1. ControlTypes' /\ IndexTypes' /\ RunTypes'
    BY <1>2 DEF Dereference, ControlTypes, IndexTypes, RunTypes
  <2> QED BY <1>2, <2>1, CacheElsewhere DEF Dereference
<1>3. CASE Save(t)
  <2>1. ControlTypes' /\ IndexTypes' /\ RunTypes'
    BY <1>3, CurrentIsIndex DEF Save, ControlTypes, IndexTypes, RunTypes
  <2> QED BY <1>3, <2>1, CacheElsewhere DEF Save
<1>4. CASE LoadRead(t)
  <2>1. ControlTypes'
    BY <1>4 DEF LoadRead, ControlTypes
  <2>2. IndexTypes'
    BY <1>4 DEF LoadRead, IndexTypes
  <2>3. RunTypes'
    BY <1>4 DEF LoadRead, RunTypes, ControlTypes
  <2> QED BY <1>4, <2>1, <2>2, <2>3, CacheElsewhere DEF LoadRead
<1>5. CASE LoadFail(t)
  <2>1. ControlTypes' /\ IndexTypes' /\ RunTypes'
    BY <1>5 DEF LoadFail, ControlTypes, IndexTypes, RunTypes
  <2> QED BY <1>5, <2>1, CacheElsewhere DEF LoadFail
<1> QED
  BY <1>1, <1>2, <1>3, <1>4, <1>5

LEMMA TypeEdit ==
    ASSUME TypeInv, WriteFile \/ DeleteFile
    PROVE  TypeInv'
<1>1. calls' \in [Call -> Nat]
  BY DEF TypeInv, ControlTypes, WriteFile, DeleteFile, Edit, Call
<1>2. disk' \in [Path -> File \cup {NoFile}] /\ clock' \in Nat
  BY DEF TypeInv, RunTypes, WriteFile, DeleteFile, File
<1>3. UNCHANGED <<published, saved, readers, cacheVars, pc, searchVars, indexVars, pointer>>
  BY DEF WriteFile, DeleteFile, Edit
<1> QED
  BY <1>1, <1>2, <1>3, CacheElsewhere DEF TypeInv, ControlTypes, IndexTypes, RunTypes

LEMMA TypeNext == ASSUME TypeInv, [Next]_vars PROVE TypeInv'
<1>1. ASSUME NEW t \in Thread, Start(t) \/ Step(t) PROVE TypeInv'
  BY <1>1, TypeSearch, TypeIndexing, TypeIndexNext, TypeEnding, TypeOthers DEF Start, Step
<1>2. CASE UNCHANGED vars
  <2>1. ControlTypes' /\ IndexTypes' /\ RunTypes'
    BY <1>2 DEF vars, TypeInv, ControlTypes, IndexTypes, RunTypes
  <2> QED BY <1>2, <2>1, CacheElsewhere DEF TypeInv, vars
<1> QED
  BY <1>1, <1>2, TypeEdit DEF Next, Finished

LEMMA TypeInvIsType == TypeInv => TypeOK
<1> SUFFICES ASSUME TypeInv PROVE TypeOK
  OBVIOUS
<1>1. \A idx \in Indexes : IsIndex(idx)
  BY StoreIs DEF Indexes, IsIndex
<1>2. \A a \in Answers : IsAnswer(a)
  BY AnswerIs DEF IsAnswer
<1>3. Cache!CacheTypeOK
  BY DEF TypeInv, CacheFacts!CInv, CacheFacts!CacheTypeOK, Cache!CacheTypeOK,
         CacheFacts!Entry, Cache!Entry
<1> QED
  BY <1>1, <1>2, <1>3 DEF TypeOK, TypeInv, ControlTypes, IndexTypes, RunTypes

(* Types, the cache's included: its list and map agree under every caller. *)
THEOREM TypeCorrectness == Spec => []TypeOK
<1>1. TypeInv /\ [Next]_vars => TypeInv'
  BY TypeNext
<1> QED
  BY <1>1, TypeInit, TypeInvIsType, PTL DEF Spec

-----------------------------------------------------------------------------
(* The cache answers for the index that is published.                      *)

OneThread == \A t, u \in Thread : t = u

\* The cached responses are answers of the current index.
Fresh == \A i \in DOMAIN cache_entries :
            cache_entries[i].value = Answer(cache_entries[i].key, index)

\* So is the response a search is about to cache: with one thread no swap comes
\* between its look-up and its put.
FreshInv == /\ TypeInv /\ LockInv /\ CacheFresh
            /\ \A t \in Thread : pc[t] = "memoize" => found[t] = Answer(query[t], index)

LEMMA SameAnswers ==
    ASSUME UNCHANGED published
    PROVE  index' = index /\ \A q : Answer(q, index') = Answer(q, index)
  BY DEF index, generation, Answer, Candidates

\* What the calls of the cache leave in it.
LEMMA HitLeaves ==
    ASSUME TypeInv, NEW q \in Query, Cache!Hit(q), NEW n \in DOMAIN cache_entries'
    PROVE  \E j \in DOMAIN cache_entries : /\ cache_entries[j].key = cache_entries'[n].key
                                           /\ cache_entries[j].value = cache_entries'[n].value
<1>1. CacheFacts!Hit(q)
  BY SameCalls
<1> QED
  BY <1>1, EngineAssumption, CacheFacts!HitEntries DEF TypeInv

LEMMA PutLeaves ==
    ASSUME TypeInv, NEW q \in Query, NEW a \in Answers, Cache!Put(q, a),
           NEW n \in DOMAIN cache_entries'
    PROVE  \/ cache_entries'[n].key = q /\ cache_entries'[n].value = a
           \/ \E j \in DOMAIN cache_entries : /\ cache_entries[j].key = cache_entries'[n].key
                                              /\ cache_entries[j].value = cache_entries'[n].value
<1>1. CacheFacts!Put(q, a)
  BY SameCalls
<1> QED
  BY <1>1, EngineAssumption, CacheFacts!PutEntries DEF TypeInv

\* A step of the one thread t.
LEMMA FreshAfter ==
    ASSUME OneThread, FreshInv, NEW t \in Thread, TypeInv', LockInv',
           pc'[t] # "invalidate" => Fresh',
           pc'[t] = "memoize" => found'[t] = Answer(query[t], index)'
    PROVE  FreshInv'
  BY DEF FreshInv, OneThread, CacheFresh, Fresh

LEMMA FreshElsewhere ==
    ASSUME OneThread, FreshInv, NEW t \in Thread, TypeInv', LockInv',
           UNCHANGED <<published, cache_entries>>,
           pc[t] # "invalidate", pc'[t] # "memoize"
    PROVE  FreshInv'
<1>1. Fresh
  BY DEF FreshInv, CacheFresh, Fresh, OneThread
<1>2. Fresh'
  BY <1>1, SameAnswers DEF Fresh
<1> QED
  BY <1>2, FreshAfter

LEMMA FreshStart ==
    ASSUME OneThread, FreshInv, NEW t \in Thread, Start(t), TypeInv', LockInv'
    PROVE  FreshInv'
<1> USE DEF FreshInv, LockInv, Labels
<1>1. CASE SearchHit(t)
  <2>1. PICK q \in Query : Cache!Hit(q)
    BY <1>1 DEF SearchHit
  <2>2. Fresh
    BY <1>1 DEF SearchHit, CacheFresh, Fresh, OneThread
  <2>3. UNCHANGED published /\ pc'[t] = "idle"
    BY <1>1 DEF SearchHit
  <2>4. Fresh'
    <3> SUFFICES ASSUME NEW n \in DOMAIN cache_entries'
                 PROVE  cache_entries'[n].value = Answer(cache_entries'[n].key, index')
      BY DEF Fresh, Answer, Candidates
    <3> QED
      BY <2>1, <2>2, <2>3, HitLeaves, SameAnswers DEF Fresh
  <2> QED BY <2>3, <2>4, FreshAfter
<1>2. CASE SearchMiss(t)
  BY <1>2, FreshElsewhere DEF SearchMiss, Cache!Miss
<1>3. CASE IndexSnapshot(t)
  BY <1>3, FreshElsewhere DEF IndexSnapshot
<1>4. CASE GetDocument(t) \/ Save(t)
  BY <1>4, FreshElsewhere DEF GetDocument, Save
<1>5. CASE LoadRead(t) \/ LoadFail(t)
  BY <1>5, FreshElsewhere DEF LoadRead, LoadFail
<1> QED
  BY <1>1, <1>2, <1>3, <1>4, <1>5 DEF Start

LEMMA FreshStep ==
    ASSUME OneThread, FreshInv, NEW t \in Thread, Step(t), TypeInv', LockInv'
    PROVE  FreshInv'
<1> USE DEF FreshInv, LockInv, Labels
<1>1. CASE SearchEvaluate(t)
  BY <1>1, FreshElsewhere DEF SearchEvaluate
<1>2. CASE SearchCollect(t)
  <2>1. found[t] = Answer(query[t], index)
    BY <1>2 DEF SearchCollect, SearchHoldsItsIndex
  <2>2. Restrict(found[t], DOMAIN found[t] \cap DOMAIN index) = found[t]
    <3>1. DOMAIN found[t] \cap DOMAIN index = DOMAIN found[t]
      BY <2>1 DEF Answer, Candidates
    <3>2. found[t] = [id \in DOMAIN found[t] |-> found[t][id]]
      BY <2>1 DEF Answer
    <3> QED BY <3>1, <3>2 DEF Restrict
  <2>3. found'[t] = found[t] /\ UNCHANGED <<published, cache_entries, query>> /\ pc'[t] = "memoize"
    BY <1>2, <2>2 DEF SearchCollect
  <2>4. Fresh
    BY <1>2 DEF SearchCollect, CacheFresh, Fresh, OneThread
  <2>5. Fresh'
    BY <2>3, <2>4, SameAnswers DEF Fresh
  <2> QED
    BY <2>1, <2>3, <2>5, SameAnswers, FreshAfter
<1>3. CASE SearchMemoize(t)
  <2>1. query[t] \in Query /\ found[t] \in Answers /\ Cache!Put(query[t], found[t])
    BY <1>3 DEF SearchMemoize, TypeInv, ControlTypes
  <2>2. found[t] = Answer(query[t], index)
    BY <1>3 DEF SearchMemoize
  <2>3. Fresh
    BY <1>3 DEF SearchMemoize, CacheFresh, Fresh, OneThread
  <2>4. UNCHANGED published /\ pc'[t] = "idle"
    BY <1>3 DEF SearchMemoize
  <2>5. Fresh'
    <3> SUFFICES ASSUME NEW n \in DOMAIN cache_entries'
                 PROVE  cache_entries'[n].value = Answer(cache_entries'[n].key, index')
      BY DEF Fresh, Answer, Candidates
    <3> QED
      BY <2>1, <2>2, <2>3, <2>4, PutLeaves, SameAnswers DEF Fresh
  <2> QED BY <2>4, <2>5, FreshAfter
<1>4. CASE IndexScan(t) \/ IndexScanFail(t)
  BY <1>4, FreshElsewhere DEF IndexScan, IndexScanFail
<1>5. CASE IndexNext(t)
  BY <1>5, FreshElsewhere DEF IndexNext
<1>6. CASE IndexDelete(t)
  BY <1>6, FreshElsewhere DEF IndexDelete
<1>7. CASE IndexSwap(t)
  BY <1>7, FreshAfter DEF IndexSwap
<1>8. CASE IndexInvalidate(t) \/ LoadInstall(t)
  <2>1. cache_entries' = << >> /\ pc'[t] = "idle"
    BY <1>8 DEF IndexInvalidate, LoadInstall, Cache!InvalidateAll
  <2>2. Fresh'
    BY <2>1 DEF Fresh
  <2> QED BY <2>1, <2>2, FreshAfter
<1>9. CASE Dereference(t)
  BY <1>9, FreshElsewhere DEF Dereference
<1> QED
  BY <1>1, <1>2, <1>3, <1>4, <1>5, <1>6, <1>7, <1>8, <1>9 DEF Step

LEMMA FreshNext ==
    ASSUME OneThread, FreshInv, [Next]_vars
    PROVE  FreshInv'
<1>1. TypeInv' /\ LockInv'
  BY TypeNext, LockNext DEF FreshInv
<1>2. ASSUME NEW t \in Thread, Start(t) \/ Step(t) PROVE FreshInv'
  BY <1>1, <1>2, FreshStart, FreshStep
<1>3. CASE WriteFile \/ DeleteFile \/ UNCHANGED vars
  <2>1. UNCHANGED <<published, cache_entries, pc, query, found>>
    BY <1>3 DEF WriteFile, DeleteFile, Edit, vars
  <2>2. CacheFresh'
    BY <2>1, SameAnswers DEF FreshInv, CacheFresh
  <2> QED
    BY <1>1, <2>1, <2>2, SameAnswers DEF FreshInv
<1> QED
  BY <1>2, <1>3 DEF Next, Finished

(* With one thread, the command line, a cached response is the answer of   *)
(* the current index: every index run and every load that installs another *)
(* one empties the cache before the next search can read it.               *)
THEOREM CacheStaysFresh ==
    ASSUME OneThread
    PROVE  Spec => []CacheFresh
<1>1. Init => FreshInv
  BY TypeInit, LockInit DEF Init, FreshInv, CacheFresh, Cache!CacheInit
<1>2. FreshInv /\ [Next]_vars => FreshInv'
  BY OneThread, FreshNext
<1>3. FreshInv => CacheFresh
  BY DEF FreshInv
<1> QED
  BY <1>1, <1>2, <1>3, PTL DEF Spec
=============================================================================
