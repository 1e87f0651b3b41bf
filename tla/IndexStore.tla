----------------------------- MODULE IndexStore -----------------------------
(***************************************************************************)
(* Persistence of the index (src/index_store.cpp): save() writes a         *)
(* compacted image to path.tmp and renames it over path, load() reads an   *)
(* image back through InvertedIndex::load_raw.  The process may die        *)
(* between any two of these steps and start again with an empty index.     *)
(*                                                                         *)
(* One process saves at a time.  What it wrote survives its death (the     *)
(* operating system keeps running; save() does not fsync).  SearchEngine   *)
(* holds mutex_ while it saves, so the index does not change in between.   *)
(***************************************************************************)
EXTENDS InvertedIndex

CONSTANTS NoFile,     \* the path does not exist
          Unfinished  \* a file whose writer stopped before the end: load throws

\* What a file can hold: the documents and, by term, their postings.
Image == [docs  : Seq(Meta),
          terms : UNION {[S -> SUBSET Posting] : S \in SUBSET Term}]

\* The documents under their ids, as DurableStore knows them.
Stores == UNION {[S -> [info : Info, words : Words]] : S \in SUBSET StableId}

\* No file, a cut-off file and a whole one can be told apart.
ASSUME FileAssumption == /\ NoFile # Unfinished
                         /\ NoFile \notin Image \cup Stores
                         /\ Unfinished \notin Image

VARIABLES index_file,  \* content of index.dat
          tmp_file,    \* content of index.dat.tmp while it is written
          saving       \* progress of save(): idle, opened, written

storeVars == <<index_file, tmp_file, saving>>

-----------------------------------------------------------------------------
(* The image: live documents renumbered densely, and their postings.       *)

Dense(i) == Cardinality({j \in Live : j <= i})

\* Mutant: tombstoned slots are written, too.
AllDocs == docs

LiveDocs == [n \in 1..Cardinality(Live) |-> docs[CHOOSE i \in Live : Dense(i) = n]]

\* Mutants: the postings keep their old ids; the positions are not written.
NotRenumbered(ps) == ps
WithoutPositions(ps) == {[p EXCEPT !.document_id = Dense(p.document_id), !.positions = {}] : p \in ps}

Renumbered(ps) == {[p EXCEPT !.document_id = Dense(p.document_id)] :
                      p \in {q \in ps : q.document_id \in Live}}

CompactImage == [docs  |-> LiveDocs,
                 terms |-> [t \in DOMAIN terms |-> Renumbered(terms[t].postings)]]

\* Of two documents with one id the last would win.
LastSlot(ds, id) == Max({i \in 1..Len(ds) : ds[i].id = id})

\* load() and load_raw(): lengths come back from token_count, the document
\* frequencies from the postings, and no slot is a tombstone.
LoadRaw(image) ==
    LET slots == 1..Len(image.docs)
        ids   == {image.docs[i].id : i \in slots}
    IN  /\ docs' = image.docs
        /\ doc_lengths' = [i \in slots |-> image.docs[i].token_count]
        /\ terms' = [t \in DOMAIN image.terms |-> PostingList(image.terms[t])]
        /\ tombstone' = {}
        /\ id_to_internal' = [id \in ids |-> LastSlot(image.docs, id)]
        /\ stats' = StatsOf(doc_lengths', tombstone')

-----------------------------------------------------------------------------

StoreInit == /\ Init
             /\ index_file = NoFile
             /\ tmp_file = NoFile
             /\ saving = "idle"

\* add_document and remove_document, while no save holds the lock.
ChangeIndex == saving = "idle" /\ Next /\ UNCHANGED storeVars

\* Mutant: the index file itself is opened for writing.
SaveOpenInPlace == /\ saving = "idle"
                   /\ saving' = "opened"
                   /\ index_file' = Unfinished
                   /\ UNCHANGED <<vars, tmp_file>>

\* Opens the temporary file, truncating what an earlier save left there.
SaveOpen == /\ saving = "idle"
            /\ saving' = "opened"
            /\ tmp_file' = Unfinished
            /\ UNCHANGED <<vars, index_file>>

\* Writes, flushes and closes it.
SaveWrite == /\ saving = "opened"
             /\ saving' = "written"
             /\ tmp_file' = CompactImage
             /\ UNCHANGED <<vars, index_file>>

SaveRename == /\ saving = "written"
              /\ saving' = "idle"
              /\ index_file' = tmp_file
              /\ tmp_file' = NoFile
              /\ UNCHANGED vars

\* Mutant: a failed save removes the wrong file.
SaveFailRemoves == /\ saving # "idle"
                   /\ saving' = "idle"
                   /\ index_file' = NoFile
                   /\ tmp_file' = NoFile
                   /\ UNCHANGED vars

\* The disk is full or the rename is refused: save throws.  The temporary file
\* may stay; nobody reads it before it is truncated, so it is forgotten.
SaveFail == /\ saving # "idle"
            /\ saving' = "idle"
            /\ tmp_file' = NoFile
            /\ UNCHANGED <<vars, index_file>>

\* load() into an engine that is not saving; a missing or unfinished file
\* throws and changes nothing.
Load == /\ saving = "idle"
        /\ index_file \notin {NoFile, Unfinished}
        /\ LoadRaw(index_file)
        /\ UNCHANGED storeVars

LoadFail == /\ saving = "idle"
            /\ index_file \in {NoFile, Unfinished}
            /\ UNCHANGED <<vars, storeVars>>

\* The process dies and the next one starts with a new InvertedIndex.
Crash == /\ LoadRaw([docs |-> << >>, terms |-> << >>])
         /\ saving' = "idle"
         /\ tmp_file' = NoFile
         /\ UNCHANGED index_file

StoreNext == \/ ChangeIndex
             \/ SaveOpen \/ SaveWrite \/ SaveRename \/ SaveFail
             \/ Load \/ LoadFail
             \/ Crash

StoreSpec == StoreInit /\ [][StoreNext]_<<vars, storeVars>>
-----------------------------------------------------------------------------

StoreTypeOK == /\ TypeOK
               /\ index_file \in Image \cup {NoFile, Unfinished}
               /\ tmp_file \in Image \cup {NoFile, Unfinished}
               /\ saving \in {"idle", "opened", "written"}

(* index.dat is always a whole image, whenever the process dies            *)
(* (index_store.h: "a crash mid-write can never leave a half-written       *)
(* index.dat behind").                                                     *)
IndexFileWhole == index_file # Unfinished

\* The documents an image holds, read without loading it.
ImageStore(f) ==
    [id \in {f.docs[i].id : i \in 1..Len(f.docs)} |->
        LET n == CHOOSE i \in 1..Len(f.docs) : f.docs[i].id = id
        IN  [info  |-> f.docs[n].info,
             words |-> [k \in 1..f.docs[n].token_count |->
                          CHOOSE t \in DOMAIN f.terms :
                             \E p \in f.terms[t] : p.document_id = n /\ k \in p.positions]]]

SavedStore == IF index_file \in {NoFile, Unfinished} THEN NoFile ELSE ImageStore(index_file)

Durable == INSTANCE DurableStore
              WITH store <- StoreOf, saved <- SavedStore, Nothing <- NoFile

(* Save, crash and load implement the durable store: compaction and        *)
(* renumbering lose no document, word or order, a save that fails or dies  *)
(* changes nothing that is saved, and what is loaded is what was saved.    *)
ImplementsDurableStore == Durable!Spec
=============================================================================
