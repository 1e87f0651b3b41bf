--------------------------- MODULE InvertedIndex ---------------------------
(***************************************************************************)
(* The data structure behind every search: term -> posting list, with the  *)
(* slots of the documents beside it (src/index.cpp, include/.../index.h).  *)
(*                                                                         *)
(* An internal id is a position of `docs`: the code counts from 0, these   *)
(* sequences from 1.  Token offsets are shifted the same way.  A posting   *)
(* list is a set of postings: the vector of the code is only ever appended *)
(* to and filtered, and PostingsAppendInOrder says why that keeps it       *)
(* sorted.  The average document length is the quotient of the two other   *)
(* statistics and is left out.                                             *)
(***************************************************************************)
EXTENDS Naturals, Sequences, FiniteSets, FiniteSetsExt

CONSTANTS StableId,   \* public document ids
          Info,       \* path, title, modification time: carried, never read here
          Term,       \* normalized terms
          MaxDocs,    \* bound: slots ever allocated (they are never reused)
          MaxWords    \* bound: tokens of a document

ASSUME BoundsAssumption == MaxDocs \in Nat /\ MaxWords \in Nat

VARIABLES docs,            \* internal id -> DocumentMeta
          doc_lengths,     \* internal id -> tokens indexed
          tombstone,       \* the internal ids marked deleted (a vector of flags)
          id_to_internal,  \* stable id -> internal id, partial
          terms,           \* term -> posting list, partial
          stats            \* document_count and total_tokens

vars == <<docs, doc_lengths, tombstone, id_to_internal, terms, stats>>

Meta     == [id : StableId, info : Info, token_count : Nat]
Posting  == [document_id : Nat, term_frequency : Nat, positions : SUBSET Nat]
PostingLists == [document_frequency : Nat, postings : SUBSET Posting]
Words    == UNION {[1..n -> Term] : n \in 0..MaxWords}

InternalIds == 1..Len(docs)
Live        == InternalIds \ tombstone    \* all_document_ids()

-----------------------------------------------------------------------------
(* The helpers add_document and remove_document are built from.            *)

WordsIn(words) == {words[k] : k \in 1..Len(words)}

\* Mutant: the loop starts one token late.
PositionsFromSecond(t, words) == {k \in 2..Len(words) : words[k] = t}

PositionsOf(t, words) == {k \in 1..Len(words) : words[k] = t}

\* The posting add_document builds for term t of the document in slot i.
PostingFor(i, t, words) == [document_id    |-> i,
                            term_frequency |-> Cardinality(PositionsOf(t, words)),
                            positions      |-> PositionsOf(t, words)]

\* document_frequency is kept beside the postings and set after every change.
PostingList(ps) == [document_frequency |-> Cardinality(ps), postings |-> ps]

PostingsIn(ts, t) == IF t \in DOMAIN ts THEN ts[t].postings ELSE {}

\* Mutant: the document frequency is not updated.
EraseKeepsFrequency(ts, i) ==
    [t \in DOMAIN ts |-> [ts[t] EXCEPT !.postings = {p \in @ : p.document_id # i}]]

\* Drops slot i from every list; a list may stay behind empty.
EraseTermPostings(ts, i) ==
    [t \in DOMAIN ts |->
        LET kept == {p \in ts[t].postings : p.document_id # i}
        IN  IF kept = ts[t].postings THEN ts[t] ELSE PostingList(kept)]

\* Mutant: the new id is the number of documents, not of slots.
AppendUnderCount(ts, i, words) ==
    LET n == Cardinality(DOMAIN id_to_internal) + 1
    IN  [t \in DOMAIN ts \cup WordsIn(words) |->
            IF t \in WordsIn(words)
            THEN PostingList(PostingsIn(ts, t) \cup {PostingFor(n, t, words)})
            ELSE ts[t]]

AppendPostings(ts, i, words) ==
    [t \in DOMAIN ts \cup WordsIn(words) |->
        IF t \in WordsIn(words)
        THEN PostingList(PostingsIn(ts, t) \cup {PostingFor(i, t, words)})
        ELSE ts[t]]

Tokens(lengths, slots) == MapThenSumSet(LAMBDA i : lengths[i], slots)

\* Mutant: tombstoned slots are counted, too.
StatsOfAllSlots(lengths, dead) ==
    [document_count |-> Len(lengths), total_tokens |-> Tokens(lengths, 1..Len(lengths))]

\* recompute_stats()
StatsOf(lengths, dead) ==
    LET slots == (1..Len(lengths)) \ dead
    IN  [document_count |-> Cardinality(slots), total_tokens |-> Tokens(lengths, slots)]

-----------------------------------------------------------------------------

Init == /\ docs = << >>
        /\ doc_lengths = << >>
        /\ tombstone = {}
        /\ id_to_internal = << >>
        /\ terms = << >>
        /\ stats = [document_count |-> 0, total_tokens |-> 0]

\* What an update or a removal does to the slot the id holds, if it holds one.
TermsWithout(id) == IF id \in DOMAIN id_to_internal
                    THEN EraseTermPostings(terms, id_to_internal[id])
                    ELSE terms

\* Mutant: all other tombstones are cleared.
TombstoneOnly(id) == IF id \in DOMAIN id_to_internal THEN {id_to_internal[id]} ELSE tombstone

TombstonesWith(id) == IF id \in DOMAIN id_to_internal
                      THEN tombstone \cup {id_to_internal[id]}
                      ELSE tombstone

\* The caller (index_directory) passes token_count = the number of terms.
AddDocument(id, info, words) ==
    LET new == Len(docs) + 1
    IN  /\ new <= MaxDocs
        /\ docs' = Append(docs, [id |-> id, info |-> info, token_count |-> Len(words)])
        /\ doc_lengths' = Append(doc_lengths, Len(words))
        /\ tombstone' = TombstonesWith(id)
        /\ id_to_internal' = [x \in DOMAIN id_to_internal \cup {id} |->
                                 IF x = id THEN new ELSE id_to_internal[x]]
        /\ terms' = AppendPostings(TermsWithout(id), new, words)
        /\ stats' = StatsOf(doc_lengths', tombstone')

\* Mutant: erasing the id empties the map.
IdMapCleared(id) == Restrict(id_to_internal, {})

IdMapWithout(id) == Restrict(id_to_internal, DOMAIN id_to_internal \ {id})

RemoveDocument(id) ==
    /\ id \in DOMAIN id_to_internal
    /\ id_to_internal[id] \notin tombstone
    /\ terms' = TermsWithout(id)
    /\ tombstone' = TombstonesWith(id)
    /\ id_to_internal' = IdMapWithout(id)
    /\ stats' = StatsOf(doc_lengths, tombstone')
    /\ UNCHANGED <<docs, doc_lengths>>

\* remove_document returning false: the id is unknown.
RemoveUnknown(id) == id \notin DOMAIN id_to_internal /\ UNCHANGED vars

Next == \E id \in StableId :
            \/ RemoveDocument(id)
            \/ RemoveUnknown(id)
            \/ \E info \in Info, words \in Words : AddDocument(id, info, words)

Spec == Init /\ [][Next]_vars
-----------------------------------------------------------------------------
(* Correctness.                                                            *)

TypeOK ==
    /\ docs \in Seq(Meta)
    /\ doc_lengths \in Seq(Nat)
    /\ tombstone \subseteq InternalIds
    /\ Len(doc_lengths) = Len(docs)
    /\ DOMAIN id_to_internal \subseteq StableId
    /\ \A id \in DOMAIN id_to_internal : id_to_internal[id] \in InternalIds
    /\ DOMAIN terms \subseteq Term
    /\ \A t \in DOMAIN terms : terms[t] \in PostingLists

(* The id map and the tombstones agree: every id the map holds names a     *)
(* live slot that carries this id, and every live slot is the one its id   *)
(* is mapped to, so an id never has two live versions.  It is what makes   *)
(* the `tombstone_[internal_id]` test of remove_document redundant and     *)
(* meta_for_stable_id's answer the latest version.                         *)
IdsNameLiveSlots ==
    /\ \A id \in DOMAIN id_to_internal : /\ id_to_internal[id] \in Live
                                         /\ docs[id_to_internal[id]].id = id
    /\ \A i \in Live : /\ docs[i].id \in DOMAIN id_to_internal
                       /\ id_to_internal[docs[i].id] = i

(* No posting survives the document it points to: evaluate() returns what  *)
(* the lists hold without looking at the tombstones, so a left-over posting*)
(* would count as a candidate of a query and crowd out a real result.      *)
PostingsNameLiveSlots ==
    \A t \in DOMAIN terms : \A p \in terms[t].postings : p.document_id \in Live

(* Counters kept beside the data they count: document_frequency is the     *)
(* number of postings and of documents (one posting per document and list),*)
(* term_frequency the number of positions, never zero.  idf and tf of the  *)
(* scores are read from them.                                              *)
CountersMatchPostings ==
    \A t \in DOMAIN terms :
        /\ IsFiniteSet(terms[t].postings)
        /\ terms[t].document_frequency = Cardinality(terms[t].postings)
        /\ \A p \in terms[t].postings :
              /\ IsFiniteSet(p.positions)
              /\ p.term_frequency = Cardinality(p.positions)
              /\ p.positions # {}
        /\ \A p, q \in terms[t].postings : p.document_id = q.document_id => p = q

\* Term t stands at offset k of the document in slot i.
Occurs(t, i, k) == \E p \in PostingsIn(terms, t) : p.document_id = i /\ k \in p.positions

(* The positions of a live document tile it: each offset below its length  *)
(* belongs to exactly one term, and no posting has an offset outside.      *)
(* Phrase matching walks s, s+1, ... through the lists of different terms  *)
(* and relies on it.                                                       *)
PositionsTileDocuments ==
    /\ \A i \in Live : \A k \in 1..doc_lengths[i] :
          /\ \E t \in DOMAIN terms : Occurs(t, i, k)
          /\ \A t, u \in DOMAIN terms : Occurs(t, i, k) /\ Occurs(u, i, k) => t = u
    /\ \A t \in DOMAIN terms : \A p \in terms[t].postings :
          p.positions \subseteq 1..doc_lengths[p.document_id]

(* Tokens are conserved: the total the average length is computed from is  *)
(* the sum of the term frequencies of all lists, and the document count    *)
(* the number of ids.  The statistics are recomputed from the slots, never *)
(* from the postings, so nothing in the code ties the two together.        *)
StatsMatchPostings ==
    /\ stats.document_count = Cardinality(DOMAIN id_to_internal)
    /\ stats.total_tokens =
          MapThenSumSet(LAMBDA t : MapThenSumSet(LAMBDA p : p.term_frequency,
                                                 terms[t].postings),
                        DOMAIN terms)

(* A list stays sorted by document id (index.h, "sorted by document_id")   *)
(* though nothing sorts it: whatever an operation adds to a list is newer  *)
(* than everything the list keeps.                                         *)
PostingsAppendInOrder ==
    [][\A t \in DOMAIN terms' :
          \A new \in PostingsIn(terms', t) \ PostingsIn(terms, t) :
             \A old \in PostingsIn(terms', t) \cap PostingsIn(terms, t) :
                old.document_id < new.document_id]_vars

(* Slots are written once and never revived: an internal id means the same *)
(* document version for the life of the index.                             *)
SlotsNeverReused ==
    [][\A i \in InternalIds : /\ i \in InternalIds'
                              /\ docs'[i] = docs[i]
                              /\ doc_lengths'[i] = doc_lengths[i]
                              /\ i \in tombstone => i \in tombstone']_vars

-----------------------------------------------------------------------------
(* The documents can be read back from the index: the refinement mapping.  *)

WordsOf(i) == [k \in 1..doc_lengths[i] |-> CHOOSE t \in DOMAIN terms : Occurs(t, i, k)]

StoreOf == [id \in DOMAIN id_to_internal |->
              [info  |-> docs[id_to_internal[id]].info,
               words |-> WordsOf(id_to_internal[id])]]

Store == INSTANCE DocumentStore WITH store <- StoreOf

(* The index implements the document store: read back from its postings,   *)
(* a document changes only when its own id is added or removed.            *)
ImplementsStore == Store!Spec

(* What an addition stores is what it was given: the postings, read back,  *)
(* are the words in their order and the slot holds the metadata.           *)
AdditionsReadBack ==
    [][\A id \in StableId, info \in Info, words \in Words :
          AddDocument(id, info, words) =>
             Store!Put(id, [info |-> info, words |-> words])]_vars
=============================================================================
