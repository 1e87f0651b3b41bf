--------------------------- MODULE DocumentStore ---------------------------
(***************************************************************************)
(* What InvertedIndex (include/tinysearch/index.h) promises its callers:   *)
(* a store of documents under stable ids.  Putting a document replaces     *)
(* whatever the id held, deleting forgets it, and a stored document keeps  *)
(* its metadata and its words, in order, until one of the two happens.     *)
(* Nothing of postings, internal ids or tombstones shows here;             *)
(* InvertedIndex implements this specification.                            *)
(***************************************************************************)
EXTENDS Functions

CONSTANTS StableId,   \* the public ids, DocumentMeta::id
          Info,       \* path, title and modification time: carried, not read
          Words       \* the normalized token sequences a document may have

VARIABLE store        \* a partial function: StableId -> document

Document == [info : Info, words : Words]

TypeOK == /\ DOMAIN store \subseteq StableId
          /\ \A id \in DOMAIN store : store[id] \in Document

Init == store = << >>

Put(id, doc) ==
    store' = [x \in DOMAIN store \cup {id} |-> IF x = id THEN doc ELSE store[x]]

Delete(id) == /\ id \in DOMAIN store
              /\ store' = Restrict(store, DOMAIN store \ {id})

\* An index file read back: the whole content is exchanged at once.
Replace(content) == store' = content

Next == \E id \in StableId : \/ Delete(id)
                             \/ \E doc \in Document : Put(id, doc)

Spec == Init /\ [][Next]_store
=============================================================================
