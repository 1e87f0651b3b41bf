# TinySearch in TLA+

TinySearch (`src/`) is a small search engine in C++: it scans a directory of
notes, keeps an inverted index in memory, answers boolean and phrase queries
ranked by BM25 or TF-IDF, caches answers, saves the index to a file, and serves
all of it from the command line or over HTTP with one thread per connection.

This directory holds a model of it in TLA+, the TLC configurations that check
the model on small instances, and proofs, checked by TLAPS, of what holds on
every instance. Source lines are given as `file:line`, relative to `src/src/` or
`src/include/tinysearch/`. `PROJECT.json` maps every definition to its lines.

## 1. The system

| Component | State | Operations | Interacts with |
|---|---|---|---|
| `InvertedIndex` (index.cpp) | `terms_` (posting lists), `docs_`, `doc_lengths_`, `tombstone_`, `id_to_internal_`, `stats_` | `add_document`, `remove_document`, `load_raw`, look-ups | called by the engine on a private copy, read under `mutex_` |
| `IndexStore` (index_store.cpp) | the file `index.dat` and `index.dat.tmp` | `save`, `load` | reads an index; the process may die at any time |
| `Scanner`, `hash_path` (index_store.cpp) | none | `scan` | the users' files |
| `LruCache` (cache.h) | list, map, two counters, own mutex | `get`, `put`, `invalidate_all` | search threads, index runs |
| `SearchEngine` (search_engine.cpp) | `index_` under a `shared_mutex`, the cache | `search`, `index_directory`, `get_document`, `stats`, `save`, `load` | everything above |
| Evaluation and ranking (search_engine.cpp, scorer.cpp) | none | `evaluate`, `match_phrase`, `score_document`, top-k heap | reads the index inside `search` |
| Query parser (parser.cpp) | position in the tokens | `lex`, `parse` | the normalizer |
| `HttpServer`, `serve` (http_server.cpp, main.cpp) | `running_`, the listening socket, detached threads | `run`, `stop`, `handle_connection` | signals, the engine |
| One connection (http_server.cpp, main.cpp) | the bytes received, the body | head, body, target, dispatch, handlers | the client's pieces, the engine |
| Commands (main.cpp) | one engine per process | `index`, `serve`, `search`, `stats` | other processes, through `index.dat` and `index.dat.tmp` |
| Snippets (snippet.cpp) | none | `generate` | the file of a result, as it is when shown |
| JSON (json_util.h) | none | `escape`, `quote`, `extract_string_field` | handlers |
| Tokenizer, normalizer, configuration | none | pure functions | |

What is hard here:

* **Concurrency.** Searches run in parallel with index runs that work on a
  private copy and exchange a pointer at the end; the cache has a lock of its own
  and is emptied after the exchange; index runs are not serialised.
* **The users' files** change at any time, between the scan, the read of a
  file and the next run. Change is detected by a time in whole seconds.
* **Redundant state.** Frequencies, statistics, the id map, tombstones and
  postings describe the same documents and are updated separately.
* **Crashes and failures** while saving; unreadable files while indexing.
* **The network and other processes.** A request comes in pieces of any size, the
  client may go away at any point; two commands may save to one path at once.
* **Text.** Percent escapes, JSON escapes, windows and marks meet at the ends of texts.
* **Lifetime.** `get_document` hands out a pointer into an index that may be
  destroyed; connection threads are detached.

The complete list, each at its line and with the properties that cover it, is
`hazards` in `PROJECT.json`.

What makes each component correct:

* index: the counters, the id map, the tombstones and the posting lists agree after
  any sequence of operations, and the index is a faithful store of documents;
* store: the file is whole at any time, and load returns what save was given;
* cache: a bounded least-recently-used map;
* evaluation: a query finds just the documents whose words satisfy it, a phrase at
  all its occurrences, and a document is scored by what makes it match;
* selection: the answer is the best `top_k` candidates, whatever order they come in;
* query front end: the grammar of parser.h, no word lost, the terms of the index;
* engine: a search sees one index; an index run publishes what the files hold;
  nothing published goes back in time; no answer outlives its index; every call
  returns;
* server: a signal ends serving, clients do not wait for ever while there is a descriptor
  for them, the save has what was acknowledged before it, sessions build on each other;
* connection: the engine is called with what the client meant, however it is cut and
  escaped; the client reads back what it sent; nobody in order waits for ever;
* snippet: the excerpt has the match, whole words, and a query word between the marks;
* commands: a torn index file is never the work of saves that all report success.

## 2. The modules

```
index       DocumentStore <--implements-- InvertedIndex <--extends-- IndexStore --implements--> DurableStore
            QueryEvaluation --extends--> InvertedIndex, QueryTree
cache       RecencyCache <--implements-- LruCache <--instance-- SearchEngine
results     TopK     Snippet
front end   QueryFrontEnd --extends--> QueryText, QueryScoring --> QueryParser --> QueryTree
processes   Server    CommandLine
            HttpConnection --extends--> HttpTarget, JsonText --> TextScan

proofs      IndexProofs (InvertedIndex, QueryEvaluation, IndexStore)     SearchResultsProofs
            LruCacheProofs <-- SearchEngineProofs     ServerProofs     CommandLineProofs
            QueryFrontEndProofs                       HttpConnectionProofs
```

**DocumentStore** (abstract): a partial function from stable ids to documents
(metadata and words in order); put, delete, replace.

**InvertedIndex**: index.cpp line by line. Internal ids and token offsets start at
1 instead of 0. `tombstone_` is the set of marked slots, a posting list the set
of its postings (`PostingsAppendInOrder` shows that the vector stays sorted).
The words of a document are its normalized terms: tokenizing and normalizing
happen before. `StoreOf` reads the documents back from the postings and is the
refinement mapping to DocumentStore.

**IndexStore**: adds the two files and the progress of a save. `SaveOpen`,
`SaveWrite`, `SaveRename` are the steps a crash can fall between, `SaveFail` every
`throw` in them. `CompactImage` is what save writes: live documents
renumbered densely, postings with the new ids. `LoadRaw` is `load` followed by
`load_raw`. A temporary file left behind is forgotten: the next save truncates it.
It implements **DurableStore**: save is one step, a crash loses memory only, load
returns the last save.

**LruCache** implements **RecencyCache**, a map with an order of use.

**QueryTree** is query.h. **QueryEvaluation** adds `evaluate` and `match_phrase` to
the states of InvertedIndex, and states what they compute by what a query says of
the words of a document (`Satisfying`, the texts a query is true of, and
`Occurrences`). The queries are a constant: a set of finite trees (`IsTree`) closed under
subtrees, of any height; MCQueryEvaluation gives the ones of the run. Sorted id
lists are sets. The
frequencies `score_document` is given are compared with counts over the words.

**TopK**: the loop of `search` that selects results. Candidates are numbered in the
order of their ids, scores are given integers, the heap is a set of which any
entry with the lowest score may be on top (`std::priority_queue` compares scores
only). `Push`, `Replace`, `Reject` are the branches of the loop, `Drain` is the
rest, with the sort.

**Snippet**: `generate` on a text of single bytes, with the code's positions from 0.
The text grows byte by byte, so every text up to the bound is shown. `Window` is the
radius, the clamps and the two moves to spaces; `Mark` inserts from the back. Marks
and ellipses are single symbols.

**QueryText**: `lex`, `tokenize`, `normalize`, over texts made of chunks (runs of
letters and single other bytes). A loop over a text is a recursive function of the
position it goes on from. **QueryParser**: `parse_or` down to `parse_primary` on token
kinds. The functions call each other, so they are the values of one recursive function
`Calls`, for their name, a position and a number of rounds of their loop; beside it the
grammar, as sets of trees (`Trees`). **QueryScoring**: `collect_scoring_terms` as a
recursive function on the trees of the grammar. **QueryFrontEnd** composes them: a text
grows by chunks, is lexed, and its tokens are parsed; longer token sequences are given to
the parser directly.

**SearchEngine**: threads with program counters. One action is the code between
two points where something else can happen: taking or leaving `mutex_`, calling
the cache, touching a file. `published` is the sequence of indexes installed so
far (its last element is `*index_`), so that a generation names the index a
pointer points into. The index is abstracted to the store InvertedIndex
implements; file contents and queries to what a query finds; the answer to the
documents it lists and their texts. Thread-private results of a search are in
`found`, those of an index run in `work`, `files`, `todo`, `report`.

| Code | Actions |
|---|---|
| `search` | `SearchHit`, `SearchMiss` (315-331), `SearchEvaluate` (340-385), `SearchCollect` (387-403), `SearchMemoize` (405) |
| `index_directory` | `IndexSnapshot` (68-77), `IndexScan`, `IndexScanFail` (79), `IndexNext` once per file (83-117), `IndexDelete` (121-127), `IndexSwap` (130-133), `IndexInvalidate` (134) |
| `get_document` and its caller | `GetDocument`, `Dereference` |
| `save`, `load` | `Save`, `LoadRead`, `LoadFail`, `LoadInstall` |
| the users | `WriteFile`, `DeleteFile` |

**Server**: the main thread of `serve` (`phase`), the flag a signal clears, and the
detached thread of each connection (`conn`). An index is the set of the index runs it
descends from: a run copies the one in memory (`IndexSnapshot`), and its swap puts
the copy and the run itself in place of whatever is in memory by then. Runs of two
connections overlap in every order; `missed` and `acked` record what the properties
speak of. A connection has a descriptor as long as its thread lives; without a free one
`accept()` fails and the connection stays in the backlog. `Descriptors` is what the
process has left for connections: what a run or an excerpt opens for a moment to read a file
is not counted. Every exception nobody catches (also that of `std::thread`), and
SIGPIPE, ends the process (`EndProcess`); `Restart` starts the next session from the file.

| Code | Actions |
|---|---|
| `try_load_existing_index` | `LoadExisting`, `StartEmpty` |
| `HttpServer::run` | `Listen`, `ListenFails`, `SetRunning`, `CheckRunning`, `SelectTimesOut`, `SelectInterrupted`, `Accept`, `AcceptFails`, `ThreadFails`, `CloseSocket` |
| the end of `run_serve` and `main` | `SaveIndex`, `SaveFails`, `Exit` |
| `handle_connection` and the handlers | `Receive`, `Search`, `IndexSnapshot`, `IndexSwap`, `IndexFails`, `Reply`, `RequestThrows`, `SendKills` |
| `handle_signal`, `stop` | `Stop`, `SignalKills` |
| clients | `Connect`, `Abandon` |

The handlers are one step here, an index run is two; what they do inside is in SearchEngine, and how
bytes become calls in **HttpConnection**: one connection. A line of the head is one
item of the wire, a character of the target or the body another; `Arrive` takes a
piece of 1 to `Piece` items. **HttpTarget** is `url_decode` and `parse_target`,
**JsonText** the writer and the reader of json_util.h, beside a JSON reader as a
client has one; **TextScan** has the two loops both are made of, a search for one
character and a walk in steps of different lengths (`Visited`).

What a client means is stated apart from what the server does: `Forms` are the ways to
write a character into a target (as it is if that is safe, `+` for a space, `%` and two
digits, in capitals or not), and `IsRequest` relates the bytes of a request to the call
it asks for, if it asks for one. A target made of a parameter `q` in any such form among
other parameters asks for a search, and so on; a request that is not in order asks for none.

| Code | Actions |
|---|---|
| the first loop of `handle_connection` | `ReceiveHead`, `HeadEnds` |
| request line, headers, Content-Length | `ParseHead`, `ParseThrows` |
| the second loop, the target | `ReceiveBody`, `TargetAborts` |
| `dispatch` and the handlers of `run_serve` | `Dispatch`: `SearchHandler`, `IndexHandler`, `ReadHandler`, `DocumentHandler`, `NotFound` |
| `send` | `Send`, `SendKills` |
| the client | `Close` |

**CommandLine**: processes that share `index.dat` and `index.dat.tmp`. Where
IndexStore says what is in a file, CommandLine says whose blocks are: a file is an
inode, which a writer keeps after its name is gone; opening truncates the inode that
has the name, and rename moves whichever inode has the name by then. The index is
the number of the index run that made it.

| Code | Actions |
|---|---|
| `main`, `try_load_existing_index`, `load` | `Start`, `NoIndex`, `Load`, `LoadFails`, `LoadGarbage` |
| `run_index`, `run_serve` | `IndexRun`, `IndexFails`, `Shutdown` |
| `IndexStore::save` | `SaveCreate`, `SaveTruncate`, `SaveWrite`, `SaveRename`, `SaveFails` |
| the system | `Crash` |

`MC...` modules define the instances and the symmetry of the runs. **MCSearchParts** takes
the four parts of `search` that share no data through one run: a behaviour reads a query,
selects results, shows a file or calls the cache.

## 3. The runs

| Run | Instance | Shows |
|---|---|---|
| `index` | 2 ids, 2 versions of metadata, 2 terms, 3 slots, documents and phrases of up to 3 words | sorted lists, slots never reused, implements DocumentStore; queries find just what they should, phrases are occurrences, the scorer gets the true frequencies |
| `index_store` | 2 ids, 2 terms, 3 slots, 2 words, crash and failure anywhere | the index invariants hold of what is built and of what is loaded, the file is always whole, implements DurableStore |
| `search_parts` | every text of 5 chunks of 7, every sequence of 6 tokens | nothing is lost, the grammar, one vocabulary for plain words, scoring counts what helps |
| | 3 scores, 5 candidates, limits of 0 to above the maximum | the heap holds the best, the answer is the best in order and within the limit |
| | every text of 9 bytes, a radius of 2, lists of up to 2 words | the excerpt shows the match, marked |
| | a cache of capacity 3, 4 keys | list and map agree, calls use their key, implements RecencyCache |
| `engine_concurrent` | a searcher and an indexer, 2 files, 2 index runs, 2 searches, 3 edits | a search sees one index; what is published is what the files hold; counters add up; nothing goes back; every call returns |
| `engine_sequential` | one thread, every call, two directories | no cached answer is stale |
| `server` | 2 sessions, 3 connections, 2 descriptors | a signal ends serving; the backlog drains unless silent clients hold all descriptors for ever; saves cover replies that no overlapping run has overwritten; the saved index never goes back |
| `http_connection` | every text of 2 characters (a control character among them) in every encoding, with digits in both cases, alone and among other parameters; pieces of 1 to 3 items, closing at any time; requests out of order | the engine gets what the client meant, the answer reads back, requests in order are answered |
| `command_line` | 3 processes, images of 1 or 2 blocks, 2 index runs, death and failure anywhere | a torn file is reported by one of its writers, a lone save is whole |

Runs that end in a violation record where the code and its documentation
disagree (`findings` in PROJECT.json):

| Run | Disagreement |
|---|---|
| `engine_stale_cache` | README section 10, "Automatically invalidated whenever the index changes": a search that overlaps an index run puts an old answer into the emptied cache (search_engine.cpp:405) |
| `engine_dangling_pointer` | search_engine.h:58, "Safe for concurrent use": `get_document` returns a pointer that a swap invalidates |
| `server_lost_run` | docs/architecture.md:231, "one indexing operation at a time", and main.cpp:184, "persist the index so the next `serve` doesn't have to rescan everything": nothing serialises index runs, of two that overlap the later swap drops what the earlier one was acknowledged for, and the save lacks it (`SaveCoversReplies` says that only overlapping runs do this) |
| `query_not_scored` | search_engine.h:100, "reachable without crossing a NOT", and docs/architecture.md:131, "isn't inside a `NOT` subtree": in `NOT NOT a` the word is scored (search_engine.cpp:192). `ScoredLeavesHelp` asks nothing of unscored leaves under two NOTs or more, and holds of either reading. The same trace shows that `NOT NOT a` is accepted, as the grammar of parser.h:19 has it, where parser.cpp:148 says "both rejected" |

Met while modelling, without a run of their own. In the index and the engine:

* of two index runs at once the one that read the files first may swap last, and publish
  older versions of files (`IndexNeverGoesBack` is checked and proved with one indexer);
* a second write within one second is never seen (search_engine.cpp:89; the runs
  assume `DistinctSeconds`), though README section 5 says "changed files are re-indexed";
* indexing a second directory removes the documents of the first
  (search_engine.cpp:121), where search_engine.h:67 says "removes documents whose
  source file disappeared";

In queries and results:

* a stop word in a query is looked up as the empty term, which no document has, where
  parser.h:22 says "queries and the index speak the same vocabulary"
  (`PlainWordsShareVocabulary` is about words that are no stop words);
* punctuation inside a query word stays in the term (parser.cpp:61):
  `PlainWordsShareVocabulary` excludes it;
* the heap decides among equal scores before the "deterministic tie-break" does
  (search_engine.cpp:370): asking for more results need not extend the list;
* `default_top_k` above `max_top_k` is not clamped (search_engine.cpp:319);
* a snippet matches any substring, where snippet.h:21 says "on token boundaries"
  (so do `MatchIsShown` and `MarksEncloseAWord`), and marks one word, where README section 1
  shows two;
* a word longer than the radius can cut the match off or empty the window; the
  beginning of the text shown instead may cut a word (snippet.cpp:48 "so we don't cut a
  word in half"). `MatchIsShown` is about texts without such words;
* the snippet is read from the file as it is now, not as it was indexed.

In the server:

* a signal before `running_ = true` is lost (http_server.cpp:180);
* clients that send nothing can hold every descriptor for ever, since `recv()` has no
  timeout (http_server.cpp:93): `accept()` then fails at once each time round, the loop
  spins, and nobody else is served (the exception in `BacklogDrains`);
* an index run that swaps after the save at shutdown is acknowledged and lost, and
  detached threads outlive the server and the engine (main.cpp:187,
  http_server.cpp:197);
* a client that closes early has the part of its body that arrived taken for the
  request (http_server.cpp:130). `EngineGetsWhatClientMeant` excludes it;
* surplus bytes behind the announced body are dropped or taken along, depending on how
  the request was cut into pieces;
* the JSON reader takes `\u0041` for `u0041` (json_util.h:64), and the body of a 500
  answer holds the text of the exception unescaped.

With two processes:

* of two writers of one path.tmp, one may rename the file while the other has it
  open; if the other then fails or dies, a torn file is left, where
  index_store.h:46 says "a crash mid-write can never leave a half-written index.dat
  behind". `TornFileIsReported` says that this takes a failure or a death;
* a torn file may be read without complaint: there is no checksum;
* the save at the end of `serve` replaces what `index` saved meanwhile.

**Why the bounds are enough.** The index has operations on one id at a time;
two ids give one that changes and one that must not, two terms lists that share
and do not share a document, and three slots an update or a re-addition beside
another document. Three words give repeated words (`a b a`), frequencies above one,
and phrases at the start and the end. Queries are terms (a stop word among them),
phrases of two words, trees of one operator whose right side may be excluded, and
double negations: evaluation is by induction over the tree, and each case of it
meets each kind of operand. Six tokens hold every pair of operators with
parentheses, five chunks every pair of neighbours between two others. Five
candidates fill a heap of two or four and go on. Nine bytes hold a match with two
words before it and two after it that the radius of 2 reaches only in part, so that
the window is cut on both sides, on one, or on none. Pieces of up to 3 items cut every
pair of line breaks everywhere; 9 items is a head of four lines, which one request
exceeds; two characters are every pair of an escape and its neighbour. Of three
processes two may write while the third puts a file under the name they opened;
two blocks are the least that can be mixed. Three connections are one more than there
are descriptors: two index runs overlap, or two silent clients keep out a third. Two edits
are the least that tell an old text from a new one, a third falls between the scan and the read.
Each property is broken by a mutant of the code under the same bounds (`mutants`).

**Bounds.** `MaxDocs`, `MaxWords`, `MaxPhrase` (index and queries), `MaxLookups`
(cache counters), `MaxSearches`, `MaxIndexRuns`, `MaxGets`, `MaxSaves`, `MaxLoads`,
`MaxEdits` (engine), `MaxCandidates` (selection), `MaxChunks`, `MaxTokens` (front
end), `MaxText` (excerpts; requests), `Piece`, `HeaderGuard` (connection: the most one
`recv` returns, and the limit of 1 MB), `MaxSessions`, `Descriptors` (server; the second is a limit the program has), `MaxBlocks`, `MaxRuns`
(commands) are guards or sizes of inputs; everything else is finite
by itself. Symmetry is used for ids, metadata and terms in the runs of the index and its
store, and for processes, all of them without liveness. `ContextChars` is the radius of
the code, 2 here for 120 there.

**Assumptions.** `DistinctSeconds` (no file is written twice within one second);
one indexing thread in passing runs (`ReportAddsUp` and `ReindexReflectsDisk` are proved
for any number); `hash_path`
is injective on the paths of a run; `default_top_k` is at least 1, and at most
`max_top_k` where `AnswerWithinLimit` is checked.

**Fairness.** Weak fairness of every step inside a call of the engine: a running
thread is scheduled, and a lock that stays free is granted. It does not say
that calls are made, and nothing about the order in which a contended lock is granted. The
number of searches is bounded, so a writer starved by an endless
stream of readers, which `std::shared_mutex` allows, is not covered. In Server the
main thread and the work of connection threads are scheduled; clients may
stay silent for ever, signals may never come or be delivered to a thread that is not in
`select()`, and files are never said to load. Fairness makes `accept()` succeed in the end
only when a descriptor is free. In
HttpConnection the thread that serves is scheduled and what the client has sent
arrives in the end; no client has to close. Deadlock is not checked where the system
stops by itself: after the last session, when a connection is done, when all commands
have ended, at the end of a selection, and at the end of a text.

## 4. The proofs

The provers have no induction rule to instantiate. Where a definition is recursive or a
sum, the proofs take the least counterexample instead: the library proves that `<` on the
natural numbers, and the strict subset relation on finite sets, are well-founded, and a
non-empty set has a minimal element (`WFMin`).

**IndexProofs** has three parts. The first proves of InvertedIndex, for all sets of ids,
metadata and terms and any bounds, from the assumption that `MaxDocs` and `MaxWords` are
natural numbers: type correctness, `IdsNameLiveSlots`, `PostingsNameLiveSlots`,
`CountersMatchPostings`, `PositionsTileDocuments`, `StatsMatchPostings`, the action
properties `SlotsNeverReused`, `PostingsAppendInOrder` and `AdditionsReadBack`, and that
the index implements DocumentStore.

The inductive invariant `IInv` is the conjunction of the first five. None is
inductive alone: that postings name live slots needs the id map to point at the one
live slot of its id (an update erases the postings of that slot only); the
counters need at most one posting per slot and list, which needs new slots to have
no posting yet; that positions tile a document needs that erasing a slot leaves
every other one alone. Each operation is first described by lemmas about its
effect on single postings (`ErasedPostings`, `AddedPostings`, `AddedOccurrences`,
`RemovedPostings`, ...); the invariance proof of an operation cites only these. For
the refinement, `WordsReadBack` says that reading the postings of a new slot
yields the words it was built from, and `SameWords` that a slot whose occurrences
did not change reads the same.

For `StatsMatchPostings` a sum over a finite set is first shown not to depend on the
order it is taken in; then the positions of a live document are as many as its recorded
length (`LengthsRecorded`, added to `IInv`), counted term by term.

The second part, on QueryEvaluation, builds on `IInv`: the list of a term holds just the live
documents with the word (`TermsFindDocuments`), and `match_phrase` returns just the
occurrences of a phrase (`PhrasesCorrect`), for phrases and documents of any length.
Since positions tile a document, a term stands at an offset in the postings exactly
if it is the word there. `FrequenciesCorrect` gives what scoring is told: the postings of
a term and the documents with the word are in one-to-one correspondence, and so are
the positions of a posting and the places of the word. `QueriesCorrect` is the whole of
`evaluate`, for trees of any height: the lowest tree on which a claim fails has subtrees on
which it holds. This gives that the equations of `Satisfying` and of `evaluate` have a
solution each (`SolutionsExist`, `SolutionsAgree`), and then that they agree on every live
document, `NOT` included, which is the complement in the live slots only.

The third part proves `IndexFileWhole`, types, the index invariants and that
IndexStore implements DurableStore, over save, failure, crash and load. `Dense`
numbers the live slots without gaps and in order, so `LiveDocs` has each live document
once and `Renumbered` moves its postings to its new slot. `ImageOK` says the same of an
image as `IInv` of an index: ids differ, postings name documents, positions tile them.
`StoreInv` asks it of `index.dat`, asks `IInv` of the index, and a finished temporary
file to be the image of the index, which stands still while a save is under way. From this
`load_raw` gives back an index with `IInv`. The assumption is that "no file" and a
cut-off file are told from a whole one (`load` throws).

**SearchResultsProofs** proves `HeapHoldsBest`, `AnswerIsBest` and the types of TopK for
every set of integer scores, every sequence of candidates and every limit, from the
assumption that the default limit is at least 1, and `AnswerWithinLimit` if it is at most
the maximum. The invariant adds to `HeapHoldsBest` that after the loop everything was
seen, so that what is drained is the best of all candidates; cardinalities come from
the library's theorems on finite sets. `ExcerptsShowMatch` states `MatchIsShown` for texts
and queries of any length and any radius: the match has no space in it, so neither end
of the window, on its way to a space, moves past an edge of the match, and if words
are short there is a space to stop at within the radius. `ExcerptsAreMarked` states
`MarksEncloseAWord` likewise: `Marked` and `Framed` say what stands where after the
insertions, the text that remains is numbered in order, so the number of a place is
its rank among the places without decoration (`InOrder`), and what is between the
marks is a match of a query word.

**ServerProofs** proves `TypeOK`, `SaveCoversReplies` and `SavedIndexNeverGoesBack` for any
number of connections, descriptors and sessions, with index runs that overlap in any
way. That the index in memory has every run that has swapped and was not overwritten
(`MemoryHasRuns`) is not inductive, since the next swap replaces that index by a copy:
`CopiesHaveRuns` says the same of each copy in the making, but for the runs that swapped
since it was taken, and those are what its swap overwrites. `MemoryCoversFile` says of
memory and of every copy that it has what the file has, from the load to the save. That the
load, which sets memory to the file, breaks none of this is because a session
starts with no run and no thread alive.

**SearchEngineProofs** proves five properties, from the assumptions that there are
finitely many files and at least one query.

* `SearchHoldsItsIndex`, for any number of threads (indexers too): the holders of
  `mutex_` are exactly the searches between evaluation and look-up, so that a swap
  meets none.
* `ReportAddsUp`, likewise: every file of the scan moves from `todo` to exactly one counter.
* `ReindexReflectsDisk`, for any number of files, threads and concurrent index runs, if
  no file is written twice within a second and `hash_path` is injective. The invariant says
  that whatever holds a document (a published index, a private copy, the saved file)
  is in accord with the disk (`HeldAreTrue`): if a document has the time its file has
  now, it has its text; and that the files a run has gone past carry the time of the
  scan (`RunsOnCourse`), so that a file that is still as scanned was read as it is.
* `IndexNeverGoesBack` needs more, and one indexer and no load: no document is newer than
  its file (`NothingNewer`), and what a run will publish is not older than what is
  published (`RunsAhead`), because nobody else publishes during the run.
* `TypeCorrectness` and `CacheStaysFresh`. The engine's cache is an instance of LruCache,
  and the inductive invariant of the cache is cited from LruCacheProofs through that
  instance. `CacheFresh` assumes `OneThread` (with two it is violated, see
  `engine_stale_cache`): `FreshInv` adds that the answer a search is about to cache is
  that of the index in force, since no other thread swaps between its look-up and its put.

**LruCacheProofs** proves `ListMatchesMap`, `CallsUseTheirKey` and that the cache
implements RecencyCache, for every capacity and all sets of keys and values. Agreement
is not inductive: `CInv` adds that no two nodes have one key. Lemmas say where every
key stands after a splice (`SplicedKeys`), a push (`PushedKeys`) and the removal of the
last (`FrontKeys`); from these, each call makes its key the newest and keeps the order
of the others (`Uses`), and what is dropped is the oldest in the abstract order.

**CommandLineProofs** proves both properties of CommandLine for any number of processes,
blocks and index runs. Of the writers of the file called `index.dat` at most one has
renamed, since writers of the file called `path.tmp` have not saved, and a renamed
file never gets that name again; so a torn file, which has at least two writers, has
one that has not saved. A lone writer finds just the blocks it wrote. A file that was
loaded is not written again by lone saves, which gives the part about going back.

**QueryFrontEndProofs** proves the four invariants of the front end, for queries and
texts of any length over the chunks, and sequences of tokens of any length. The code
is recursive, and a recursive definition obeys its own equation only if the equation has a
solution. Each of these equations is local: it asks for values at arguments that are later
in some order (a later position, an inner call, a shorter interval, a smaller tree), so a
solution for the later ones extends to one more. `RecursionHasASolution` says so for any
such order; for the descent, where what is asked for next depends on what a call
returned, it is shown by hand (`ExtendSolution`).

* `LexerLosesNothing`: from each position on, the tokens lie in order and leave out only
  spaces and stray punctuation (`LexIsLossless`).
* `ParserIsTheGrammar`: every call returns a position behind its own or an error
  (`CallsReturn`), hence the descent ends. It is sound (`DescentIsSound`): what it
  returns is a tree of the grammar for the interval it has read. It is complete, with
  one tree (`DescentIsComplete`): on an interval the grammar derives, whichever tree is
  given, the descent stops at its end and returns that tree. So the grammar is unambiguous.
* `ScoringFollowsPolarity`: by induction over the size of the interval a tree is about,
  with and without negation at once (`Helps`), since `NOT` exchanges the two. A leaf may
  stand in one operand of `AND` and `OR` only, as their intervals do not meet; to the other
  operand it is foreign (`IsForeign`): never scored there, and of no effect. What is proved of
  the code is more than `ScoredLeavesHelp` states: it holds of leaves under any number of NOTs.
* `QueryAndIndexAgree`: from each position on, the terms of the tokens are the terms of the
  words the tokenizer finds there. The two cut a plain word at the same place
  (`RunEndIs`), a quote splits the tokenizer's text (`WordsSplit`), and concatenation goes
  through the normalizer and `FlattenSeq` (`NormalizeConcat`, `FlattenConcat`).

**HttpConnectionProofs** proves `EngineGetsWhatClientMeant` and `AnswersReadBack` for
requests of any length and pieces of any size, from the assumption that requests are such
as `IsRequest` describes. The inductive invariant `ConnectionInvariant` adds to the first
that the pieces add up (`Reassembled`: the loop stops just when the head has its
end, wherever a piece ended, and the body is what came behind it) and that an
answer quotes the call (`AnswersQuote`). The rest is about texts. A walk over a
concatenation of pieces that are each one step visits their beginnings
(`VisitsPieces`); so `url_decode` gives back what any encoding was made from
(`Decoding`), and a JSON string what was escaped (`ReadBack`, `PathRead`). Then
`SearchTarget`: the characters that separate parameters are escaped in a value, so the
split of the target finds the value whole, and no parameter behind it has its name.

Types are part of the inductive invariants of index, store, selection, server, cache,
connection and commands and proved with them; of these modules no run checks types again.

Model-checked only: liveness (`CallsReturn` of the engine, `StopEndsServing`,
`BacklogDrains`, `RequestsAreAnswered`), which needs `ENABLED`. Every invariant and action
property of a passing run is proved. The runs that end in a violation refute what
they state, so there is nothing to prove about them.

## 5. Not modelled

Titles, configuration, argument parsing and printing are pure functions of bytes, and
the numbers in answers are left out. Scores are floating-point numbers: the selection takes
integers, and only what the formulas are given is modelled. Lower-casing in the
tokenizer is left out, and one suffix rule stands for the stemmer. Of json_util.h
`extract_number_field` is called by nobody and the array readers by a benchmark only.
The limits on query bytes and phrase words appear as rejected phrases without a count.
`stats()` only reads; the unlocked reads of the cache counters influence nothing.
Benchmarks and tests are harnesses. A signal after the server is destroyed,
power failures (no `fsync`) and a writer starved by readers are listed as hazards: the
code promises nothing there.

## 6. Plan

The plan is carried out: every component with state of its own is modelled, index, store
and cache implement abstract specifications, and every safety property that a run
checks is a theorem. What a continuation could take up:

1. The serve command composed with the steps of an index run, so that what a signal
   interrupts is a step of SearchEngine and not the whole run.
2. Evaluation on the trees QueryParser builds, in place of a set of trees, so that text and
   documents are related in one theorem.
3. Numbers: the length limits of the parser, and BM25 over rationals.
