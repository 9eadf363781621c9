# sem_search in TLA+

A verification project for sem_search, a semantic search service in Python
(FastAPI, Qdrant, BM25). It models what the service does with its state: index
versions and the files they live in, the way from uploaded files to an index, the
resolver that searches share, the dictionaries, and the stages of a search. TLC
checks the models on small instances; TLAPS proves every safety property the
passing runs check for every value of the constants, under the assumptions
[the proofs](#the-proofs) name.

Contents: [the system](#the-system), [the models](#the-models),
[the runs](#the-runs), [what the checks refute](#what-the-checks-refute),
[the proofs](#the-proofs), [limits](#limits), [plan](#plan).

## The system

One uvicorn process serves everything. Handlers written with `def` run in a pool
of worker threads, so any two of them can overlap; the two written with
`async def` (`/index-upload` and `/admin/dictionaries/upload`) run on the event
loop and, after they have read their files, do not yield before they answer.
There is no lock anywhere in `src/app`.

| component | state | operations | used by |
|---|---|---|---|
| index manifest (`admin/manifest.py`) | `index_manifest.json`, its `.tmp` | load, record_new, save | everything below |
| indexing service (`indexing/service.py`) | one collection and one pickle per version | run: chunk, embed, create and fill the collection, build and save the BM25 index, record the version | indexing routes |
| corpus store (`indexing/corpus_store.py`) | one JSON file per `source_corpus`, its `.tmp` | save, load, delete_document | indexing routes, admin routes |
| indexing routes (`api/routes_index.py`, `routes_folder_index.py`, `routes_reindex.py`) | none | run, then save the corpus, then report the counts of the active version | clients |
| admin service (`admin/service.py`) | none | list, rollback | admin routes |
| resolver (`search/active_index.py`) | a one-slot cache: version and lexical index | resolve | search |
| dictionaries (`api/routes_admin.py`, `query/factory.py`, `query/term_expansion.py`) | a directory, a switch in `settings`, `app.state.term_expander` | upload, remove, toggle, rebuild | search, in theory |
| file loading (`preprocessing/file_loader.py`, `cleaners.py`) | none | load_folder, load_files, clean | indexing routes, indexing service |
| chunkers (`chunking/`) | none | chunk | indexing service |
| weighted fusion (`hybrid/weighted.py`) | none | fuse | search, when configured |
| search (`search/service.py`, `hybrid/`, `rerank/`, `search/filters.py`) | a query log | one request: resolve, suggest, expand, retrieve, fuse, filter, rerank, cut, log | clients |

What makes these parts hard, and what their models are about:

- **Manifest and corpus files.** Load, edit, save without a lock; a temporary
  file shared by all savers; crashes between the writes of a run; a version that
  is published before its corpus is saved. Correct means: a recorded version is
  complete, the manifest is coherent and readable, nothing acknowledged is lost,
  the corpus is one that was indexed.
- **Resolver.** Two attributes, read and written one at a time by several
  threads. Correct means: a search gets the lexical index that belongs to its
  collection.
- **Dictionaries.** A file operation, then a rebuild that reads one file after
  the other and may fail. Correct means: the expander says what the files say,
  searches use it, and a broken file does no harm.
- **From files to an index.** Files that cannot be read, are blank or share a
  stem; documents that are merged, sorted and cleaned on their way; a corpus that
  is saved from another variable than the one that was indexed. Correct means:
  every file is in the corpus or among the errors, an append updates and forgets
  nothing, and the saved corpus gives the same index again.
- **Chunkers.** Off-by-ones at the end of a text. Correct means: nothing is lost,
  nothing is stored twice, the loop ends, the counts are right.
- **Weighted fusion.** Lists that normalization divides by zero on, chunks that
  one list does not have, ties, ids that come out of a set. Correct means: there
  is one result whatever order the set is iterated in, no chunk falls behind one
  it beats in a list and loses to in none, and the scale of raw scores does not
  matter.
- **Search.** Ten stages, some optional, in an order that matters (the filter
  after the pool is cut, the reranker after the filter). Correct means: strict
  filters hold in every mode and after every fallback, and no page is shorter or
  worse ordered than the retrievers' answers justify.

Components that are only partly modelled or not at all are listed with the reason
in `PROJECT.json`, and so is every hazard, with its line and the properties that
cover it.

## The models

| module | models | its actions |
|---|---|---|
| `Manifest` | the manifest as a value, and the edits `record_new` and `rollback` make | operators only |
| `ReplaceFile` | "open tmp, dump, os.replace" on one path, down to inodes | operators only |
| `VersionedIndex` | what versioning promises: a history that only grows and an active version out of it | `Publish`, `Reactivate` |
| `IndexLifecycle` | every handler that writes index state, one access to shared storage per step | see below |
| `ActiveIndex` | `resolve()` in several threads, statement by statement | `Call` ... `ReturnContext`; `Publish`, `Rollback`, `RemovePickle` |
| `DictionaryAdmin` | the dictionary handlers, the expanders and restarts | `Upload`, `Write`, `Remove`, `Unlink`, `Toggle`, `Rebuild`, `Load`, `Loaded`, `Assign`, `Stop`, `Start` |
| `Chunking` | an indexing run from its documents to the two stores | `Window`, `EndOfUnits`, `Store` |
| `Ingestion` | requests that index files, one after the other; extends `Chunking` and runs it | `LoadFile`, `NotADirectory`, `Loaded`, `Begin`, `MergeDocument`, `Prepare`, `Run`, `RunFails`, `SaveCorpus`, `Respond`, `NextRequest` |
| `WeightedFusion` | one weighted fusion of two score lists | `Fuse`, `Fused` |
| `SearchPipeline` | one search, one action per stage | `Resolve` ... `Log` |
| `ListLemmas` and the modules named `...Proofs` | lemmas and proofs | |
| `MC...` | values for the constants | |

### Storage: `ReplaceFile`, `Manifest`, `IndexLifecycle`

`ReplaceFile` keeps of a file which inode the path names, which inode the
temporary path names, and what each inode holds: JSON of some value, a partial
text, or a torn one. An inode is named after the request that created it; a
handler remembers the inode its descriptor writes to (`fd`). `os.replace` moves
the name, not the content, so a second handler that opened the same `.tmp` goes
on writing to what has become the real file. A dump by a handler that is not the
only writer of its inode may leave it torn.

`IndexLifecycle` extends both and adds corpora, collections and pickles. Each
member of `Requests` is one request; it runs one handler once, through the labels
of `pc`:

    index, folder, upload   [loadCorpus ->] createCollection -> upsert -> openPickle
                            -> dumpPickle -> record -> openManifest -> dumpManifest
                            -> replaceManifest -> openCorpus -> dumpCorpus
                            -> replaceCorpus -> respond
    reindex                 readVersions -> loadCorpus -> createCollection -> ...
                            -> replaceManifest -> respond
    rollback                rollback -> checkAssets -> openManifest -> ...
                            -> replaceManifest
    delete                  loadDelete -> openCorpus -> dumpCorpus -> replaceCorpus

Cleaning, chunking and embedding touch nothing shared and belong to the step
`createCollection`. A stage may fail (`StageFails`), a dump may fail half-way,
assets may be deleted by hand (`RemoveAssets`), the process may die at any point
(`Crash`); `Faults` and `MaxRestarts` say which of these a run allows, and
`MaxInFlight` how many handlers overlap. While `index_upload` runs, the event
loop is blocked and nothing else starts (`EventLoopBusy`).

The version a request creates is named after the request. The code derives it
from a clock with microseconds, so the model takes for granted that two runs get
different ids. A corpus is a map from document id to the request that supplied
the text, which is enough to tell an old text from a new one and a deleted
document from one that was supplied again.

### `ActiveIndex`

One step per statement of `resolve()`, because any of them may be followed by
another thread. The two operands of the `or` in the cache test are two reads and
two steps (`Compare`, `CheckIndex`). A lexical index is named by the version it
was loaded from. The manifest is read in one step; whether it can be read at all
is the subject of `IndexLifecycle`. `overlap` is history: "now" from the moment two
threads are in `resolve()` together until both have left it, "past" until a thread
that is there alone has filled the slot, else "none".

### `DictionaryAdmin`

`files` is the directory, `expander` is `app.state.term_expander`,
`searchExpander` the reference `SearchService` was given. The contents of a file
are only told apart by what `load_dictionary` makes of them: entries, nothing
(`malformed`, or `empty` while `write_bytes` is between its truncation and its
bytes), or an error it does not catch (`undecodable`). Rebuilding is a step per
file, in sorted order. `overlap` is the same history of the handlers, and a rebuild
by one that is alone ends it.

### `Chunking`

A document is a number of units: tokens, characters, sentences or paragraphs. The
three chunkers run the same loop with other parameters; for paragraphs window and
stride are one. The constructors' checks are `FixedWindow` and `SentenceWindow`,
and `Init` takes every combination they let through. Chunks with one id overwrite
each other in the collection and in the dicts of the lexical index (`ById`: the
last one stays), while BM25 itself keeps and ranks every one of them (`lexicon`).
TLC runs this module through `Ingestion`.

### `Ingestion`

The two routes that read files, with everything between the request and the
answer. A text is the sequence of the lengths of its paragraphs, counted in the
units of the configured strategy: enough to tell a blank text from another one,
what whitespace collapsing leaves of the paragraphs (`Clean`), and which of them
are shorter than `min_chars`. A file is its stem, whether its suffix is supported,
and a text or `Unreadable`. `LoadFile` is one turn of either loader's loop,
`MergeDocument` one assignment of `_merge_documents` into the dict that keeps its
order, `Prepare` the sort (stable, as Python's) and the cleaning, and `Run` a step
of `Chunking`. `RunFails`, the failing branches of `Begin` and `SaveCorpus` and
the 422 of `Loaded` are the error paths. `NextRequest` starts another request on
the corpus the last one left; what it changes in the stores is the version of
that request, which is a new one.

### `WeightedFusion`

A list is a function from chunks to scores. Floating point is not modelled: the
arithmetic is exact. A normalized score is an integer (`Numerator`) over the root
of another one common to the list (`Radicand`), which covers min-max (a square)
and z-scores (the variance) alike, and `Sign` compares sums of two of them by
their squares. The weights are any integers: `WeightedFusionConfig`
(`config.py:104`) puts no bound on them. The ids are a set in the code, so the
model does not sort a list: `FusedOrders` are all lists of the pooled chunks in
which every chunk is ahead of the later ones, and `Fuse` takes one of them. That
there is exactly one is a property (`OneOrder`), not a choice of the model.

### `SearchPipeline`

A ranking is any order of what a retriever has, so what embeddings and BM25
compute is left open; everything after that is the code's own: pools, fusion with
its tie-break, filter, reranker, cut. The collection has one point per chunk id
(`DenseRankings`). The lexical index lists an id once for every document that has
it (`LexicalRankings`): `BM25LexicalIndex.build` keeps every chunk, and
documents share an id when file stems are equal in mode replace, or when a client
sends one twice. So a chunk can be in the lexical ranking at several ranks, mode
`bm25` hands on and answers with all of them, and rank fusion adds a term for each
(`Part` sums over `Places`). Chunks are compared copy by copy (`Precedes`): each
place of the second has a place of the first of its own before it. One that is
listed more often than another may overtake it, one that is not may not.

Reciprocal rank fusion is defined here, as a list in score order (`FusedOrders`,
of which there is one: `FusedOnce`); weighted fusion may give its chunks in any
order, since what it compares is `WeightedFusion`'s. Which of the two is
configured, and what matches the filter, is chosen when a stage asks for it, so
that the states before it are few. Scores of the rank fusion are multiplied by
`Scale`, a common multiple of all `rrf_k + rank`, and so exact. With `rrf_k = 2`
and pools of three no two different bags of up to three ranks add up to the same
score, so the rounding of floats cannot change an order the model has.
`contains` and `excluded` are the chunks that match the terms of the request;
all and none of them stand for a request without such terms. They are sets of
chunk ids, as `contains_all` and `contains_any` look terms up by id: the copies of
a chunk stay or go together.

## The runs

| run | instance | states | shows |
|---|---|---|---|
| `lifecycle_concurrent` | 3 requests, 2 overlapping, all operations, stage failures, 1 crash | 1.1 million | `RecordedAssetsComplete`, `ManifestCoherent` whatever overlaps |
| `lifecycle_serial` | 3 requests one after the other, 2 documents, all failures, 1 crash | 0.8 million | `FilesReadable`, `ReportedVersionsRecorded`, `ResponseDescribesOwnVersion`, `DeletedStaysDeleted`, `CorpusIsIndexed`, `AppendKeepsDocuments`, `AnsweredIndexMatchesCorpus`, and that the manifest implements `VersionedIndex` |
| `active_index` | 3 threads, 3 versions | 117 thousand | `ContextComplete`, `PairedUntilOverlap` |
| `dictionary_admin` | 2 files, 2 threads and the event loop, 2 overlapping | 1.1 million | `ExpanderFollowsFiles` |
| `ingestion` | 2 requests of up to 2 files, 2 stems, texts of up to 2 paragraphs, windows and strides up to 3 | 526 thousand | `UnitsFindable`, `ChunkCountExact`, `NoNestedChunks` of what files give; `FilesAccountedFor`, `AppendUpdates`, `CorpusReplaysIndex`; `StepsNearer` and `Answered` |
| `weighted_fusion` | every pair of lists over 3 chunks with scores -1, 0, 2; weights equal, unequal, zero and negative; both normalizations | 66 thousand | `OneOrder`, `BetterFirst`, `ScaleFree` |
| `search_pipeline` | 3 chunks, one of them possibly twice in the lexical index, `candidate_k` 2, `top_n` 2, `top_k` from -1 to 3, 11 filters | 2.0 million | `HitsAllowed`, `FusedOnce`, `PageFull`, `HigherRankedFirst` |

Every module's `TypeOK` is checked along with them. `AnsweredIndexMatchesCorpus`
is about `/reindex` too: what it makes active is the corpus it is answered on.
`PairedUntilOverlap` says that a context pairs a collection with its own lexical
index, and that an idle slot holds the index of the version it is labelled with,
until searches have been in `resolve()` together, and again from the next refresh
by a search that is there alone; `ExpanderFollowsFiles` says the same of rebuilds.
`StepsNearer` is an action property: each step of an indexing handler decreases
what it has left to do, counted in stages, turns of a loop and units of a text.

Why the bounds are enough:

- *Three requests* are a version to go back to, a newer one, and a third handler
  that interferes. Two overlapping handlers are what the races of shared files
  need; a third one in flight repeats them. One crash covers every point between
  two steps, and what the next handlers find.
- *Serial runs* use two documents so that an append, a deletion and a
  replacement can be told apart. `/index-from-folder` stands for the other two
  indexing handlers there and `/index` and `/index-upload` do in the concurrent
  run: alone, the three differ in nothing the model keeps, overlapping they
  differ in `EventLoopBusy`.
- *Three threads and three versions*: the slot has two attributes, so a third
  thread can see any mixture two others leave behind.
- *Two requests of two files* have what an append can meet: a corpus, or none; a
  stem the corpus has, a stem the request brings twice, a new one. The files have
  one of each kind that ends as an error.
- *Texts of one, four and five units with windows up to three* reach windows that
  end at, before and beyond the end of the text, and strides that jump over it;
  two documents of one stem are chunks that overwrite each other.
- *Lists of up to three scores* are those that normalization treats differently:
  empty, single, all equal, two or three values, negative and zero ones. A
  comparison involves two chunks; the third moves minimum, mean and deviation, and
  is what transitivity needs.
- *Three chunks with pools of two or three*: a chunk in both pools, in one, and in
  none. *Four entries* in the lexical index: each chunk once, or one of them twice
  and on either side of the others, so that in a pool of three its two ranks
  outweigh a better one.
- *Eleven filters* allow all chunks, none, all but one, or one; those that are
  missing lack a wanted term or have an unwanted one.

Symmetry is used where nothing orders the values: requests, corpora, documents,
threads, versions. No run with symmetry checks a liveness property.

Deadlock is checked where the system never stops (`active_index`) and in
`search_pipeline` and `weighted_fusion`, where a finished request or fusion
stutters: so every pair of lists can be fused. Elsewhere it is off: the requests of
a behaviour run out, and a service that cannot decode a dictionary does not come
back.

*Fairness.* `IngestSpec` has weak fairness of `Handle`: a handler is one thread
that waits for nobody, its loops over files, documents and windows run on. That a
stage fails (`RunFails`, a folder that is none, the next request) is outside
`Handle` and never counted on; the failing branches inside it end the request as
well. `Answered` then says that every request gets its answer, whatever the
chunking parameters; `StepsNearer` is the safety half of it and needs no fairness.
No other module claims liveness: handlers may be abandoned by a crash, and nothing
in the code makes a client call.

## What the checks refute

Five runs expect a violation. Each checks a sentence of the repository's own
documentation against what its code does.

| run | the sentence | the trace |
|---|---|---|
| `torn_manifest` | "provides atomic read/write" (`admin/manifest.py:3`) | one run has dumped `manifest.tmp`, another opens and truncates it, the first moves it over the manifest |
| `lost_version` | "`record_new` at the end of every indexing run to persist a new version entry" (`admin/manifest.py:4`) | two runs load the same manifest, both save and both answer 200 |
| `expander_without_effect` | "takes effect immediately (no restart needed)" (`api/routes_admin.py:256`) | a toggle; the rebuilt expander is on `app.state`, searches hold the other one |
| `broken_dictionary` | "a broken dictionary is skipped, not fatal" (`query/term_expansion.py:36`) | an upload of bytes that are not UTF-8 |
| `paragraphs_lost` | "Splits on blank lines; paragraphs shorter than `min_chars` are dropped" (`chunking/paragraph.py:24`) | a text of two paragraphs: `collapse_whitespace` has made one of them before the chunker sees it |

More disagreements were met without a run of their own. Some are in the models,
as the condition under which a property holds:

- With overlapping handlers: a document deleted while an append is under way
  reappears (`DeletedStaysDeleted` needs handlers one at a time), the counts of an
  answer can be those of another version (`ResponseDescribesOwnVersion` too),
  rebuilds can leave an expander that contradicts the files
  (`ExpanderFollowsFiles` says `overlap = "none"`), and the resolver's slot, "keyed by
  `index_version`" (`search/active_index.py:33`), can keep an older index under a
  newer label: one thread sets the version, another both attributes of a newer
  one, the first then its index (`PairedUntilOverlap` says `overlap = "none"`).
  Both heal: one rebuild, or one refresh of the slot, with nobody else around.
- "`top_n` is configured >= `top_k`, so this never starves the final response"
  (`rerank/cross_encoder.py:40`): nothing checks that, and `top_k` comes with the
  request. `PageFull` says `reranked => topK <= TopN`.
- Files whose stems are equal are one document in the collection, but two in
  `documents_indexed`, and in mode replace two in `chunk_count` and in what BM25
  ranks. `ChunkCountExact` and `UnitsFindable` speak of distinct ids, and an append
  has them.
- "`fused_score(chunk) = sum(1 / (k + rank_in_list))` over every list the chunk
  appears in" (`hybrid/rrf.py:19`): `fuse` adds a term for every place of the chunk
  in a list, and a chunk BM25 lists twice can pass one that is first in both lists.
  `HigherRankedFirst` compares copy by copy, so it says nothing against that chunk;
  in mode `bm25` an answer can hold one chunk twice, and `PageFull` counts it as two
  hits.
- A z-score puts chunks below the average of their list, so below chunks the list
  does not have: being found by both retrievers can cost a chunk its place.
  `BetterFirst` compares chunks of the same lists then. Nothing validates
  `dense_weight` and `lexical_weight`: with a negative one the better chunk comes
  last, and `BetterFirst` says that weights are not negative; `OneOrder` and
  `ScaleFree` hold for all of them.

Others lie in what the models abstract: `INSTRUCTION.md` (3.2) says that a
document without a word of the query is no BM25 hit, and
`BM25LexicalIndex.search` returns the first `top_k` of all chunks whatever their
score; it says (5) that the search uses the corrected query, and `typo_suggestion`
is only reported.

## The proofs

All theorems hold for every value of the constants under the named assumptions of
the modules: markers such as `NoVersion` are not members of the sets they mark,
and the bounds are natural numbers. `SerialLifecycleProofs` assumes `MaxInFlight =
1` in each of its theorems, as the run of these properties does; nothing else
assumes how many handlers overlap or what fails. Every invariant the passing runs
check is a theorem, and so are the three action properties and the refinement.

**`ListLemmas`.** What the proofs about lists share. The library's induction
theorems take an operator, which the provers here cannot instantiate; instead,
a set of subsets of a finite set that is not empty has a least member
(`LeastSubset`), and a least counterexample cannot exist. That is how sums over a
list, which are folds, get a value (`SumStep`, `SumType`, `SumRemove`,
`SumLinear`), why a sum is greater than another one whose terms can be matched with
greater terms of its own (`SumOutweighed`), why a finite set of integers has a
least and a greatest member (`Extremes`), and why any strict total order of a
finite set lists it in exactly one way (`SortedOnce`, by the rank of each element).

**`IndexLifecycleProofs`.** `TypeCorrect`, `RecordedComplete` (`Spec =>
[]RecordedAssetsComplete`) and `CoherentManifest` (`Spec => []ManifestCoherent`).
Neither property is inductive: a handler moves whichever inode the temporary path
names over the manifest, so what it holds must have been right before. `IInv`
therefore says it of every inode with JSON in it and of every copy in a handler's
memory (`ManifestInv`): it is coherent, and every version it names is built
(`Good`). Manifest values come from nowhere but `EmptyManifest`, copies and the
two edits (`DataSources`, `MemSources`); lemmas of their own have what the edits
preserve (`RecordNewCoherent`, `ActivateFacts`) and what the file operations do.
That a run's version is built by the time it is recorded is `StageInv`, that it
is in no manifest before is what makes ids distinct, that a rollback's target is
in its copy is `TargetInv`; and no step of another handler unbuilds a version
(`BuiltStable`).

**`SerialLifecycleProofs`.** What holds when handlers come one after the other,
through every failure and crash: `AlwaysReadable`, `ReportedRecorded`,
`ResponseIsOwn`, `ImplementsIndex`, `AppendKeeps`, `AnsweredMatchesCorpus`,
`CorpusHoldsIndexed`, `DeletionLasts`. On top of `IInv` the argument has four
layers, each an invariant of its own:

- `StorageInv`: at most one request is between its first and its last step, the
  files named by their real paths hold JSON or do not exist, and the inode a
  handler writes is its own. So the three steps of a save replace a readable file
  by a readable file, and a half-written temporary is never moved
  (`AlwaysReadable`).
- `VersionInv`: the manifest in the handler's memory is the one on disk, or that
  one with its own edit; entries are only added, and the version a run recorded
  stays the active one until the run has answered. So nothing that was reported
  is lost, the counts in an answer are the run's own, and every replacement of the
  manifest is a `Publish`, a `Reactivate` or a stutter of `VersionedIndex`
  (`RefinementStep`).
- `CopyInv` and `IndexedInv`: an append holds every document of the corpus file
  until it saves, and `/reindex` exactly those of the file; what a corpus file
  holds is part of what some listed version of that corpus was built from.
- `DeletionInv`: a text in a corpus or in a handler's copy was supplied by a
  request that has begun; a deleted one is in no corpus, and in no copy of a
  handler that may still save it.

**`ActiveIndexProofs`.** `ContextsComplete`: the cached index, once set, is never
`None` again, and a thread gets to its return only past a test that saw it set or
past its own assignment (`FilledInv`). `ContextsPairedUntilOverlap`:
a thread that has been alone in `resolve()` since its call knows how the cache's
label and its locals agree at each of its steps (`AloneInv`), even while the cached
index is a wrong one left by an overlap; so the index it stores makes the slot
right, and the slot stays right until threads overlap again (`PairedInv`).

**`IngestionProofs`**, on chunks: `TypeCorrect`, `ChunksNotNested`, `NothingLost`,
`CountExact`. The invariant describes the chunks made so far: per document they
are at positions 0, 1, 2, ..., each starts a stride after the one before, only
the last reaches the end, and those of the current document cover all units below
`start` plus the overlap. `NothingLost` and `CountExact` add that ids are distinct
when document ids are, and what `ById` keeps then.

On requests: `IngestTypeCorrect`, `RunsChunkWell`, `EveryFileAccountedFor`,
`AppendIsUpdate`, `CorpusIsReplayable`. `IngestInv` joins the invariant of
`Chunking`, which `Run` preserves and `Prepare` establishes (`FreshIInv`), with
what the loops have done so far: `LoadInv` accounts for the files read, `MergeInv`
says that `documents` is the last-wins merge of the part of `Merging` that was
passed, `PreparedInv` that what is chunked is `documents`, sorted and cleaned.

`HandlersAdvance` is the action property `StepsNearer`: under `IngestInv` every
step of `Handle` decreases the triple (`StagesLeft`, `TurnsLeft`, `UnitsLeft`) in
lexicographic order, one lemma per loop. With strides above zero, which the
constructors check, a window always moves `start` on; a stride past the end of a
text leaves no units rather than a negative number of them. `PreparedOnce`: the
stable sort of the documents is one list (`SortedOnce`, for the order of ids and,
among equal ones, of places), so what a reindex prepares is determined.

**`DictionaryAdminProofs`.** `TypeCorrect` and `ExpanderUpToDate`. `AloneInv`: a
handler that is alone, and was since its call, has merged exactly the files it is
through with when it rebuilds (`ReadSoFar`), whatever expander an overlap left
before. `RebuiltInv`: from the moment such a handler has put its expander on
`app.state` to the next overlap, that expander says what files and switch say
unless a handler is between its change and its rebuild, or a file is undecodable.

**`WeightedFusionProofs`.** `TypeCorrect`, `OrderIsDetermined`, `BetterComesFirst`,
`ScalesDoNotMatter`, for any number of chunks, any integer scores and any integer
weights. Nothing but `Fuse` happens, so the work is in the arithmetic:

- `NormalizedType`: radicands are positive. For z-scores that is `SpreadOfList`,
  `n * sum of squares > (sum) ^ 2` unless all scores are equal: `n` times it is the
  sum of the squares of `n * score - sum`, one of which is not zero.
- `SignAdd`, `SignScale`, `SignOpposite`: the sign of `p / root(r) + q / root(s)`,
  which the model computes without roots, behaves like that of a number. Adding two
  positive ones of different signs in `p` and `q` is the step that needs
  `CrossProduct`. Hence `Ahead` is a strict total order (`AheadIsOrder`), and by
  `SortedOnce` there is one list in that order (`OneFusedOrder`).
- `NormalizedOrder`: normalization keeps the order within a list and, for min-max,
  puts no chunk of it below a missing one.
- `RescaledFacts`: stretching a list by a positive `k` multiplies numerators by `k` and the
  radicand by `k ^ 2`, or neither; shifting it changes nothing. Then `SignScale`
  gives the same order (`OrdersRescaled`).

**`SearchPipelineProofs`.** `TypeCorrect`, `AnswersAllowed`, `PagesFull`,
`OrderKept`, `FusionDetermined`, `FilterDetermined`. One invariant per property
says of the candidates what the property says of the hits: only allowed chunks
after the filter (`AllowedInv`), as full as the pools allow (`PageInv`), in an
order that respects both rankings (`OrderInv`). `FusionKeepsOrder` is the
arithmetic of rank fusion: if a chunk comes before another one copy by copy in both
rankings, the pools still have that match (`PrefixFacts`), each term of the other's
score has a greater one of the first's (`RankScoreFacts`), and so the sum is greater
(`PartFacts`, by `SumOutweighed`), however often the lexical index repeats either.
That no stage but BM25's own repeats a chunk is part of `TypeCorrect`: it follows
from what fusion, filter and reranker do with their lists, not from what they are
given. Fusion and filter are stated as relations between lists ("the list of these
chunks in this order"), so no step needs an induction over a list. That these
relations leave no choice, as the code's `sorted` and list comprehensions do not, is
what `FusionDetermined` and `FilterDetermined` say: there is exactly one such list.

Only model-checked: `Answered`. It is liveness under fairness: beyond
`HandlersAdvance`, which bounds the steps of a handler, it needs that a handler that
is not done always has a step, and that is `ENABLED`, which the provers do not
handle. The runs that expect a violation are TLC's alone.

## Limits

- Two runs in one microsecond (`core/ids.py`) are not modelled; nor are failures
  of the disk other than a failing dump, nor a lost write after a crash: what was
  written stays, as `save` does not call fsync and the model does not look below
  the file system's cache.
- Embeddings, BM25 scores, string distances, tokenization and sentence splitting
  are data: rankings are arbitrary, units are given.
- Paragraphs are counted without the separators between them: the one character a
  collapsed blank line leaves can make a chunk longer, not a unit disappear.
- What a reader makes of bytes (encodings, `.docx`, `.rtf`) is the text of a file;
  that it may raise or give nothing is modelled.
- Both fusions are exact; two sums that differ by less than a rounding error may
  be ordered the other way by the floats of the code.
- `WeightedFusion` starts from the two dicts of raw scores, which have a chunk once:
  of one that BM25 lists several times the last, lowest score.
- A document list with one id twice is kept by the corpus file as it is; the
  lifecycle models it as a map. `Chunking` and `Ingestion` have equal ids.
- Requests that overlap are `IndexLifecycle`'s subject; `Ingestion` has them one
  after the other.

Not modelled, with the reasons in `PROJECT.json`: sentence splitting, tokenizer
and lemmatizer, embedders (data, no state); health and the web page (they only
read); the listings of the admin routes; the caches of loaded models.

## Plan

Done: storage and lifecycle, resolver, dictionaries, chunking, ingestion, both
fusions and the search, in the order of how much depends on them, and the proofs
above: no safety property the passing runs check is left without one.

Next, in this order:

1. A module for the version clock: ids from timestamps, equal ones included, and
   what they do to collections, pickles and the manifest.
2. The read side of the admin routes: the double load of `GET /admin/versions`, a
   corpus file that vanishes between `glob` and `stat`; the model caches.
3. A composition of `ActiveIndex` with the lifecycle's torn manifest, for what a
   search sees while an index is being saved.
