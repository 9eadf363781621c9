---------------------------- MODULE IndexLifecycle ----------------------------
(***************************************************************************)
(* The write side of the service: the HTTP handlers that build index       *)
(* versions (POST /index, /index-from-folder, /index-upload, /reindex),    *)
(* POST /admin/rollback and DELETE /admin/corpora/.../documents, over the  *)
(* files and collections they share: manifest.json, one corpus JSON per    *)
(* source_corpus, one Qdrant collection and one BM25 pickle per version.   *)
(*                                                                         *)
(* Requests (of ReplaceFile) are the requests of a behaviour, each made at *)
(* most once.  A request runs its handler once, one operation on shared    *)
(* storage per step.                                                       *)
(* The version an indexing request creates is named after the request: the *)
(* ids are taken to be distinct, as compute_index_version intends.         *)
(***************************************************************************)
EXTENDS Manifest, ReplaceFile, FiniteSets, Functions

CONSTANTS
    Corpora,        \* source_corpus names
    DocIds,         \* document ids
    NoCorpus,       \* an omitted source_corpus
    NoDoc,          \* no document id
    MaxInFlight,    \* bound: handlers running at the same time
    MaxRestarts,    \* bound: crashes of the process
    Handlers,       \* which operations clients call: a subset of Ops
    Faults          \* which failures happen: a subset of FaultKinds

FaultKinds == {"stage", "save", "remove"}

ASSUME NoRequestAssumption == NoRequest \notin Requests
ASSUME NoVersionAssumption == NoVersion \notin Requests
ASSUME NoCorpusAssumption == NoCorpus \notin Corpora
ASSUME NoDocAssumption == NoDoc \notin DocIds
ASSUME BoundsAssumption == MaxInFlight \in Nat /\ MaxRestarts \in Nat
ASSUME FaultsAssumption == Faults \subseteq FaultKinds

VARIABLES
    manifest,       \* manifest.json and its temporary
    corpora,        \* data/corpus/<name>.json and its temporary, by name
    collection,     \* the Qdrant collection of each version
    lexical,        \* the BM25 pickle of each version
    removed,        \* versions whose collection and pickle were deleted by hand
    pc,             \* where each request's handler is
    call,           \* what each request asks for
    docs,           \* the documents each handler works on: id -> who supplied it
    mem,            \* the IndexManifest each handler holds
    fd,             \* the inode each handler's open temporary file is
    reply,          \* what each request was answered
    deleted,        \* history: the deletions that found their document
    restarts        \* how often the process crashed

files == <<manifest, corpora>>
assets == <<collection, lexical, removed>>
locals == <<call, docs, mem, fd>>
history == <<deleted, restarts>>
vars == <<files, assets, pc, locals, reply, history>>

-----------------------------------------------------------------------------
(* Values.                                                                 *)

IndexOps == {"index", "folder", "upload"}
BuildOps == IndexOps \cup {"reindex"}
Ops == BuildOps \cup {"rollback", "delete"}

Calls ==
    [op     : Ops,
     append : BOOLEAN,
     corpus : Corpora \cup {NoCorpus},
     target : Requests \cup {NoVersion},
     doc    : DocIds \cup {NoDoc}]

Input(op, append, corpus, target, doc) ==
    [op |-> op, append |-> append, corpus |-> corpus, target |-> target, doc |-> doc]

NoCall == Input("index", FALSE, NoCorpus, NoVersion, NoDoc)

\* A corpus: a document per id, known by the request that supplied its text.
DocumentMaps == UNION {[D -> Requests] : D \in SUBSET DocIds}
NoDocuments == [d \in {} |-> NoRequest]

Labels == {"idle",
           "readVersions", "loadCorpus",
           "createCollection", "upsert", "openPickle", "dumpPickle", "record",
           "rollback", "checkAssets",
           "openManifest", "dumpManifest", "replaceManifest",
           "loadDelete",
           "openCorpus", "dumpCorpus", "replaceCorpus",
           "respond", "done"}

Statuses == {"none", "200", "404", "409", "422", "500", "lost"}

TypeOK ==
    /\ manifest \in Files(Manifests(Requests, Corpora))
    /\ corpora \in [Corpora -> Files(DocumentMaps)]
    /\ collection \in [Requests -> {"absent", "empty", "full"}]
    /\ lexical \in [Requests -> {"absent", "partial", "full"}]
    /\ removed \subseteq Requests
    /\ pc \in [Requests -> Labels]
    /\ call \in [Requests -> Calls]
    /\ docs \in [Requests -> DocumentMaps]
    /\ mem \in [Requests -> Manifests(Requests, Corpora)]
    /\ fd \in [Requests -> Requests \cup {NoRequest}]
    /\ reply \in [Requests -> [status    : Statuses,
                               described : Requests \cup {NoVersion}]]
    /\ deleted \subseteq [by : Requests, corpus : Corpora, doc : DocIds,
                    supplier : Requests]
    /\ restarts \in 0 .. MaxRestarts

Init ==
    /\ manifest = NoFile
    /\ corpora = [c \in Corpora |-> NoFile]
    /\ collection = [v \in Requests |-> "absent"]
    /\ lexical = [v \in Requests |-> "absent"]
    /\ removed = {}
    /\ pc = [r \in Requests |-> "idle"]
    /\ call = [r \in Requests |-> NoCall]
    /\ docs = [r \in Requests |-> NoDocuments]
    /\ mem = [r \in Requests |-> EmptyManifest]
    /\ fd = [r \in Requests |-> NoRequest]
    /\ reply = [r \in Requests |-> [status |-> "none", described |-> NoVersion]]
    /\ deleted = {}
    /\ restarts = 0

-----------------------------------------------------------------------------
(* Control.                                                                *)

InFlight == {r \in Requests : pc[r] \notin {"idle", "done"}}

\* index_upload is `async def` with a synchronous body: while it runs the event
\* loop accepts nothing.  The other handlers run in worker threads.
EventLoopBusy == \E q \in InFlight : call[q].op = "upload"

At(r, label) == pc[r] = label
Goto(r, label) == pc' = [pc EXCEPT ![r] = label]

\* The handler returns or raises: its locals go out of scope.
Answer(r, status, described) ==
    /\ pc' = [pc EXCEPT ![r] = "done"]
    /\ reply' = [reply EXCEPT ![r] = [status |-> status, described |-> described]]
    /\ mem' = [mem EXCEPT ![r] = EmptyManifest]
    /\ fd' = [fd EXCEPT ![r] = NoRequest]

Fail(r) == Answer(r, "500", NoVersion)

\* A request reaches its handler with its parsed input.
Accept(r, label, input, documents) ==
    /\ At(r, "idle")
    /\ Cardinality(InFlight) < MaxInFlight
    /\ ~ EventLoopBusy
    /\ Goto(r, label)
    /\ call' = [call EXCEPT ![r] = input]
    /\ docs' = [docs EXCEPT ![r] = documents]
    /\ UNCHANGED <<files, assets, mem, fd, reply, history>>

-----------------------------------------------------------------------------
(* Requests arrive.                                                        *)

Supplied(r, D) == [d \in D |-> r]

\* POST /index: the documents come in the body and replace the corpus.
BeginIndex(r, c, D) ==
    Accept(r, "createCollection",
           Input("index", FALSE, c, NoVersion, NoDoc), Supplied(r, D))

\* POST /index-from-folder and /index-upload: documents read from files, mode
\* "append" or any other string.
BeginFiles(r, op, append, c, D) ==
    /\ D # {}
    /\ Accept(r, IF append THEN "loadCorpus" ELSE "createCollection",
              Input(op, append, c, NoVersion, NoDoc), Supplied(r, D))

\* ... and the same when none of the files could be read.
RejectFiles(r, op) ==
    /\ At(r, "idle")
    /\ Cardinality(InFlight) < MaxInFlight
    /\ ~ EventLoopBusy
    /\ call' = [call EXCEPT ![r] = Input(op, FALSE, NoCorpus, NoVersion, NoDoc)]
    /\ Answer(r, "422", NoVersion)
    /\ UNCHANGED <<files, assets, docs, history>>

\* POST /reindex, with or without a source_corpus.
BeginReindex(r, c) ==
    Accept(r, "readVersions", Input("reindex", FALSE, c, NoVersion, NoDoc),
           NoDocuments)

\* POST /admin/rollback/{version}.
BeginRollback(r, v) ==
    Accept(r, "rollback", Input("rollback", FALSE, NoCorpus, v, NoDoc),
           NoDocuments)

\* DELETE /admin/corpora/{name}/documents/{doc_id}.
BeginDelete(r, c, d) ==
    Accept(r, "loadDelete",
           Input("delete", FALSE, c, NoVersion, d), NoDocuments)

-----------------------------------------------------------------------------
(* Reading what to index.                                                  *)

\* The manifest a handler that loads it gets.
Loaded == IF Exists(manifest) THEN Content(manifest) ELSE EmptyManifest

\* /reindex loads the manifest; without a source_corpus it takes that of the
\* last recorded version.
ReadVersions(r) ==
    /\ At(r, "readVersions")
    /\ LET versions == Loaded.versions
           given == call[r].corpus # NoCorpus
       IN  \/ /\ Unreadable(manifest)
              /\ Fail(r)
              /\ UNCHANGED call
           \/ /\ ~ Unreadable(manifest)
              /\ ~ given
              /\ versions = <<>>
              /\ Answer(r, "404", NoVersion)
              /\ UNCHANGED call
           \/ /\ ~ Unreadable(manifest)
              /\ given \/ versions # <<>>
              /\ call' = IF given
                         THEN call
                         ELSE [call EXCEPT ![r].corpus =
                                 versions[Len(versions)].source_corpus]
              /\ Goto(r, "loadCorpus")
              /\ UNCHANGED <<mem, fd, reply>>
    /\ UNCHANGED <<files, assets, docs, history>>

\* _merge_documents: per id, the incoming document wins.
MutantMergeDocuments(existing, incoming) == incoming
MergeDocuments(existing, incoming) ==
    [d \in DOMAIN existing \cup DOMAIN incoming |->
        IF d \in DOMAIN incoming THEN incoming[d] ELSE existing[d]]

\* load_corpus, for /reindex and for mode "append".
LoadCorpus(r) ==
    /\ At(r, "loadCorpus")
    /\ LET f == corpora[call[r].corpus]
           reindex == call[r].op = "reindex"
       IN  \/ /\ Unreadable(f)
              /\ Fail(r)
              /\ UNCHANGED docs
           \/ /\ ~ Exists(f)
              /\ reindex
              /\ Answer(r, "404", NoVersion)
              /\ UNCHANGED docs
           \/ /\ Parses(f) \/ (~ Exists(f) /\ ~ reindex)
              /\ docs' = IF Exists(f)
                         THEN [docs EXCEPT ![r] =
                                 MergeDocuments(Content(f), docs[r])]
                         ELSE docs
              /\ Goto(r, "createCollection")
              /\ UNCHANGED <<mem, fd, reply>>
    /\ UNCHANGED <<files, assets, call, history>>

-----------------------------------------------------------------------------
(* IndexingService.run(): the version's assets first, the manifest last.   *)

\* Any exception of a stage is an IndexingError; what was stored stays.
MutantStageFails(r) ==
    /\ "stage" \in Faults
    /\ pc[r] \in {"createCollection", "upsert", "openPickle", "dumpPickle"}
    /\ Goto(r, "openCorpus")
    /\ UNCHANGED <<files, assets, locals, reply, history>>
StageFails(r) ==
    /\ "stage" \in Faults
    /\ pc[r] \in {"createCollection", "upsert", "openPickle", "dumpPickle"}
    /\ Fail(r)
    /\ UNCHANGED <<files, assets, call, docs, history>>

CreateCollection(r) ==
    /\ At(r, "createCollection")
    /\ collection' = [collection EXCEPT ![r] = "empty"]
    /\ Goto(r, "upsert")
    /\ UNCHANGED <<files, lexical, removed, locals, reply, history>>

Upsert(r) ==
    /\ At(r, "upsert")
    /\ collection' = [collection EXCEPT ![r] = "full"]
    /\ Goto(r, "openPickle")
    /\ UNCHANGED <<files, lexical, removed, locals, reply, history>>

\* BM25LexicalIndex.save writes the final path directly, in two steps.
OpenPickle(r) ==
    /\ At(r, "openPickle")
    /\ lexical' = [lexical EXCEPT ![r] = "partial"]
    /\ Goto(r, "dumpPickle")
    /\ UNCHANGED <<files, collection, removed, locals, reply, history>>

MutantDumpPickle(r) ==
    /\ At(r, "dumpPickle")
    /\ Goto(r, "record")
    /\ UNCHANGED <<files, assets, locals, reply, history>>
DumpPickle(r) ==
    /\ At(r, "dumpPickle")
    /\ lexical' = [lexical EXCEPT ![r] = "full"]
    /\ Goto(r, "record")
    /\ UNCHANGED <<files, collection, removed, locals, reply, history>>

\* Load the manifest and record the new version in the copy.
Record(r) ==
    /\ At(r, "record")
    /\ \/ /\ Unreadable(manifest)
          /\ Fail(r)
       \/ /\ ~ Unreadable(manifest)
          /\ mem' = [mem EXCEPT ![r] = RecordNew(Loaded, r, call[r].corpus)]
          /\ Goto(r, "openManifest")
          /\ UNCHANGED <<fd, reply>>
    /\ UNCHANGED <<files, assets, call, docs, history>>

-----------------------------------------------------------------------------
(* AdminService.rollback(), up to the save.                                *)

Rollback(r) ==
    /\ At(r, "rollback")
    /\ \/ /\ Unreadable(manifest)
          /\ Fail(r)
       \/ /\ ~ Unreadable(manifest)
          /\ call[r].target \notin Recorded(Loaded)
          /\ Answer(r, "404", NoVersion)
       \/ /\ ~ Unreadable(manifest)
          /\ call[r].target \in Recorded(Loaded)
          /\ mem' = [mem EXCEPT ![r] = Loaded]
          /\ Goto(r, "checkAssets")
          /\ UNCHANGED <<fd, reply>>
    /\ UNCHANGED <<files, assets, call, docs, history>>

\* Existence is all that is checked: of the collection, and of the pickle.  A
\* vector store that cannot be asked counts as a missing collection.
CheckAssets(r) ==
    /\ At(r, "checkAssets")
    /\ LET v == call[r].target
           present == collection[v] # "absent" /\ lexical[v] # "absent"
       IN  \/ /\ ~ present \/ "stage" \in Faults
              /\ Answer(r, "409", NoVersion)
           \/ /\ present
              /\ mem' = [mem EXCEPT ![r] = Activate(mem[r], v)]
              /\ Goto(r, "openManifest")
              /\ UNCHANGED <<fd, reply>>
    /\ UNCHANGED <<files, assets, call, docs, history>>

-----------------------------------------------------------------------------
(* IndexManifest.save().                                                   *)

OpenManifest(r) ==
    /\ At(r, "openManifest")
    /\ manifest' = OpenTmp(manifest, r)
    /\ fd' = [fd EXCEPT ![r] = OpenTmp(manifest, r).tmp]
    /\ Goto(r, "dumpManifest")
    /\ UNCHANGED <<corpora, assets, call, docs, mem, reply, history>>

\* Another handler has the inode r writes to open for writing.
ManifestShared(r) ==
    \E q \in Requests \ {r} : At(q, "dumpManifest") /\ fd[q] = fd[r]

DumpManifest(r) ==
    /\ At(r, "dumpManifest")
    /\ \/ /\ manifest' \in Dump(manifest, fd[r], mem[r], ManifestShared(r))
          /\ Goto(r, "replaceManifest")
          /\ UNCHANGED <<mem, fd, reply>>
       \/ /\ "save" \in Faults
          /\ manifest' = DumpFails(manifest, fd[r])
          /\ Fail(r)
    /\ UNCHANGED <<corpora, assets, call, docs, history>>

MutantReplaceManifest(r) ==
    /\ At(r, "replaceManifest")
    /\ \/ TmpMissing(manifest) /\ Fail(r) /\ UNCHANGED manifest
       \/ /\ ~ TmpMissing(manifest)
          /\ manifest' = Replace(manifest)
          /\ IF call[r].op = "rollback"
             THEN Answer(r, "200", call[r].target)
             ELSE Goto(r, "respond") /\ UNCHANGED <<mem, fd, reply>>
    /\ UNCHANGED <<corpora, assets, call, docs, history>>
ReplaceManifest(r) ==
    /\ At(r, "replaceManifest")
    /\ \/ /\ TmpMissing(manifest)
          /\ Fail(r)
          /\ UNCHANGED manifest
       \/ /\ ~ TmpMissing(manifest)
          /\ manifest' = Replace(manifest)
          /\ \/ /\ call[r].op = "rollback"
                /\ Answer(r, "200", call[r].target)
             \/ /\ call[r].op = "reindex"
                /\ Goto(r, "respond")
                /\ UNCHANGED <<mem, fd, reply>>
             \/ /\ call[r].op \in IndexOps
                /\ Goto(r, "openCorpus")
                /\ UNCHANGED <<mem, fd, reply>>
    /\ UNCHANGED <<corpora, assets, call, docs, history>>

-----------------------------------------------------------------------------
(* corpus_store: delete_document's load, and the save it shares with the   *)
(* indexing handlers.                                                      *)

MutantWithout(documents, d) == documents
Without(documents, d) == Restrict(documents, DOMAIN documents \ {d})

LoadDelete(r) ==
    /\ At(r, "loadDelete")
    /\ LET f == corpora[call[r].corpus]
           d == call[r].doc
       IN  \/ /\ Unreadable(f)
              /\ Fail(r)
              /\ UNCHANGED <<docs, deleted>>
           \/ /\ ~ Unreadable(f)
              /\ Exists(f) => d \notin DOMAIN Content(f)
              /\ Answer(r, "404", NoVersion)
              /\ UNCHANGED <<docs, deleted>>
           \/ /\ Parses(f)
              /\ d \in DOMAIN Content(f)
              /\ deleted' = deleted \cup
                   {[by |-> r, corpus |-> call[r].corpus, doc |-> d,
                     supplier |-> Content(f)[d]]}
              /\ docs' = [docs EXCEPT ![r] = Without(Content(f), d)]
              /\ Goto(r, "openCorpus")
              /\ UNCHANGED <<mem, fd, reply>>
    /\ UNCHANGED <<files, assets, call, restarts>>

OpenCorpus(r) ==
    /\ At(r, "openCorpus")
    /\ LET c == call[r].corpus
       IN  /\ corpora' = [corpora EXCEPT ![c] = OpenTmp(corpora[c], r)]
           /\ fd' = [fd EXCEPT ![r] = OpenTmp(corpora[c], r).tmp]
    /\ Goto(r, "dumpCorpus")
    /\ UNCHANGED <<manifest, assets, call, docs, mem, reply, history>>

CorpusShared(r) ==
    \E q \in Requests \ {r} : /\ At(q, "dumpCorpus")
                              /\ call[q].corpus = call[r].corpus
                              /\ fd[q] = fd[r]

DumpCorpus(r) ==
    /\ At(r, "dumpCorpus")
    /\ LET c == call[r].corpus
       IN  \/ /\ \E f \in Dump(corpora[c], fd[r], docs[r], CorpusShared(r)) :
                    corpora' = [corpora EXCEPT ![c] = f]
              /\ Goto(r, "replaceCorpus")
              /\ UNCHANGED <<mem, fd, reply>>
           \/ /\ "save" \in Faults
              /\ corpora' = [corpora EXCEPT ![c] = DumpFails(corpora[c], fd[r])]
              /\ Fail(r)
    /\ UNCHANGED <<manifest, assets, call, docs, history>>

\* A missing temporary is a FileNotFoundError: the delete handler takes it for a
\* missing corpus and answers 404, the indexing handlers answer 500.
ReplaceCorpus(r) ==
    /\ At(r, "replaceCorpus")
    /\ LET c == call[r].corpus
       IN  \/ /\ TmpMissing(corpora[c])
              /\ Answer(r, IF call[r].op = "delete" THEN "404" ELSE "500",
                        NoVersion)
              /\ UNCHANGED corpora
           \/ /\ ~ TmpMissing(corpora[c])
              /\ corpora' = [corpora EXCEPT ![c] = Replace(corpora[c])]
              /\ \/ /\ call[r].op = "delete"
                    /\ Answer(r, "200", NoVersion)
                 \/ /\ call[r].op \in IndexOps
                    /\ Goto(r, "respond")
                    /\ UNCHANGED <<mem, fd, reply>>
    /\ UNCHANGED <<manifest, assets, call, docs, history>>

-----------------------------------------------------------------------------
(* The answer of the indexing handlers: the counts of the active version.  *)

Respond(r) ==
    /\ At(r, "respond")
    /\ LET counted == ~ Unreadable(manifest) /\ HasActive(Loaded)
       IN  \/ /\ ~ counted
              /\ Fail(r)
           \/ /\ counted
              /\ Answer(r, "200", Loaded.active_version)
    /\ UNCHANGED <<files, assets, call, docs, history>>

-----------------------------------------------------------------------------
(* The environment.                                                        *)

\* The process dies and is started again.  Running handlers and their
\* descriptors are gone; every file, temporaries included, is as it was.
Crash ==
    /\ restarts < MaxRestarts
    /\ InFlight # {}
    /\ restarts' = restarts + 1
    /\ pc' = [r \in Requests |-> IF r \in InFlight THEN "done" ELSE pc[r]]
    /\ reply' = [r \in Requests |-> IF r \in InFlight
                                    THEN [reply[r] EXCEPT !.status = "lost"]
                                    ELSE reply[r]]
    /\ mem' = [r \in Requests |-> EmptyManifest]
    /\ fd' = [r \in Requests |-> NoRequest]
    /\ UNCHANGED <<files, assets, call, docs, deleted>>

\* Somebody deletes the assets of a recorded version by hand.
RemoveAssets(v) ==
    /\ "remove" \in Faults
    /\ At(v, "done")
    /\ Parses(manifest) /\ v \in Recorded(Content(manifest))
    /\ collection[v] # "absent"
    /\ collection' = [collection EXCEPT ![v] = "absent"]
    /\ lexical' = [lexical EXCEPT ![v] = "absent"]
    /\ removed' = removed \cup {v}
    /\ UNCHANGED <<files, pc, locals, reply, history>>

Begin(r) ==
    \/ /\ "index" \in Handlers
       /\ \E c \in Corpora, D \in SUBSET DocIds : BeginIndex(r, c, D)
    \/ \E op \in {"folder", "upload"} \cap Handlers :
          \/ \E append \in BOOLEAN, c \in Corpora, D \in SUBSET DocIds :
                BeginFiles(r, op, append, c, D)
          \/ RejectFiles(r, op)
    \/ /\ "reindex" \in Handlers
       /\ \E c \in Corpora \cup {NoCorpus} : BeginReindex(r, c)
    \/ /\ "rollback" \in Handlers
       /\ \E v \in Requests : BeginRollback(r, v)
    \/ /\ "delete" \in Handlers
       /\ \E c \in Corpora, d \in DocIds : BeginDelete(r, c, d)

Run(r) ==
    \/ ReadVersions(r) \/ LoadCorpus(r)
    \/ CreateCollection(r) \/ Upsert(r) \/ OpenPickle(r) \/ DumpPickle(r)
    \/ Record(r) \/ StageFails(r)
    \/ Rollback(r) \/ CheckAssets(r)
    \/ OpenManifest(r) \/ DumpManifest(r) \/ ReplaceManifest(r)
    \/ LoadDelete(r)
    \/ OpenCorpus(r) \/ DumpCorpus(r) \/ ReplaceCorpus(r)
    \/ Respond(r)

Next ==
    \/ \E r \in Requests : Begin(r) \/ Run(r)
    \/ \E v \in Requests : RemoveAssets(v)
    \/ Crash

Spec == Init /\ [][Next]_vars

-----------------------------------------------------------------------------
(* Properties that hold however the handlers overlap.                      *)

\* A version that the manifest on disk records has a filled collection and a
\* complete pickle, whatever else runs or crashes, unless they were deleted by
\* hand: _run() builds the assets before it records the version.
RecordedAssetsComplete ==
    Parses(manifest) =>
        \A v \in Recorded(Content(manifest)) \ removed :
            collection[v] = "full" /\ lexical[v] = "full"

\* Every manifest that can be read on disk, or would be after the next replace,
\* is coherent: distinct ids, exactly one active entry, the one active_version
\* names.  record_new() and rollback() keep the two ways of marking it in step.
ManifestCoherent ==
    \A i \in {manifest.path, manifest.tmp} \ {NoRequest} :
        manifest.data[i].state = "json" => Coherent(manifest.data[i].value)

-----------------------------------------------------------------------------
(* Properties of handlers that do not overlap (MaxInFlight = 1), whatever  *)
(* fails or crashes between two steps.                                     *)

Acknowledged(r) == reply[r].status = "200"

\* No JSON file is ever left unreadable: "provides atomic read/write"
\* (manifest.py), tmp file and replace.
FilesReadable ==
    /\ ~ Unreadable(manifest)
    /\ \A c \in Corpora : ~ Unreadable(corpora[c])

\* The manifest alone, for overlapping handlers.
ManifestReadable == ~ Unreadable(manifest)

\* A version that an indexing request was told about stays recorded: it can be
\* listed and rolled back to from then on.
ReportedVersionsRecorded ==
    Parses(manifest) =>
        \A r \in Requests : Acknowledged(r) /\ call[r].op \in BuildOps
                               => r \in Recorded(Content(manifest))

\* The counts in an indexing response are those of the version it names:
\* "IndexingService.run() just recorded it".
ResponseDescribesOwnVersion ==
    \A r \in Requests : Acknowledged(r) /\ call[r].op \in BuildOps
                           => reply[r].described = r

\* A document whose deletion was acknowledged does not come back into the corpus
\* file, unless a client supplies it anew.
DeletedStaysDeleted ==
    \A x \in deleted :
        LET f == corpora[x.corpus]
        IN  Acknowledged(x.by) /\ Parses(f) /\ x.doc \in DOMAIN Content(f)
               => Content(f)[x.doc] # x.supplier

\* What a corpus file holds was indexed: some recorded version of that corpus
\* was built from all of these documents, so /reindex replays known input.
CorpusIsIndexed ==
    \A c \in Corpora : Parses(corpora[c]) =>
        \E i \in DOMAIN Loaded.versions :
            LET v == Loaded.versions[i].index_version
                documents == Content(corpora[c])
            IN  /\ Loaded.versions[i].source_corpus = c
                /\ \A d \in DOMAIN documents :
                      d \in DOMAIN docs[v] /\ docs[v][d] = documents[d]

\* A document leaves a corpus file only when a client deletes it or replaces the
\* whole corpus: mode "append" adds "without losing previously indexed documents".
CorpusDocs(c) == IF Parses(corpora[c]) THEN DOMAIN Content(corpora[c]) ELSE {}
AppendStep ==
    \A c \in Corpora, r \in Requests :
        At(r, "replaceCorpus") /\ pc'[r] # pc[r] /\ call[r].append
            => CorpusDocs(c) \subseteq CorpusDocs(c)'
AppendKeepsDocuments == [][AppendStep]_vars

\* When an indexing request is answered 200, the corpus file holds the documents its
\* version was built from, no fewer and no more: the next /reindex, and the list of
\* documents an admin sees, are those of the version that was just made active.
AnswerStep ==
    \A r \in Requests :
        At(r, "respond") /\ pc'[r] # pc[r] /\ reply'[r].status = "200"
            => /\ Parses(corpora[call[r].corpus])
               /\ Content(corpora[call[r].corpus]) = docs[r]
AnsweredIndexMatchesCorpus == [][AnswerStep]_vars

\* The manifest on disk is a versioned index: histories only grow, and the
\* active version is the newest one or one that was rolled back to.
Index == INSTANCE VersionedIndex WITH
    Versions  <- Requests,
    published <- [i \in DOMAIN Loaded.versions |-> Loaded.versions[i].index_version],
    active    <- Loaded.active_version
ImplementsVersionedIndex == Index!Spec
==============================================================================
