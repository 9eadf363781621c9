-------------------------------- MODULE Ingestion --------------------------------
(***************************************************************************)
(* From files to an index (POST /index-from-folder and /index-upload,      *)
(* file_loader.py, TextPreprocessor, IndexingService._run): the files of a *)
(* request are read one by one, failures are collected, the documents are  *)
(* merged with the corpus when the mode is append, sorted and cleaned, then*)
(* chunked and stored (Chunking), and the corpus is saved.  Requests come  *)
(* one after the other; what overlapping ones do to the files they share is*)
(* IndexLifecycle.                                                         *)
(*                                                                         *)
(* A text is the sequence of the lengths of its paragraphs, in the units of*)
(* the configured strategy; a blank one is empty.                          *)
(***************************************************************************)
EXTENDS Chunking, SequencesExt

CONSTANTS
    Texts,          \* bound: the texts of files
    Unreadable,     \* stands for the content of a file whose reader raises
    Files,          \* bound: the files of requests
    MaxFiles,       \* bound: files of a request
    MaxRequests,    \* bound: requests
    MinSize,        \* chunking.paragraph.min_chars
    NoCorpus        \* there is no corpus file yet

\* A file: its stem, whether its suffix is one of SUPPORTED_SUFFIXES, its content.
FileType == [stem : DocIds, supported : BOOLEAN, content : Texts \cup {Unreadable}]

Length(text) == SumFunction(text)

\* collapse_whitespace: a blank line becomes a space, and paragraphs become one.
Clean(text) == IF text = <<>> THEN <<>> ELSE <<Length(text)>>

ASSUME FilesAssumption ==
    /\ Texts \subseteq Seq(Nat \ {0})
    /\ Unreadable \notin Texts
    /\ Files \subseteq FileType
    /\ MaxFiles \in Nat /\ MaxRequests \in Nat \ {0} /\ MinSize \in Nat

VARIABLES
    stage,          \* of the handler
    requests,       \* requests so far
    endpoint, mode, \* of the request: folder or upload, replace or append
    files,          \* in the order the handler reads them
    next,           \* where the handler's loop is
    raw_docs,       \* the documents that could be read
    errors,         \* the files reported with an error, by index; 0 is the folder
    corpus,         \* the corpus file
    existing,       \* the corpus as the handler loaded it
    documents,      \* what it indexes, and saves
    answer          \* status, and the counts of a 200

request == <<requests, endpoint, mode, files>>
loaded == <<next, raw_docs, errors, existing, documents>>
ingestVars == <<vars, stage, request, loaded, corpus, answer>>

Document == [doc_id : DocIds, text : Texts]
NoAnswer == [status |-> 0, found |-> 0, indexed |-> 0, chunk_count |-> 0]

IngestTypeOK ==
    /\ TypeOK
    /\ stage \in {"load", "begin", "merge", "prepare", "run", "respond", "done"}
    /\ next \in Nat \ {0}
    /\ requests \in 1 .. MaxRequests
    /\ endpoint \in {"folder", "upload"} /\ mode \in {"replace", "append"}
    /\ files \in Seq(Files)
    /\ raw_docs \in Seq(Document)
    /\ errors \subseteq 0 .. MaxFiles
    /\ corpus \in Seq(Document) \cup {NoCorpus}
    /\ existing \in Seq(Document)
    /\ documents \in Seq(Document)
    /\ answer \in [status : {0, 200, 422, 500}, found : Nat, indexed : Nat, chunk_count : Nat]

FileLists == UNION {[1 .. n -> Files] : n \in 0 .. MaxFiles}

IngestInit ==
    /\ Configured
    /\ Fresh
    /\ stage = "load"
    /\ endpoint \in {"folder", "upload"} /\ mode \in {"replace", "append"}
    /\ files \in FileLists
    /\ next = 1 /\ raw_docs = <<>> /\ errors = {}
    /\ existing = <<>> /\ documents = <<>> /\ docs = <<>>
    /\ corpus = NoCorpus
    /\ answer = NoAnswer
    /\ requests = 1

-----------------------------------------------------------------------------
(* Loading files. *)

\* The reader returns a text that is not blank.
MutantReadable(f) == f.supported /\ f.content # <<>>
Readable(f) == f.supported /\ f.content \notin {Unreadable, <<>>}
DocumentOf(f) == [doc_id |-> f.stem, text |-> f.content]

\* load_folder passes over unsupported suffixes, load_files reports them.
MutantReported(f) == f.supported
Reported(f) == f.supported \/ endpoint = "upload"

\* One turn of the loop over the files.
LoadFile ==
    /\ stage = "load" /\ next <= Len(files)
    /\ raw_docs' = IF Readable(files[next])
                   THEN Append(raw_docs, DocumentOf(files[next]))
                   ELSE raw_docs
    /\ errors' = IF ~ Readable(files[next]) /\ Reported(files[next])
                 THEN errors \cup {next}
                 ELSE errors
    /\ next' = next + 1
    /\ UNCHANGED <<vars, stage, request, existing, documents, corpus, answer>>

\* A folder that is none is one error.
NotADirectory ==
    /\ stage = "load" /\ next = 1
    /\ endpoint = "folder" /\ files = <<>> /\ errors = {}
    /\ errors' = {0}
    /\ UNCHANGED <<vars, stage, request, next, raw_docs, existing, documents, corpus, answer>>

\* Nothing readable is a 422.
Loaded ==
    /\ stage = "load" /\ next > Len(files)
    /\ IF raw_docs = <<>>
       THEN stage' = "done" /\ answer' = [NoAnswer EXCEPT !.status = 422]
       ELSE stage' = "begin" /\ UNCHANGED answer
    /\ UNCHANGED <<vars, request, loaded, corpus>>

-----------------------------------------------------------------------------
(* From documents to the index, and the corpus. *)

\* An exception before the handler is through: a 500.
Fail ==
    /\ stage' = "done" /\ answer' = [NoAnswer EXCEPT !.status = 500]
    /\ UNCHANGED <<vars, request, loaded, corpus>>

\* In mode append the corpus is loaded, if there is one.
Begin ==
    /\ stage = "begin"
    /\ \/ /\ mode = "append"
          /\ existing' = IF corpus = NoCorpus THEN <<>> ELSE corpus
          /\ next' = 1
          /\ stage' = "merge"
          /\ UNCHANGED <<vars, request, raw_docs, errors, documents, corpus, answer>>
       \/ /\ mode = "append"
          /\ corpus # NoCorpus
          /\ Fail
       \/ /\ mode = "replace"
          /\ documents' = raw_docs
          /\ stage' = "prepare"
          /\ UNCHANGED <<vars, request, next, raw_docs, errors, existing, corpus, answer>>

\* merged[doc.doc_id] = doc, in a dict that keeps its order.
MutantPut(merged, doc) ==
    IF \E i \in DOMAIN merged : merged[i].doc_id = doc.doc_id
    THEN merged
    ELSE Append(merged, doc)
Put(merged, doc) ==
    IF \E i \in DOMAIN merged : merged[i].doc_id = doc.doc_id
    THEN [i \in DOMAIN merged |-> IF merged[i].doc_id = doc.doc_id THEN doc ELSE merged[i]]
    ELSE Append(merged, doc)

\* _merge_documents: the loop over the old documents, then the one over the new.
Merging == existing \o raw_docs
MergeDocument ==
    /\ stage = "merge"
    /\ documents' = Put(documents, Merging[next])
    /\ next' = next + 1
    /\ stage' = IF next = Len(Merging) THEN "prepare" ELSE "merge"
    /\ UNCHANGED <<vars, request, raw_docs, errors, existing, corpus, answer>>

\* Paragraphs shorter than min_chars are no units.
Paragraphs(text) == Cardinality({p \in DOMAIN text : text[p] >= MinSize})
UnitsOf(text) == IF strategy = "paragraph" THEN Paragraphs(text) ELSE Length(text)

\* p puts the documents in the order of their ids, equal ones in the order given.
StableOrder(p, ds) ==
    \A i, j \in DOMAIN ds :
        i < j => \/ ds[p[i]].doc_id < ds[p[j]].doc_id
                 \/ ds[p[i]].doc_id = ds[p[j]].doc_id /\ p[i] < p[j]

\* What the chunker gets of ds: sorted and cleaned.
PreparedBy(p, ds) == [i \in DOMAIN ds |-> [doc_id |-> ds[p[i]].doc_id,
                                           units |-> UnitsOf(Clean(ds[p[i]].text))]]

Prepare ==
    /\ stage = "prepare"
    /\ \E p \in [DOMAIN documents -> DOMAIN documents] :
          StableOrder(p, documents) /\ docs' = PreparedBy(p, documents)
    /\ stage' = "run"
    /\ UNCHANGED <<strategy, window, stride, progress, stores, request, loaded, corpus, answer>>

\* IndexingService.run, which may fail at any stage (Next is Chunking's).
Run ==
    /\ stage = "run"
    /\ Next
    /\ UNCHANGED <<stage, request, loaded, corpus, answer>>

RunFails == stage = "run" /\ ~ stored /\ Fail

\* save_corpus, or its failure
MutantSaveCorpus ==
    /\ stage = "run" /\ stored
    /\ \/ /\ corpus' = raw_docs
          /\ stage' = "respond"
          /\ UNCHANGED <<vars, request, loaded, answer>>
       \/ Fail
SaveCorpus ==
    /\ stage = "run" /\ stored
    /\ \/ /\ corpus' = documents
          /\ stage' = "respond"
          /\ UNCHANGED <<vars, request, loaded, answer>>
       \/ Fail

Respond ==
    /\ stage = "respond"
    /\ stage' = "done"
    /\ answer' = [status |-> 200,
                  found |-> Len(raw_docs) + Cardinality(errors),
                  indexed |-> Len(raw_docs),
                  chunk_count |-> Len(chunks)]
    /\ UNCHANGED <<vars, request, loaded, corpus>>

\* The next request, to a corpus and a configuration that stay.
NextRequest ==
    /\ stage = "done"
    /\ requests < MaxRequests /\ requests' = requests + 1
    /\ stage' = "load"
    /\ endpoint' \in {"folder", "upload"} /\ mode' \in {"replace", "append"}
    /\ files' \in FileLists
    /\ next' = 1 /\ raw_docs' = <<>> /\ errors' = {}
    /\ existing' = <<>> /\ documents' = <<>> /\ docs' = <<>>
    /\ answer' = NoAnswer
    /\ d' = 1 /\ start' = 0 /\ position' = 0
    /\ chunks' = <<>> /\ collection' = <<>> /\ lexicon' = <<>> /\ stored' = FALSE
    /\ UNCHANGED <<strategy, window, stride, corpus>>

Handle == LoadFile \/ Loaded \/ Begin \/ MergeDocument \/ Prepare \/ Run \/ SaveCorpus \/ Respond

IngestNext == Handle \/ NotADirectory \/ RunFails \/ NextRequest

\* The handler runs on; that a stage of it fails is never counted on.
IngestSpec == IngestInit /\ [][IngestNext]_ingestVars /\ WF_ingestVars(Handle)

-----------------------------------------------------------------------------
(* Properties. *)

Succeeded == stage = "done" /\ answer.status = 200

\* "Reports per-file errors rather than failing the whole batch": of a request that
\* was answered 200, every file is in the corpus or among the errors, never both;
\* except those with a suffix load_folder passes over, and those whose stem a later
\* file of an append has too.
FilesAccountedFor ==
    Succeeded =>
        \A i \in DOMAIN files :
            IF Readable(files[i])
            THEN /\ i \notin errors
                 /\ \/ Contains(corpus, DocumentOf(files[i]))
                    \/ /\ mode = "append"
                       /\ \E j \in i + 1 .. Len(files) :
                             Readable(files[j]) /\ files[j].stem = files[i].stem
            ELSE i \in errors \/ (endpoint = "folder" /\ ~ files[i].supported)

Supplies(ds, id) == \E k \in DOMAIN ds : ds[k].doc_id = id
IsLatest(doc, ds) ==
    \E k \in DOMAIN ds :
        ds[k] = doc /\ \A l \in k + 1 .. Len(ds) : ds[l].doc_id # doc.doc_id

\* "re-uploading a file updates it rather than duplicating": after an append the
\* corpus has every document of before and every one of the request, each id once,
\* with the last text the request brought, or the one it had; and the count the
\* answer gives is the number of points in the collection, whatever the file names.
AppendUpdates ==
    Succeeded /\ mode = "append" =>
        /\ \A i, j \in DOMAIN corpus : corpus[i].doc_id = corpus[j].doc_id => i = j
        /\ \A id \in DocIds :
              Supplies(existing, id) \/ Supplies(raw_docs, id) => Supplies(corpus, id)
        /\ \A i \in DOMAIN corpus :
              \/ IsLatest(corpus[i], raw_docs)
              \/ ~ Supplies(raw_docs, corpus[i].doc_id) /\ IsLatest(corpus[i], existing)
        /\ answer.chunk_count = Cardinality(DOMAIN collection)

\* What POST /reindex would prepare from the corpus that was saved is what was
\* indexed: the file and the index do not drift apart.
CorpusReplaysIndex ==
    Succeeded => \E p \in [DOMAIN corpus -> DOMAIN corpus] :
                     StableOrder(p, corpus) /\ docs = PreparedBy(p, corpus)

\* What a handler still has to do: stages, turns of the loop it is in, and units of
\* the document it is chunking.
StagesLeft == [load |-> 6, begin |-> 5, merge |-> 4, prepare |-> 3, run |-> 2,
               respond |-> 1, done |-> 0][stage]
TurnsLeft == CASE stage = "load" -> Len(files) + 1 - next
               [] stage = "merge" -> Len(Merging) + 1 - next
               [] stage = "run" -> Len(docs) + 1 - d + (IF stored THEN 0 ELSE 1)
               [] OTHER -> 0
UnitsLeft == IF stage = "run" /\ d <= Len(docs) /\ start < Units THEN Units - start ELSE 0

Nearer ==
    /\ TurnsLeft' \in Nat /\ UnitsLeft' \in Nat
    /\ \/ StagesLeft' < StagesLeft
       \/ StagesLeft' = StagesLeft /\ TurnsLeft' < TurnsLeft
       \/ StagesLeft' = StagesLeft /\ TurnsLeft' = TurnsLeft /\ UnitsLeft' < UnitsLeft

\* The loops end: every step of a handler leaves it less to do, whatever the stride
\* and the window, and however far past its end a window reaches.
StepsNearer == [][Handle => Nearer]_ingestVars

\* Every request is answered, for all parameters the chunkers' constructors accept:
\* their loops end.
Answered == stage # "done" ~> stage = "done"

\* "Splits on blank lines; paragraphs shorter than `min_chars` are dropped": every
\* other paragraph of a document is a chunk of its own.
ParagraphsSeparate ==
    Succeeded /\ strategy = "paragraph" =>
        \A p \in [DOMAIN documents -> DOMAIN documents] :
            StableOrder(p, documents) =>
                \A i \in DOMAIN docs :
                    Cardinality({k \in DOMAIN chunks : chunks[k].doc = i})
                        = Paragraphs(documents[p[i]].text)
===============================================================================
