-------------------------------- MODULE Chunking --------------------------------
(***************************************************************************)
(* What an indexing run makes of prepared documents (src/app/chunking, and *)
(* the calls of IndexingService._run around it): every document is cut into*)
(* units (tokens, characters, sentences or paragraphs), a window slides    *)
(* over the units of one document after the other, and the chunks go into  *)
(* the vector collection and the lexical index under their ids.  A document*)
(* is its id and its number of units; a chunk is a range of units.  Where  *)
(* the documents come from is Ingestion.                                   *)
(***************************************************************************)
EXTENDS Integers, Sequences, FiniteSets

CONSTANTS
    DocIds,         \* document ids, numbered in sorted order
    MaxWindow       \* bound: the window and the stride, in units

ASSUME BoundsAssumption == DocIds \subseteq Nat /\ MaxWindow \in Nat

VARIABLES
    strategy,       \* chunking.strategy
    window, stride, \* the chunker's parameters, in units
    docs,           \* sorted_documents: [doc_id, units]
    d,              \* the document being chunked
    start,          \* where its next window starts
    position,       \* the position of its next chunk
    chunks,         \* the chunks so far
    collection,     \* the vector collection: chunk id -> chunk
    lexicon,        \* the chunks that BM25 ranks, in the order of the run
    stored          \* the run has filled both

parameters == <<strategy, window, stride, docs>>
progress == <<d, start, position, chunks>>
stores == <<collection, lexicon, stored>>
vars == <<parameters, progress, stores>>

Documents == [doc_id : DocIds, units : Nat]

\* doc says which of the run's documents it is: text, in the code.
Chunk == [doc : Nat, doc_id : DocIds, position : Nat, from : Nat, to : Nat]

\* make_chunk_id: one id per document id and position.
ChunkId(c) == <<c.doc_id, c.position>>

\* fixed_60 is a fixed_window whose sizes are derived from the model's.
Strategies == {"fixed_window", "sentence_window", "paragraph"}

TypeOK ==
    /\ strategy \in Strategies
    /\ window \in Nat \ {0} /\ stride \in Nat \ {0}
    /\ docs \in Seq(Documents)
    /\ d \in 1 .. Len(docs) + 1
    /\ start \in Nat /\ position \in Nat
    /\ chunks \in Seq(Chunk)
    /\ \A id \in DOMAIN collection : collection[id] \in Chunk
    /\ lexicon \in Seq(Chunk)
    /\ stored \in BOOLEAN

\* What the constructors of the chunkers accept, and what they make of it: a
\* paragraph of min_chars or more is a unit and a chunk of its own.
MutantFixedWindow == window > 0 /\ \E overlap \in 0 .. window : stride = window - overlap
FixedWindow == window > 0 /\ \E overlap \in 0 .. window - 1 : stride = window - overlap
SentenceWindow == window > 0 /\ stride > 0
Paragraph == window = 1 /\ stride = 1

\* sorted(documents, key = doc_id)
Sorted(s) == \A i \in 1 .. Len(s) - 1 : s[i].doc_id <= s[i + 1].doc_id

\* build_chunker, once per process.
Configured ==
    /\ window \in 0 .. MaxWindow /\ stride \in 0 .. MaxWindow
    /\ \/ strategy = "fixed_window" /\ FixedWindow
       \/ strategy = "sentence_window" /\ SentenceWindow
       \/ strategy = "paragraph" /\ Paragraph

\* A run begins: no chunk yet, a new collection and a new lexical index.
Fresh ==
    /\ d = 1
    /\ start = 0
    /\ position = 0
    /\ chunks = <<>>
    /\ collection = <<>>
    /\ lexicon = <<>>
    /\ stored = FALSE

\* Of any documents; Ingestion has those that files give.
Init ==
    /\ Configured
    /\ docs \in Seq(Documents) /\ Sorted(docs)
    /\ Fresh

-----------------------------------------------------------------------------

Units == docs[d].units
End == IF start + window < Units THEN start + window ELSE Units

NextDocument ==
    /\ d' = d + 1
    /\ start' = 0
    /\ position' = 0

\* One turn of the loop of chunk(): a window, and the last one ends the document.
MutantWindow ==
    /\ d <= Len(docs)
    /\ start < Units
    /\ chunks' = Append(chunks, [doc |-> d, doc_id |-> docs[d].doc_id,
                                 position |-> position, from |-> start, to |-> End])
    /\ start' = start + stride
    /\ position' = position + 1
    /\ UNCHANGED <<d, parameters, stores>>
MutantPosition ==
    /\ d <= Len(docs)
    /\ start < Units
    /\ chunks' = Append(chunks, [doc |-> d, doc_id |-> docs[d].doc_id,
                                 position |-> 0, from |-> start, to |-> End])
    /\ IF End = Units
       THEN NextDocument
       ELSE start' = start + stride /\ position' = position + 1 /\ UNCHANGED d
    /\ UNCHANGED <<parameters, stores>>
MutantShortWindow ==
    /\ d <= Len(docs)
    /\ start < Units
    /\ chunks' = Append(chunks, [doc |-> d, doc_id |-> docs[d].doc_id,
                                 position |-> position, from |-> start, to |-> End])
    /\ IF End >= Units - 1
       THEN NextDocument
       ELSE start' = start + stride /\ position' = position + 1 /\ UNCHANGED d
    /\ UNCHANGED <<parameters, stores>>
MutantOverlap ==
    /\ d <= Len(docs)
    /\ start < Units
    /\ chunks' = Append(chunks, [doc |-> d, doc_id |-> docs[d].doc_id,
                                 position |-> position, from |-> start, to |-> End])
    /\ IF End = Units
       THEN NextDocument
       ELSE start' = start + (window - stride) /\ position' = position + 1 /\ UNCHANGED d
    /\ UNCHANGED <<parameters, stores>>
Window ==
    /\ d <= Len(docs)
    /\ start < Units
    /\ chunks' = Append(chunks, [doc |-> d, doc_id |-> docs[d].doc_id,
                                 position |-> position, from |-> start, to |-> End])
    /\ IF End = Units
       THEN NextDocument
       ELSE start' = start + stride /\ position' = position + 1 /\ UNCHANGED d
    /\ UNCHANGED <<parameters, stores>>

\* The loop's condition fails: no units at all, or a stride beyond the end.
MutantEndOfUnits ==
    /\ d <= Len(docs)
    /\ start = Units
    /\ NextDocument
    /\ UNCHANGED <<chunks, parameters, stores>>
EndOfUnits ==
    /\ d <= Len(docs)
    /\ start >= Units
    /\ NextDocument
    /\ UNCHANGED <<chunks, parameters, stores>>

\* A dict that is filled chunk by chunk: of the chunks with one id it has the last.
ById(cs) ==
    [id \in {ChunkId(cs[i]) : i \in DOMAIN cs} |->
        cs[CHOOSE i \in DOMAIN cs :
              /\ ChunkId(cs[i]) = id
              /\ \A j \in DOMAIN cs : ChunkId(cs[j]) = id => j <= i]]

\* upsert() and build().  The collection has one point per id; BM25 ranks every chunk,
\* and answers with what it finds under its id.
Store ==
    /\ d = Len(docs) + 1
    /\ ~ stored
    /\ collection' = ById(chunks)
    /\ lexicon' = chunks
    /\ stored' = TRUE
    /\ UNCHANGED <<parameters, progress>>

Next == Window \/ EndOfUnits \/ Store

Spec == Init /\ [][Next]_vars

-----------------------------------------------------------------------------
(* Properties. *)

DistinctIds ==
    \A i, j \in DOMAIN docs : docs[i].doc_id = docs[j].doc_id => i = j

\* Unit u of the i-th document is in a chunk that BM25 ranks, and the collection has
\* under its id; and what BM25 answers with, which it looks up by the id, is the chunk.
Findable(i, u) ==
    \E k \in DOMAIN lexicon :
        LET c == lexicon[k]
        IN  /\ c.doc = i /\ c.from <= u /\ u < c.to
            /\ ChunkId(c) \in DOMAIN collection /\ collection[ChunkId(c)] = c
            /\ ById(lexicon)[ChunkId(c)] = c

\* Nothing of a document is lost, if sentence windows are no further apart than
\* they are long, which their constructor leaves open, and no two documents have
\* one id, which file names do not guarantee.
UnitsFindable ==
    stored /\ DistinctIds /\ (strategy = "sentence_window" => stride <= window) =>
        \A i \in DOMAIN docs : \A u \in 0 .. docs[i].units - 1 : Findable(i, u)

\* The chunk_count that the manifest and the response report is the number of
\* points in the collection, if no two documents have one id.
ChunkCountExact ==
    stored /\ DistinctIds => Cardinality(DOMAIN collection) = Len(chunks)

\* The last window of a document ends it: no chunk lies within another, which
\* would rank the same text twice.
NoNestedChunks ==
    \A i, j \in DOMAIN chunks :
        i # j /\ chunks[i].doc = chunks[j].doc
            => ~ (chunks[j].from <= chunks[i].from /\ chunks[i].to <= chunks[j].to)
===============================================================================
