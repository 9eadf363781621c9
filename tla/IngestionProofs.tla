---------------------------- MODULE IngestionProofs ----------------------------
(***************************************************************************)
(* What a request to index files guarantees, for every set of files, every *)
(* text and every number of requests: chunking's properties hold of what   *)
(* files give, every file is accounted for, an append updates, and the     *)
(* corpus is what was indexed.                                             *)
(***************************************************************************)
EXTENDS Ingestion, ListLemmas

-----------------------------------------------------------------------------
(* What chunking guarantees for every window, stride and list of documents: nothing   *)
(* of a document is lost on the way into the stores, chunk counts are exact, and no   *)
(* chunk lies within another.                                                         *)

TypeInv ==
    /\ TypeOK
    /\ strategy # "sentence_window" => stride <= window

\* Where a chunk lies.  The chunks of the document being chunked are full windows
\* that end before the document does.
RangeInv ==
    \A k \in DOMAIN chunks :
        LET c == chunks[k]
        IN  /\ c.doc \in 1 .. Len(docs) /\ c.doc <= d
            /\ c.doc_id = docs[c.doc].doc_id
            /\ c.doc = d => /\ c.position < position
                            /\ c.from < start
                            /\ c.to = c.from + window /\ c.to < Units

\* No two chunks of a document have one position.
PositionInv ==
    \A k, l \in DOMAIN chunks :
        chunks[k].doc = chunks[l].doc /\ chunks[k].position = chunks[l].position
            => k = l

Covered(i, u) ==
    \E k \in DOMAIN chunks :
        chunks[k].doc = i /\ chunks[k].from <= u /\ u < chunks[k].to

\* What is behind the window is in a chunk.
CoverInv ==
    stride <= window =>
        \A i \in 1 .. Len(docs), u \in Nat :
            u < docs[i].units /\ (i < d \/ (i = d /\ u < start)) => Covered(i, u)

StoreInv ==
    stored => d = Len(docs) + 1 /\ collection = ById(chunks) /\ lexicon = chunks

IInv == TypeInv /\ RangeInv /\ PositionInv /\ CoverInv /\ NoNestedChunks /\ StoreInv

-----------------------------------------------------------------------------
(* The stores. *)

\* A non-empty set of indices has a last one.
LEMMA LastExists ==
    ASSUME NEW n \in Nat, NEW I, I \subseteq 1 .. n, I # {}
    PROVE  \E i \in I : \A j \in I : j <= i
<1> DEFINE T == {n - i : i \in I}
<1>1. T \subseteq Nat /\ T # {}
  <2>1. \A i \in I : n - i \in Nat
    OBVIOUS
  <2> QED
    BY <2>1
<1>2. \E x \in T : \A y \in T : ~ (<<y, x>> \in OpToRel(<, Nat))
  BY <1>1, NatLessThanWellFounded, WFMin
<1>3. PICK x \in T : \A y \in T : ~ (y < x)
  BY <1>1, <1>2 DEF OpToRel
<1>4. PICK i \in I : x = n - i
  OBVIOUS
<1>5. \A j \in I : n - j \in T /\ j \in 1 .. n
  OBVIOUS
<1>6. \A j \in I : ~ (n - j < n - i)
  BY <1>3, <1>4, <1>5
<1> HIDE DEF T
<1>7. \A j \in I : j <= i
  BY <1>5, <1>6
<1> QED
  BY <1>7

\* A dict by id holds, under each id, a chunk that has it.
LEMMA ByIdFacts ==
    ASSUME NEW cs \in Seq(Chunk), NEW id \in DOMAIN ById(cs)
    PROVE  \E i \in DOMAIN cs : ById(cs)[id] = cs[i] /\ ChunkId(cs[i]) = id
<1> DEFINE I == {i \in DOMAIN cs : ChunkId(cs[i]) = id}
<1>1. I # {} /\ I \subseteq 1 .. Len(cs)
  BY DEF ById
<1>2. \E i \in I : \A j \in I : j <= i
  BY <1>1, LastExists, LenProperties
<1>3. \E i \in DOMAIN cs : /\ ChunkId(cs[i]) = id
                           /\ \A j \in DOMAIN cs : ChunkId(cs[j]) = id => j <= i
  BY <1>2
<1> QED
  BY <1>3 DEF ById

-----------------------------------------------------------------------------
(* Types. *)

\* A run begins.
LEMMA FreshIInv == Configured /\ Fresh /\ docs \in Seq(Documents) => IInv
<1> SUFFICES ASSUME Configured, Fresh, docs \in Seq(Documents) PROVE IInv
  OBVIOUS
<1>3. Len(docs) \in Nat /\ chunks = <<>> /\ DOMAIN chunks = {}
  BY LenProperties DEF Configured, Fresh
<1>4. TypeInv
  <2>1. window \in Nat \ {0} /\ stride \in Nat \ {0}
    BY BoundsAssumption DEF Configured, Fresh, FixedWindow, SentenceWindow, Paragraph
  <2>2. strategy # "sentence_window" => stride <= window
    BY <2>1 DEF Configured, Fresh, FixedWindow, Paragraph
  <2>3. strategy \in Strategies
    BY DEF Configured, Fresh, Strategies
  <2>4. chunks \in Seq(Chunk) /\ DOMAIN collection = {} /\ lexicon \in Seq(Chunk)
    BY EmptySeq DEF Configured, Fresh
  <2>5. d \in 1 .. Len(docs) + 1 /\ start \in Nat /\ position \in Nat
    BY <1>3 DEF Configured, Fresh
  <2>6. stored \in BOOLEAN
    BY DEF Configured, Fresh
  <2> QED
    BY <2>1, <2>2, <2>3, <2>4, <2>5, <2>6 DEF TypeInv, TypeOK
<1>5. RangeInv /\ PositionInv /\ NoNestedChunks
  BY <1>3 DEF RangeInv, PositionInv, NoNestedChunks
<1>6. CoverInv
  BY <1>3 DEF CoverInv, Configured, Fresh
<1>7. StoreInv
  BY DEF StoreInv, Configured, Fresh
<1> QED
  BY <1>4, <1>5, <1>6, <1>7 DEF IInv

LEMMA InitIInv == Init => IInv
BY FreshIInv DEF Init

\* The chunk a window makes, and the state it is made in.
NewChunk == [doc |-> d, doc_id |-> docs[d].doc_id,
             position |-> position, from |-> start, to |-> End]

LEMMA WindowFacts ==
    ASSUME IInv, Window
    PROVE  /\ d \in 1 .. Len(docs) /\ Len(docs) \in Nat /\ Units \in Nat
           /\ start < Units /\ End \in Nat /\ start < End /\ End <= Units
           /\ End = start + window \/ End = Units
           /\ End <= start + window
           /\ NewChunk \in Chunk
           /\ Len(chunks) \in Nat /\ DOMAIN chunks = 1 .. Len(chunks)
           /\ chunks' \in Seq(Chunk)
           /\ DOMAIN chunks' = 1 .. Len(chunks) + 1
           /\ \A k \in 1 .. Len(chunks) : chunks'[k] = chunks[k]
           /\ chunks'[Len(chunks) + 1] = NewChunk
           /\ UNCHANGED <<parameters, stores>>
           /\ \/ End = Units /\ d' = d + 1 /\ start' = 0 /\ position' = 0
              \/ /\ End # Units /\ d' = d
                 /\ start' = start + stride /\ position' = position + 1
<1>1. /\ docs \in Seq(Documents) /\ Len(docs) \in Nat /\ d \in 1 .. Len(docs)
      /\ chunks \in Seq(Chunk) /\ start \in Nat /\ position \in Nat
      /\ window \in Nat \ {0} /\ stride \in Nat \ {0}
  BY LenProperties DEF IInv, TypeInv, TypeOK, Window
<1>2. docs[d] \in Documents
  BY <1>1, ElementOfSeq
<1>3. Units \in Nat /\ docs[d].doc_id \in DocIds /\ start < Units
  BY <1>2, BoundsAssumption DEF Units, Documents, Window
<1>4. End \in Nat /\ start < End /\ End <= Units /\ End <= start + window
      /\ (End = start + window \/ End = Units)
  BY <1>1, <1>3 DEF End
<1>5. NewChunk \in Chunk
  BY <1>1, <1>3, <1>4 DEF NewChunk, Chunk
<1>6. chunks' = Append(chunks, NewChunk)
  BY DEF Window, NewChunk
<1>7. /\ chunks' \in Seq(Chunk) /\ DOMAIN chunks' = 1 .. Len(chunks) + 1
      /\ \A k \in 1 .. Len(chunks) : chunks'[k] = chunks[k]
      /\ chunks'[Len(chunks) + 1] = NewChunk
      /\ Len(chunks) \in Nat /\ DOMAIN chunks = 1 .. Len(chunks)
  BY <1>1, <1>5, <1>6, AppendProperties, LenProperties
<1>8. UNCHANGED <<parameters, stores>> /\
      \/ End = Units /\ d' = d + 1 /\ start' = 0 /\ position' = 0
      \/ End # Units /\ d' = d /\ start' = start + stride /\ position' = position + 1
  BY DEF Window, NextDocument
<1> QED
  BY <1>1, <1>3, <1>4, <1>5, <1>7, <1>8

-----------------------------------------------------------------------------
(* A window. *)

LEMMA WindowStep == IInv /\ Window => IInv'
<1> SUFFICES ASSUME IInv, Window PROVE IInv'
  OBVIOUS
<1>1. /\ start \in Nat /\ position \in Nat
      /\ window \in Nat \ {0} /\ stride \in Nat \ {0}
      /\ chunks \in Seq(Chunk)
      /\ \A k \in DOMAIN chunks : chunks[k] \in Chunk
      /\ docs \in Seq(Documents)
  BY ElementOfSeq, LenProperties DEF IInv, TypeInv, TypeOK
<1>0. \A k \in DOMAIN chunks :
         /\ chunks[k].doc \in 1 .. Len(docs) /\ chunks[k].doc <= d
         /\ chunks[k].doc_id = docs[chunks[k].doc].doc_id
         /\ chunks[k].position \in Nat /\ chunks[k].from \in Nat /\ chunks[k].to \in Nat
         /\ chunks[k].doc = d =>
               /\ chunks[k].position < position /\ chunks[k].from < start
               /\ chunks[k].to = chunks[k].from + window
               /\ chunks[k].to < Units
  BY <1>1 DEF IInv, RangeInv, Chunk
<1>2. /\ strategy' = strategy /\ window' = window /\ stride' = stride /\ docs' = docs
      /\ collection' = collection /\ lexicon' = lexicon /\ stored' = stored
  BY WindowFacts DEF parameters, stores
<1>3. \A k \in DOMAIN chunks' : k \in DOMAIN chunks \/ k = Len(chunks) + 1
  BY WindowFacts
<1>4. TypeInv'
  <2>1. chunks' \in Seq(Chunk)
    BY WindowFacts
  <2>2. d' \in 1 .. Len(docs) + 1 /\ start' \in Nat /\ position' \in Nat
    <3>1. d \in 1 .. Len(docs) /\ Len(docs) \in Nat
      BY WindowFacts
    <3>2. \/ d' = d + 1 /\ start' = 0 /\ position' = 0
          \/ d' = d /\ start' = start + stride /\ position' = position + 1
      BY WindowFacts
    <3> QED
      BY <1>1, <3>1, <3>2
  <2>3. /\ strategy \in Strategies /\ lexicon \in Seq(Chunk) /\ stored \in BOOLEAN
        /\ \A id \in DOMAIN collection : collection[id] \in Chunk
        /\ strategy # "sentence_window" => stride <= window
    BY DEF IInv, TypeInv, TypeOK
  <2> QED
    BY ONLY <1>1, <1>2, <2>1, <2>2, <2>3 DEF TypeInv, TypeOK
<1>5. RangeInv'
  <2> SUFFICES ASSUME NEW k \in DOMAIN chunks'
      PROVE  /\ chunks'[k].doc \in 1 .. Len(docs) /\ chunks'[k].doc <= d'
             /\ chunks'[k].doc_id = docs[chunks'[k].doc].doc_id
             /\ chunks'[k].doc = d' =>
                   /\ chunks'[k].position < position' /\ chunks'[k].from < start'
                   /\ chunks'[k].to = chunks'[k].from + window
                   /\ chunks'[k].to < docs[d'].units
    BY <1>2 DEF RangeInv, Units
  <2>1. CASE k \in DOMAIN chunks
    <3>1. chunks'[k] = chunks[k]
      BY <2>1, WindowFacts
    <3>2. CASE d' = d + 1
      <4>1. /\ chunks[k].doc \in 1 .. Len(docs)
            /\ chunks[k].doc_id = docs[chunks[k].doc].doc_id
        BY <1>0, <2>1
      <4>2. chunks[k].doc <= d' /\ chunks[k].doc # d'
        BY <1>0, <2>1, <3>2, WindowFacts
      <4> QED
        BY <3>1, <4>1, <4>2
    <3>3. CASE d' = d /\ start' = start + stride /\ position' = position + 1
      <4>1. chunks[k].doc = d => chunks[k].from < start' /\ chunks[k].position < position'
        BY <1>0, <1>1, <2>1, <3>3
      <4> QED
        BY <1>0, <2>1, <3>1, <3>3, <4>1 DEF Units
    <3> QED
      BY <3>2, <3>3, WindowFacts
  <2>2. CASE k = Len(chunks) + 1
    <3>1. /\ chunks'[k].doc = d /\ chunks'[k].doc_id = docs[d].doc_id
          /\ chunks'[k].position = position /\ chunks'[k].from = start /\ chunks'[k].to = End
      BY <2>2, WindowFacts DEF NewChunk
    <3>2. /\ d \in 1 .. Len(docs) /\ Units \in Nat /\ Len(docs) \in Nat
          /\ End # Units => End = start + window /\ End < Units
          /\ \/ d' = d + 1
             \/ End # Units /\ d' = d /\ start' = start + stride /\ position' = position + 1
      BY <1>1, WindowFacts, LenProperties
    <3>3. CASE d' = d + 1
      BY <3>1, <3>2, <3>3
    <3>4. CASE End # Units /\ d' = d /\ start' = start + stride /\ position' = position + 1
      BY <1>1, <3>1, <3>2, <3>4 DEF Units
    <3> QED
      BY <3>2, <3>3, <3>4
  <2> QED
    BY <1>3, <2>1, <2>2
<1>6. \A k \in DOMAIN chunks : /\ chunks'[k] = chunks[k]
                               /\ chunks[k].doc = d => chunks[k].position # position
  <2>1. \A k \in DOMAIN chunks : chunks'[k] = chunks[k]
    BY WindowFacts
  <2>2. \A k \in DOMAIN chunks : chunks[k].doc = d => chunks[k].position # position
    BY <1>0, <1>1
  <2> QED
    BY <2>1, <2>2
<1>7. PositionInv'
  <2>1. /\ chunks'[Len(chunks) + 1].doc = d
        /\ chunks'[Len(chunks) + 1].position = position
    BY WindowFacts DEF NewChunk
  <2>2. \A k, l \in DOMAIN chunks :
           chunks[k].doc = chunks[l].doc /\ chunks[k].position = chunks[l].position
              => k = l
    BY DEF IInv, PositionInv
  <2> QED
    BY <1>3, <1>6, <2>1, <2>2 DEF PositionInv
<1>8. NoNestedChunks'
  <2> SUFFICES ASSUME NEW k \in DOMAIN chunks', NEW l \in DOMAIN chunks', k # l,
                      chunks'[k].doc = chunks'[l].doc,
                      chunks'[l].from <= chunks'[k].from, chunks'[k].to <= chunks'[l].to
               PROVE  FALSE
    BY DEF NoNestedChunks
  <2>1. CASE k \in DOMAIN chunks /\ l \in DOMAIN chunks
    BY <1>6, <2>1 DEF IInv, NoNestedChunks
  <2>2. ASSUME NEW m \in DOMAIN chunks, chunks[m].doc = d
        PROVE  chunks[m].from < start /\ chunks[m].to < End
    <3>1. /\ chunks[m].from < start /\ chunks[m].to = chunks[m].from + window
          /\ chunks[m].to < Units
          /\ chunks[m].from \in Nat
      BY <1>0, <2>2
    <3>2. Units \in Nat /\ (End = start + window \/ End = Units)
      BY WindowFacts
    <3> QED
      BY <1>1, <3>1, <3>2
  <2>3. CASE k \in DOMAIN chunks /\ l = Len(chunks) + 1
    <3>1. chunks[k].doc = d /\ start <= chunks[k].from
      BY <1>6, <2>3, WindowFacts DEF NewChunk
    <3> QED
      BY <1>1, <2>2, <2>3, <3>1 DEF Chunk
  <2>4. CASE l \in DOMAIN chunks /\ k = Len(chunks) + 1
    <3>1. chunks[l].doc = d /\ End <= chunks[l].to
      BY <1>6, <2>4, WindowFacts DEF NewChunk
    <3>2. End \in Int /\ chunks[l].to \in Int
      BY <1>0, <1>1, <2>4, WindowFacts
    <3> QED
      BY <2>2, <2>4, <3>1, <3>2
  <2> QED
    BY <1>3, <2>1, <2>3, <2>4
<1>9. CoverInv'
  <2> SUFFICES ASSUME stride <= window, NEW i \in 1 .. Len(docs), NEW u \in Nat,
                      u < docs[i].units, i < d' \/ (i = d' /\ u < start')
               PROVE  Covered(i, u)'
    BY <1>2 DEF CoverInv
  <2>1. ASSUME Covered(i, u) PROVE Covered(i, u)'
    BY <1>6, <2>1, WindowFacts DEF Covered
  <2>2. ASSUME i = d, start <= u, u < End PROVE Covered(i, u)'
    BY <2>2, WindowFacts DEF Covered, NewChunk
  <2>3. CASE i < d \/ (i = d /\ u < start)
    BY <2>1, <2>3 DEF IInv, CoverInv
  <2>4. CASE ~ (i < d) /\ ~ (i = d /\ u < start)
    <3>1. i = d /\ start <= u
      BY <1>1, <2>4, WindowFacts
    <3>2. u < End
      BY <1>1, <3>1, WindowFacts DEF Units
    <3> QED
      BY <2>2, <3>1, <3>2
  <2> QED
    BY <2>3, <2>4
<1>10. StoreInv'
  BY <1>2, WindowFacts DEF IInv, StoreInv
<1> QED
  BY <1>4, <1>5, <1>7, <1>8, <1>9, <1>10 DEF IInv

-----------------------------------------------------------------------------
(* The other steps. *)

LEMMA EndStep == IInv /\ EndOfUnits => IInv'
<1> SUFFICES ASSUME IInv, EndOfUnits PROVE IInv'
  OBVIOUS
<1>1. /\ docs \in Seq(Documents) /\ Len(docs) \in Nat /\ d \in 1 .. Len(docs)
      /\ start \in Nat /\ Units <= start
      /\ \A k \in DOMAIN chunks : chunks[k] \in Chunk
      /\ \A i \in 1 .. Len(docs) : docs[i] \in Documents
  BY ElementOfSeq, LenProperties DEF IInv, TypeInv, TypeOK, EndOfUnits
<1>2. /\ d' = d + 1 /\ start' = 0 /\ position' = 0 /\ chunks' = chunks
      /\ UNCHANGED <<parameters, stores>>
  BY DEF EndOfUnits, NextDocument
<1>3. TypeInv'
  BY <1>1, <1>2 DEF IInv, TypeInv, TypeOK, parameters, stores
<1>4. RangeInv'
  BY <1>1, <1>2 DEF IInv, RangeInv, parameters, Chunk
<1>5. PositionInv' /\ NoNestedChunks'
  BY <1>2 DEF IInv, PositionInv, NoNestedChunks
<1>6. CoverInv'
  BY <1>1, <1>2, BoundsAssumption DEF IInv, CoverInv, Covered, Units, parameters, Documents
<1>7. StoreInv'
  BY <1>1, <1>2 DEF IInv, StoreInv, stores, parameters
<1> QED
  BY <1>3, <1>4, <1>5, <1>6, <1>7 DEF IInv

LEMMA StoreStep == IInv /\ Store => IInv'
<1> SUFFICES ASSUME IInv, Store PROVE IInv'
  OBVIOUS
<1>1. chunks \in Seq(Chunk) /\ \A k \in DOMAIN chunks : chunks[k] \in Chunk
  BY ElementOfSeq, LenProperties DEF IInv, TypeInv, TypeOK
<1>2. \A id \in DOMAIN ById(chunks) : ById(chunks)[id] \in Chunk
  BY <1>1, ByIdFacts
<1>3. TypeInv'
  BY <1>1, <1>2 DEF IInv, TypeInv, TypeOK, Store, parameters, progress
<1>4. RangeInv' /\ PositionInv' /\ NoNestedChunks' /\ CoverInv'
  BY DEF IInv, RangeInv, PositionInv, NoNestedChunks, CoverInv, Covered, Store,
         parameters, progress, Units
<1>5. StoreInv'
  BY DEF StoreInv, Store, parameters, progress
<1> QED
  BY <1>3, <1>4, <1>5 DEF IInv

LEMMA IInvStep == IInv /\ [Next]_vars => IInv'
<1>1. IInv /\ UNCHANGED vars => IInv'
  BY DEF IInv, TypeInv, TypeOK, RangeInv, PositionInv, NoNestedChunks, CoverInv, Covered,
         StoreInv, vars, parameters, progress, stores, Units
<1> QED
  BY <1>1, WindowStep, EndStep, StoreStep DEF Next

\* The variables keep their types, the window and the stride stay positive.
THEOREM TypeCorrect == Spec => []TypeOK
<1>1. IInv => TypeOK
  BY DEF IInv, TypeInv
<1> QED
  BY <1>1, InitIInv, IInvStep, PTL DEF Spec

\* No chunk of a document lies within another one, for all windows and strides.
THEOREM ChunksNotNested == Spec => []NoNestedChunks
<1>1. IInv => NoNestedChunks
  BY DEF IInv
<1> QED
  BY <1>1, InitIInv, IInvStep, PTL DEF Spec

\* With distinct document ids, chunks have distinct ids.
LEMMA IdsDistinct ==
    ASSUME IInv, DistinctIds
    PROVE  \A k, l \in DOMAIN chunks : ChunkId(chunks[k]) = ChunkId(chunks[l]) => k = l
<1> SUFFICES ASSUME NEW k \in DOMAIN chunks, NEW l \in DOMAIN chunks,
                    ChunkId(chunks[k]) = ChunkId(chunks[l])
             PROVE  k = l
  OBVIOUS
<1>1. /\ chunks[k].doc_id = chunks[l].doc_id
      /\ chunks[k].position = chunks[l].position
  BY DEF ChunkId
<1>2. /\ chunks[k].doc \in DOMAIN docs /\ chunks[l].doc \in DOMAIN docs
      /\ docs[chunks[k].doc].doc_id = docs[chunks[l].doc].doc_id
  BY <1>1, LenProperties DEF IInv, RangeInv, TypeInv, TypeOK
<1>3. chunks[k].doc = chunks[l].doc
  BY <1>2 DEF DistinctIds
<1> QED
  BY <1>1, <1>3 DEF IInv, PositionInv

LEMMA FindableInv == IInv => UnitsFindable
<1> SUFFICES ASSUME IInv, stored, DistinctIds,
                    strategy = "sentence_window" => stride <= window,
                    NEW i \in DOMAIN docs, NEW u \in 0 .. docs[i].units - 1
             PROVE  Findable(i, u)
  BY DEF UnitsFindable
<1>1. /\ docs \in Seq(Documents) /\ i \in 1 .. Len(docs) /\ Len(docs) \in Nat
      /\ docs[i] \in Documents
      /\ chunks \in Seq(Chunk)
  BY LenProperties, ElementOfSeq DEF IInv, TypeInv, TypeOK
<1>2. u \in Nat /\ u < docs[i].units /\ i < d /\ stride <= window
  BY <1>1, BoundsAssumption DEF IInv, StoreInv, TypeInv, Documents
<1>3. PICK k \in DOMAIN chunks :
         chunks[k].doc = i /\ chunks[k].from <= u /\ u < chunks[k].to
  BY <1>1, <1>2 DEF IInv, CoverInv, Covered
<1>4. ChunkId(chunks[k]) \in DOMAIN ById(chunks)
  BY DEF ById
<1>5. ById(chunks)[ChunkId(chunks[k])] = chunks[k]
  BY <1>1, <1>4, ByIdFacts, IdsDistinct
<1> QED
  BY <1>3, <1>4, <1>5 DEF IInv, StoreInv, Findable

LEMMA CountInv == IInv => ChunkCountExact
<1> SUFFICES ASSUME IInv, stored, DistinctIds
             PROVE  Cardinality(DOMAIN collection) = Len(chunks)
  BY DEF ChunkCountExact
<1> DEFINE S == 1 .. Len(chunks)
           T == {ChunkId(chunks[k]) : k \in S}
           f == [k \in S |-> ChunkId(chunks[k])]
<1>1. chunks \in Seq(Chunk) /\ Len(chunks) \in Nat /\ DOMAIN chunks = S
  BY LenProperties DEF IInv, TypeInv, TypeOK
<1>2. DOMAIN collection = T
  BY <1>1 DEF IInv, StoreInv, ById
<1>3. f \in Bijection(S, T)
  <2>1. f \in [S -> T] /\ \A t \in T : \E k \in S : f[k] = t
    OBVIOUS
  <2>2. \A k, l \in S : f[k] = f[l] => k = l
    BY <1>1, IdsDistinct
  <2> QED
    BY <2>1, <2>2 DEF Bijection, Injection, Surjection, IsInjective
<1>4. IsFiniteSet(S) /\ Cardinality(S) = Len(chunks)
  BY <1>1, FS_Interval
<1>5. Cardinality(T) = Cardinality(S)
  BY <1>3, <1>4, FS_Bijection DEF ExistsBijection
<1> QED
  BY <1>2, <1>4, <1>5

\* Every unit of every document ends up in both stores, for all windows and
\* strides that leave no gap, if the document ids are distinct.
THEOREM NothingLost == Spec => []UnitsFindable
BY FindableInv, InitIInv, IInvStep, PTL DEF Spec

\* The collection has as many points as the run counts chunks, if the document
\* ids are distinct.
THEOREM CountExact == Spec => []ChunkCountExact
BY CountInv, InitIInv, IInvStep, PTL DEF Spec

-----------------------------------------------------------------------------
(* What requests guarantee. *)

\* The handler has chosen the documents to index and has not failed.
Chosen == stage \in {"prepare", "run", "respond"} \/ Succeeded

TypeInvariant ==
    /\ IngestTypeOK
    /\ Configured
    /\ IInv
    /\ Len(files) <= MaxFiles

StageInv ==
    /\ stage \in {"load", "begin", "merge", "prepare"} => Fresh /\ docs = <<>>
    /\ stage \in {"load", "begin"} => documents = <<>>
    /\ stage \notin {"load", "done"} => raw_docs # <<>>
    /\ stage = "load" => next <= Len(files) + 1
    /\ stage = "merge" => mode = "append" /\ next <= Len(Merging)
    /\ mode = "replace" /\ Chosen => documents = raw_docs
    /\ stage = "respond" \/ Succeeded => stored /\ corpus = documents
    /\ Succeeded => answer.chunk_count = Len(chunks)

\* The documents indexed are the ones chosen.
PreparedInv ==
    stage \in {"run", "respond"} \/ Succeeded =>
        \E p \in [DOMAIN documents -> DOMAIN documents] :
            StableOrder(p, documents) /\ docs = PreparedBy(p, documents)

\* The files read, and what has become of one.
Seen == IF stage = "load" THEN next - 1 ELSE Len(files)

\* File i gave a document, and one of the same id after it is a later file's.
Given(i) ==
    \E k \in DOMAIN raw_docs :
        /\ raw_docs[k] = DocumentOf(files[i])
        /\ \A l \in k + 1 .. Len(raw_docs) :
              raw_docs[l].doc_id = files[i].stem =>
                  \E j \in i + 1 .. Len(files) :
                      Readable(files[j]) /\ files[j].stem = files[i].stem

LoadInv ==
    /\ errors \subseteq 0 .. Seen
    /\ \A i \in 1 .. Seen :
          IF Readable(files[i])
          THEN i \notin errors /\ Given(i)
          ELSE i \in errors \/ (endpoint = "folder" /\ ~ files[i].supported)

\* documents merges the first m of Merging: each id once, with its last document.
Merged(m) ==
    /\ \A i, j \in DOMAIN documents : documents[i].doc_id = documents[j].doc_id => i = j
    /\ \A k \in 1 .. m : Supplies(documents, Merging[k].doc_id)
    /\ \A i \in DOMAIN documents :
          \E k \in 1 .. m : /\ Merging[k] = documents[i]
                            /\ \A l \in k + 1 .. m : Merging[l].doc_id # documents[i].doc_id

MergeInv ==
    /\ stage = "merge" => Merged(next - 1)
    /\ mode = "append" /\ Chosen => Merged(Len(Merging))

IngestInv == TypeInvariant /\ StageInv /\ PreparedInv /\ LoadInv /\ MergeInv

-----------------------------------------------------------------------------
(* What the operators give. *)

\* A text has a length, and cleaning keeps it: what collapse_whitespace takes away is
\* no unit.
LEMMA LengthFacts ==
    ASSUME NEW text \in Texts
    PROVE  Length(text) \in Nat /\ Length(Clean(text)) = Length(text)
<1>1. /\ text \in Seq(Nat \ {0}) /\ DOMAIN text = 1 .. Len(text)
      /\ IsFiniteSet(DOMAIN text) /\ \A i \in DOMAIN text : text[i] \in Nat /\ text[i] \in Int
  <2>1. text \in Seq(Nat \ {0}) /\ DOMAIN text = 1 .. Len(text) /\ Len(text) \in Nat
    BY FilesAssumption, LenProperties
  <2> QED
    BY <2>1, FS_Interval, ElementOfSeq
<1>2. Length(text) \in Nat
  BY <1>1, SumType DEF Length, SumFunction
<1>3. CASE text = <<>>
  BY <1>2, <1>3 DEF Clean
<1>4. CASE text # <<>>
  <2> DEFINE n == Length(text)
  <2> HIDE DEF n
  <2>1. DOMAIN <<n>> = {1} /\ <<n>>[1] = n /\ IsFiniteSet({1}) /\ {1} # {}
    <3>1. DOMAIN <<n>> = {1} /\ <<n>>[1] = n
      OBVIOUS
    <3> QED
      BY <3>1, FS_Singleton
  <2>2. FirstOf({1}) = 1 /\ {1} \ {FirstOf({1})} = {}
    BY DEF FirstOf
  <2>3. SumFunctionOnSet(<<n>>, {}) = 0
    BY SumStep, FS_EmptySet
  <2>4. SumFunctionOnSet(<<n>>, {1}) = n + 0
    BY <2>1, <2>2, <2>3, SumStep
  <2>5. Length(<<n>>) = n
    BY <1>2, <2>1, <2>4 DEF Length, SumFunction, n
  <2> QED
    BY <1>2, <1>4, <2>5 DEF Clean, n
<1> QED
  BY <1>2, <1>3, <1>4

LEMMA UnitsOfCleanType ==
    ASSUME NEW text \in Texts PROVE UnitsOf(Clean(text)) \in Nat
<1>1. Length(Clean(text)) \in Nat
  BY LengthFacts
<1>2. Paragraphs(Clean(text)) \in Nat
  <2> DEFINE P == {p \in DOMAIN Clean(text) : Clean(text)[p] >= MinSize}
  <2>1. DOMAIN Clean(text) \subseteq {1}
    BY DEF Clean
  <2>2. IsFiniteSet({1})
    BY FS_Singleton
  <2>3. IsFiniteSet(P)
    BY <2>1, <2>2, FS_Subset
  <2> QED
    BY <2>3, FS_CardinalityType DEF Paragraphs
<1> QED
  BY <1>1, <1>2 DEF UnitsOf

LEMMA PreparedType ==
    ASSUME NEW ds \in Seq(Document), NEW p \in [DOMAIN ds -> DOMAIN ds]
    PROVE  PreparedBy(p, ds) \in Seq(Documents)
<1>1. Len(ds) \in Nat /\ DOMAIN ds = 1 .. Len(ds) /\ \A i \in DOMAIN ds : ds[i] \in Document
  BY LenProperties, ElementOfSeq
<1>2. \A i \in DOMAIN ds : ds[p[i]].doc_id \in DocIds /\ ds[p[i]].text \in Texts
  BY <1>1 DEF Document
<1>3. \A i \in DOMAIN ds : [doc_id |-> ds[p[i]].doc_id,
                            units |-> UnitsOf(Clean(ds[p[i]].text))] \in Documents
  BY <1>2, UnitsOfCleanType DEF Documents
<1>4. PreparedBy(p, ds) \in [1 .. Len(ds) -> Documents]
  BY <1>1, <1>3 DEF PreparedBy
<1> QED
  BY <1>1, <1>4, IsASeq

\* doc replaces the document with the same id, or is added at the end.
PutInto(ds, doc, result) ==
    /\ result \in Seq(Document)
    /\ \A i \in DOMAIN ds :
          /\ i \in DOMAIN result
          /\ result[i] = IF ds[i].doc_id = doc.doc_id THEN doc ELSE ds[i]
    /\ \A i \in DOMAIN result :
          \/ i \in DOMAIN ds
          \/ /\ result[i] = doc /\ i = Len(ds) + 1
             /\ \A j \in DOMAIN ds : ds[j].doc_id # doc.doc_id
    /\ \E i \in DOMAIN result : result[i] = doc

LEMMA PutFacts ==
    ASSUME NEW ds \in Seq(Document), NEW doc \in Document
    PROVE  PutInto(ds, doc, Put(ds, doc))
<1>1. Len(ds) \in Nat /\ DOMAIN ds = 1 .. Len(ds) /\ \A i \in DOMAIN ds : ds[i] \in Document
  BY LenProperties, ElementOfSeq
<1>2. CASE \E i \in DOMAIN ds : ds[i].doc_id = doc.doc_id
  <2>1. Put(ds, doc) = [i \in 1 .. Len(ds) |-> IF ds[i].doc_id = doc.doc_id THEN doc ELSE ds[i]]
    BY <1>1, <1>2 DEF Put
  <2>2. Put(ds, doc) \in [1 .. Len(ds) -> Document]
    BY <1>1, <2>1
  <2>3. Put(ds, doc) \in Seq(Document)
    BY <1>1, <2>2, IsASeq
  <2> QED
    BY <1>1, <1>2, <2>1, <2>3 DEF PutInto
<1>3. CASE ~ \E i \in DOMAIN ds : ds[i].doc_id = doc.doc_id
  <2>1. Put(ds, doc) = Append(ds, doc)
    BY <1>3 DEF Put
  <2>2. /\ Append(ds, doc) \in Seq(Document)
        /\ DOMAIN Append(ds, doc) = 1 .. Len(ds) + 1
        /\ \A i \in 1 .. Len(ds) : Append(ds, doc)[i] = ds[i]
        /\ Append(ds, doc)[Len(ds) + 1] = doc
    BY <1>1, AppendProperties, LenProperties
  <2> QED
    BY <1>1, <1>3, <2>1, <2>2 DEF PutInto
<1> QED
  BY <1>2, <1>3

\* Sorting by id, equal ids in the order given, has one result: an order by one key
\* that a stable sort completes with the position.
LEMMA OneStableOrder ==
    ASSUME NEW ds \in Seq(Document)
    PROVE  \E p : {q \in [DOMAIN ds -> DOMAIN ds] : StableOrder(q, ds)} = {p}
<1> DEFINE S == DOMAIN ds
           key(i) == ds[i].doc_id
           First(i, j) == key(i) < key(j) \/ (key(i) = key(j) /\ i < j)
           R == {pair \in S \X S : First(pair[1], pair[2])}
<1>1. Len(ds) \in Nat /\ S = 1 .. Len(ds) /\ IsFiniteSet(S) /\ Cardinality(S) = Len(ds)
  <2>1. Len(ds) \in Nat /\ Len(ds) \in Int /\ 1 \in Int /\ S = 1 .. Len(ds)
    BY LenProperties
  <2> QED
    BY <2>1, FS_Interval
<1>2. \A i \in S : i \in Int /\ key(i) \in Int
  <2>1. \A i \in S : ds[i] \in Document
    BY <1>1, ElementOfSeq
  <2>2. \A i \in S : ds[i].doc_id \in DocIds
    BY <2>1 DEF Document
  <2>3. \A x \in DocIds : x \in Int
    BY BoundsAssumption
  <2> HIDE DEF S
  <2>4. \A i \in S : i \in Int
    BY <1>1
  <2> QED
    BY <2>2, <2>3, <2>4
<1>3. \A i, j \in S : <<i, j>> \in R <=> First(i, j)
  OBVIOUS
<1>4. StrictTotalOrder(R, S)
  <2> HIDE DEF key, R, S
  <2> QED
    BY <1>2, <1>3 DEF StrictTotalOrder
<1>5. {q \in [S -> S] : StableOrder(q, ds)} = SortedLists(R, S)
  <2>1. ASSUME NEW q \in [S -> S]
        PROVE  StableOrder(q, ds) <=> \A i, j \in S : i < j => <<q[i], q[j]>> \in R
    BY DEF StableOrder
  <2>2. ASSUME NEW q \in [S -> S], \A i, j \in S : i < j => <<q[i], q[j]>> \in R
        PROVE  \A i, j \in S : i # j => q[i] # q[j]
    <3> HIDE DEF R, S
    <3>1. \A i \in S : <<q[i], q[i]>> \notin R
      BY <1>4 DEF StrictTotalOrder
    <3>2. \A i, j \in S : i < j => q[i] # q[j]
      BY <2>2, <3>1
    <3> QED
      BY <1>2, <3>2
  <2>3. SortedLists(R, S) = {q \in [S -> S] : /\ \A i, j \in S : i # j => q[i] # q[j]
                                              /\ \A i, j \in S : i < j => <<q[i], q[j]>> \in R}
    <3> HIDE DEF R
    <3> QED
      BY <1>1 DEF SortedLists, SetToSeqs
  <2> HIDE DEF R, S
  <2> QED
    BY <2>1, <2>2, <2>3
<1> HIDE DEF R, S
<1>6. \E p : SortedLists(R, S) = {p}
  BY <1>1, <1>4, SortedOnce
<1> QED
  BY <1>5, <1>6 DEF S

LEMMA FileListType ==
    ASSUME NEW fs \in FileLists PROVE fs \in Seq(Files) /\ Len(fs) <= MaxFiles
<1>1. PICK n \in 0 .. MaxFiles : fs \in [1 .. n -> Files]
  BY DEF FileLists
<1> QED
  BY <1>1, FilesAssumption

-----------------------------------------------------------------------------
(* Facts of a state of the invariant. *)

LEMMA StateFacts ==
    ASSUME IngestInv
    PROVE  /\ Len(files) \in Nat /\ DOMAIN files = 1 .. Len(files)
           /\ \A i \in 1 .. Len(files) : files[i] \in Files
           /\ Len(raw_docs) \in Nat /\ DOMAIN raw_docs = 1 .. Len(raw_docs)
           /\ \A i \in 1 .. Len(raw_docs) : raw_docs[i] \in Document
           /\ Len(existing) \in Nat /\ DOMAIN existing = 1 .. Len(existing)
           /\ \A i \in 1 .. Len(existing) : existing[i] \in Document
           /\ Len(documents) \in Nat /\ DOMAIN documents = 1 .. Len(documents)
           /\ \A i \in 1 .. Len(documents) : documents[i] \in Document
           /\ Merging \in Seq(Document) /\ Len(Merging) = Len(existing) + Len(raw_docs)
           /\ DOMAIN Merging = 1 .. Len(existing) + Len(raw_docs)
           /\ \A i \in 1 .. Len(Merging) : Merging[i] \in Document
           /\ \A i \in 1 .. Len(Merging) :
                 Merging[i] = IF i <= Len(existing) THEN existing[i]
                                                    ELSE raw_docs[i - Len(existing)]
<1>1. /\ files \in Seq(Files) /\ raw_docs \in Seq(Document) /\ existing \in Seq(Document)
      /\ documents \in Seq(Document)
  BY DEF IngestInv, TypeInvariant, IngestTypeOK
<1>2. /\ Merging \in Seq(Document) /\ Len(Merging) = Len(existing) + Len(raw_docs)
      /\ \A i \in 1 .. Len(existing) + Len(raw_docs) :
            Merging[i] = IF i <= Len(existing) THEN existing[i]
                                               ELSE raw_docs[i - Len(existing)]
  BY <1>1, ConcatProperties DEF Merging
<1>3. DOMAIN Merging = 1 .. Len(existing) + Len(raw_docs)
  BY <1>2, LenProperties
<1> QED
  BY <1>1, <1>2, <1>3, LenProperties, ElementOfSeq

\* A step that does not touch what LoadInv speaks of, from the end of the loop on.
LEMMA LoadInvKept ==
    ASSUME LoadInv, UNCHANGED <<files, endpoint, raw_docs, errors>>, Seen' = Seen
    PROVE  LoadInv'
BY DEF LoadInv, Given

LEMMA NoRunStep == IInv /\ UNCHANGED vars => IInv'
BY IInvStep

LEMMA ConfigurationKept == Configured /\ UNCHANGED <<strategy, window, stride>> => Configured'
BY DEF Configured, FixedWindow, SentenceWindow, Paragraph

-----------------------------------------------------------------------------
(* Loading files. *)

LEMMA IngestInitInv == IngestInit => IngestInv
<1> SUFFICES ASSUME IngestInit PROVE IngestInv
  OBVIOUS
<1>1. files \in Seq(Files) /\ Len(files) <= MaxFiles /\ Len(files) \in Nat
  BY FileListType, LenProperties DEF IngestInit
<1>2. docs \in Seq(Documents) /\ \A S : <<>> \in Seq(S)
  BY EmptySeq DEF IngestInit
<1>3. IInv
  BY <1>2, FreshIInv DEF IngestInit
<1>4. IngestTypeOK
  BY <1>1, <1>2, <1>3, FilesAssumption DEF IngestTypeOK, IngestInit, IInv, TypeInv, NoAnswer
<1>5. TypeInvariant
  BY <1>1, <1>3, <1>4 DEF TypeInvariant, IngestInit
<1>6. StageInv /\ PreparedInv /\ MergeInv
  BY <1>1 DEF StageInv, PreparedInv, MergeInv, Chosen, Succeeded, IngestInit
<1>7. LoadInv
  BY DEF LoadInv, Seen, IngestInit
<1> QED
  BY <1>5, <1>6, <1>7 DEF IngestInv

LEMMA LoadFileStep == IngestInv /\ LoadFile => IngestInv'
<1> SUFFICES ASSUME IngestInv, LoadFile PROVE IngestInv'
  OBVIOUS
<1> DEFINE f == files[next]
<1>1. /\ stage = "load" /\ stage' = "load" /\ next \in 1 .. Len(files) /\ next' = next + 1
      /\ Len(files) \in Nat /\ Len(files) <= MaxFiles
      /\ UNCHANGED <<vars, request, existing, documents, corpus, answer>>
  BY StateFacts DEF LoadFile, IngestInv, TypeInvariant, IngestTypeOK
<1>2. f \in Files /\ (Readable(f) => DocumentOf(f) \in Document)
  <2>1. f \in Files
    BY <1>1, StateFacts
  <2> QED
    BY <2>1, FilesAssumption DEF Readable, DocumentOf, Document, FileType
<1>3. /\ Len(raw_docs) \in Nat /\ DOMAIN raw_docs = 1 .. Len(raw_docs)
      /\ raw_docs \in Seq(Document)
  BY StateFacts DEF IngestInv, TypeInvariant, IngestTypeOK
<1>4. \/ /\ Readable(f) /\ errors' = errors
         /\ raw_docs' = Append(raw_docs, DocumentOf(f))
         /\ raw_docs' \in Seq(Document)
         /\ DOMAIN raw_docs' = 1 .. Len(raw_docs) + 1 /\ Len(raw_docs') = Len(raw_docs) + 1
         /\ \A k \in 1 .. Len(raw_docs) : raw_docs'[k] = raw_docs[k]
         /\ raw_docs'[Len(raw_docs) + 1] = DocumentOf(f)
      \/ /\ ~ Readable(f) /\ raw_docs' = raw_docs
         /\ errors' = IF Reported(f) THEN errors \cup {next} ELSE errors
  <2>1. CASE Readable(f)
    <3>1. raw_docs' = Append(raw_docs, DocumentOf(f)) /\ errors' = errors
      BY <2>1 DEF LoadFile
    <3> QED
      BY <1>2, <1>3, <2>1, <3>1, AppendProperties, LenProperties
  <2>2. CASE ~ Readable(f)
    BY <2>2 DEF LoadFile
  <2> QED
    BY <2>1, <2>2
<1>5. errors \subseteq 0 .. next - 1 /\ errors' \subseteq 0 .. next
  <2>1. errors \subseteq 0 .. next - 1
    BY <1>1 DEF IngestInv, LoadInv, Seen
  <2>2. errors' \subseteq errors \cup {next}
    BY <1>4
  <2> QED
    BY <1>1, <2>1, <2>2
<1>6. TypeInvariant'
  <2>1. IInv'
    BY <1>1, NoRunStep DEF IngestInv, TypeInvariant
  <2>2. Configured'
    BY <1>1, ConfigurationKept DEF IngestInv, TypeInvariant, vars, parameters
  <2>3. raw_docs' \in Seq(Document) /\ errors' \subseteq 0 .. MaxFiles
    BY <1>1, <1>3, <1>4, <1>5, FilesAssumption
  <2>4. IngestTypeOK'
    BY <1>1, <2>1, <2>3 DEF IngestInv, TypeInvariant, IngestTypeOK, request, IInv, TypeInv
  <2> QED
    BY <1>1, <2>1, <2>2, <2>4 DEF TypeInvariant, request
<1>7. StageInv' /\ PreparedInv' /\ MergeInv'
  BY <1>1 DEF IngestInv, StageInv, PreparedInv, MergeInv, Chosen, Succeeded, Fresh, vars,
              parameters, progress, stores, request
<1>8. LoadInv'
  <2>1. Seen = next - 1 /\ Seen' = next /\ files' = files /\ endpoint' = endpoint
    BY <1>1 DEF Seen, request
  <2>2. ASSUME NEW i \in 1 .. next - 1, Given(i) PROVE Given(i)'
    <3>1. PICK k \in DOMAIN raw_docs :
             /\ raw_docs[k] = DocumentOf(files[i])
             /\ \A l \in k + 1 .. Len(raw_docs) :
                   raw_docs[l].doc_id = files[i].stem =>
                      \E j \in i + 1 .. Len(files) :
                         Readable(files[j]) /\ files[j].stem = files[i].stem
      BY <2>2 DEF Given
    <3>2. CASE ~ Readable(f)
      BY <1>4, <2>1, <3>1, <3>2 DEF Given
    <3>3. CASE Readable(f)
      <4>1. k \in DOMAIN raw_docs' /\ raw_docs'[k] = DocumentOf(files[i])
        BY <1>3, <1>4, <3>1, <3>3
      <4>2. ASSUME NEW l \in k + 1 .. Len(raw_docs'), raw_docs'[l].doc_id = files[i].stem
            PROVE  \E j \in i + 1 .. Len(files) :
                      Readable(files[j]) /\ files[j].stem = files[i].stem
        <5>1. CASE l <= Len(raw_docs)
          BY <1>3, <1>4, <3>1, <3>3, <4>2, <5>1
        <5>2. CASE l = Len(raw_docs) + 1
          <6>1. f.stem = files[i].stem
            BY <1>4, <3>3, <4>2, <5>2 DEF DocumentOf
          <6>2. next \in i + 1 .. Len(files)
            BY <1>1
          <6> QED
            BY <3>3, <6>1, <6>2
        <5> QED
          BY <1>3, <1>4, <3>3, <5>1, <5>2
      <4> QED
        BY <2>1, <4>1, <4>2 DEF Given
    <3> QED
      BY <3>2, <3>3
  <2>3. ASSUME Readable(f), NEW i, i = next PROVE Given(i)'
    <3>1. /\ Len(raw_docs) + 1 \in DOMAIN raw_docs'
          /\ raw_docs'[Len(raw_docs) + 1] = DocumentOf(files'[i])
          /\ Len(raw_docs') = Len(raw_docs) + 1
      BY <1>3, <1>4, <2>1, <2>3
    <3> QED
      BY <1>3, <3>1 DEF Given
  <2>4. ASSUME NEW i \in 1 .. next
        PROVE  IF Readable(files[i])
               THEN i \notin errors' /\ Given(i)'
               ELSE i \in errors' \/ (endpoint = "folder" /\ ~ files[i].supported)
    <3>1. CASE i = next
      <4>1. CASE Readable(f)
        BY <1>1, <1>4, <1>5, <2>3, <3>1, <4>1
      <4>2. CASE ~ Readable(f)
        <5>1. endpoint \in {"folder", "upload"} /\ f.supported \in BOOLEAN
          BY <1>2, FilesAssumption DEF IngestInv, TypeInvariant, IngestTypeOK, FileType
        <5> QED
          BY <1>4, <3>1, <4>2, <5>1 DEF Reported
      <4> QED
        BY <4>1, <4>2
    <3>2. CASE i # next
      <4>1. i \in 1 .. next - 1
        BY <1>1, <3>2
      <4>2. i \in errors' <=> i \in errors
        BY <1>4, <3>2
      <4>3. IF Readable(files[i])
            THEN i \notin errors /\ Given(i)
            ELSE i \in errors \/ (endpoint = "folder" /\ ~ files[i].supported)
        BY <2>1, <4>1 DEF IngestInv, LoadInv
      <4> QED
        BY <2>2, <4>1, <4>2, <4>3
    <3> QED
      BY <3>1, <3>2
  <2> QED
    BY <1>5, <2>1, <2>4 DEF LoadInv
<1> QED
  BY <1>6, <1>7, <1>8 DEF IngestInv

LEMMA NotADirectoryStep == IngestInv /\ NotADirectory => IngestInv'
<1> SUFFICES ASSUME IngestInv, NotADirectory PROVE IngestInv'
  OBVIOUS
<1>1. /\ stage = "load" /\ stage' = stage /\ errors' = {0} /\ next = 1 /\ next' = next
      /\ UNCHANGED <<vars, request, raw_docs, existing, documents, corpus, answer>>
  BY DEF NotADirectory
<1>2. IInv' /\ Configured'
  BY <1>1, NoRunStep, ConfigurationKept DEF IngestInv, TypeInvariant, vars, parameters
<1>3. TypeInvariant'
  BY <1>1, <1>2, FilesAssumption DEF IngestInv, TypeInvariant, IngestTypeOK, request, IInv,
                                     TypeInv
<1>4. StageInv' /\ PreparedInv' /\ MergeInv'
  BY <1>1 DEF IngestInv, StageInv, PreparedInv, MergeInv, Chosen, Succeeded, Fresh, vars,
              parameters, progress, stores, request
<1>5. LoadInv'
  BY <1>1 DEF LoadInv, Seen
<1> QED
  BY <1>3, <1>4, <1>5 DEF IngestInv

\* A handler that fails, or has nothing to index, is done.
LEMMA FailStep ==
    ASSUME IngestInv, stage' = "done", answer' \in {[NoAnswer EXCEPT !.status = 422],
                                                   [NoAnswer EXCEPT !.status = 500]},
           stage = "load" => next = Len(files) + 1,
           UNCHANGED <<vars, request, loaded, corpus>>
    PROVE  IngestInv'
<1>1. /\ ~ Succeeded' /\ ~ Chosen' /\ Seen' = Seen
      /\ answer' \in [status : {0, 200, 422, 500}, found : Nat, indexed : Nat,
                      chunk_count : Nat]
  BY StateFacts DEF Succeeded, Chosen, Seen, NoAnswer, request
<1>2. IInv' /\ Configured'
  BY NoRunStep, ConfigurationKept DEF IngestInv, TypeInvariant, vars, parameters
<1>3. TypeInvariant'
  BY <1>1, <1>2 DEF IngestInv, TypeInvariant, IngestTypeOK, request, loaded, IInv, TypeInv
<1>4. StageInv' /\ PreparedInv' /\ MergeInv'
  BY <1>1 DEF StageInv, PreparedInv, MergeInv
<1>5. LoadInv'
  BY <1>1, LoadInvKept DEF IngestInv, request, loaded
<1> QED
  BY <1>3, <1>4, <1>5 DEF IngestInv

LEMMA LoadedStep == IngestInv /\ Loaded => IngestInv'
<1> SUFFICES ASSUME IngestInv, Loaded PROVE IngestInv'
  OBVIOUS
<1>1. /\ stage = "load" /\ next = Len(files) + 1
      /\ UNCHANGED <<vars, request, loaded, corpus>>
  BY StateFacts DEF Loaded, IngestInv, StageInv, TypeInvariant, IngestTypeOK
<1>2. CASE raw_docs = <<>>
  BY <1>1, <1>2, FailStep DEF Loaded
<1>3. CASE raw_docs # <<>>
  <2>1. /\ stage' = "begin" /\ answer' = answer
        /\ UNCHANGED <<vars, request, loaded, corpus>>
    BY <1>3 DEF Loaded
  <2>2. IInv' /\ Configured'
    BY <2>1, NoRunStep, ConfigurationKept DEF IngestInv, TypeInvariant, vars, parameters
  <2>3. TypeInvariant'
    BY <2>1, <2>2 DEF IngestInv, TypeInvariant, IngestTypeOK, request, loaded, IInv, TypeInv
  <2>4. StageInv' /\ PreparedInv' /\ MergeInv'
    BY <1>1, <1>3, <2>1 DEF IngestInv, StageInv, PreparedInv, MergeInv, Chosen, Succeeded,
                            Fresh, vars, parameters, progress, stores, loaded
  <2>5. Seen' = Seen
    BY <1>1, <2>1, StateFacts DEF Seen, request
  <2>6. LoadInv'
    BY <2>1, <2>5, LoadInvKept DEF IngestInv, request, loaded
  <2> QED
    BY <2>3, <2>4, <2>6 DEF IngestInv
<1> QED
  BY <1>2, <1>3

-----------------------------------------------------------------------------
(* Choosing the documents. *)

LEMMA BeginStep == IngestInv /\ Begin => IngestInv'
<1> SUFFICES ASSUME IngestInv, Begin PROVE IngestInv'
  OBVIOUS
<1>1. stage = "begin" /\ raw_docs # <<>> /\ UNCHANGED vars
  BY DEF Begin, Fail, IngestInv, StageInv
<1>2. IInv' /\ Configured'
  BY <1>1, NoRunStep, ConfigurationKept DEF IngestInv, TypeInvariant, vars, parameters
<1>3. \A S : <<>> \in Seq(S)
  BY EmptySeq
<1>4. CASE mode = "append" /\ stage' = "merge"
  <2>1. /\ existing' = IF corpus = NoCorpus THEN <<>> ELSE corpus
        /\ next' = 1
        /\ UNCHANGED <<vars, request, raw_docs, errors, documents, corpus, answer>>
    BY <1>4 DEF Begin, Fail
  <2>2. TypeInvariant'
    BY <1>2, <1>3, <1>4, <2>1 DEF IngestInv, TypeInvariant, IngestTypeOK, request, IInv,
                                  TypeInv
  <2>3. 1 <= Len(Merging')
    <3>1. /\ existing' \in Seq(Document) /\ raw_docs' \in Seq(Document) /\ raw_docs' # <<>>
      BY <1>1, <2>1, <2>2 DEF TypeInvariant, IngestTypeOK
    <3>2. Len(Merging') = Len(existing') + Len(raw_docs')
      BY <3>1, ConcatProperties DEF Merging
    <3> QED
      BY <3>1, <3>2, EmptySeq, LenProperties
  <2>4. StageInv' /\ PreparedInv'
    BY <1>1, <1>4, <2>1, <2>3 DEF IngestInv, StageInv, PreparedInv, Chosen, Succeeded, Fresh,
                                  vars, parameters, progress, stores, request
  <2>5. LoadInv'
    BY <1>1, <1>4, <2>1, LoadInvKept DEF IngestInv, request, Seen
  <2>6. MergeInv'
    <3>1. documents' = <<>>
      BY <1>1, <2>1 DEF IngestInv, StageInv
    <3> QED
      BY <1>4, <2>1, <3>1 DEF MergeInv, Merged, Chosen, Succeeded
  <2> QED
    BY <2>2, <2>4, <2>5, <2>6 DEF IngestInv
<1>5. CASE Fail
  BY <1>1, <1>5, FailStep DEF Fail
<1>6. CASE mode = "replace" /\ stage' = "prepare"
  <2>1. /\ documents' = raw_docs
        /\ UNCHANGED <<vars, request, next, raw_docs, errors, existing, corpus, answer>>
    BY <1>6 DEF Begin, Fail
  <2>2. TypeInvariant'
    BY <1>2, <1>6, <2>1 DEF IngestInv, TypeInvariant, IngestTypeOK, request, IInv, TypeInv
  <2>3. StageInv' /\ PreparedInv' /\ MergeInv'
    BY <1>1, <1>6, <2>1 DEF IngestInv, StageInv, PreparedInv, MergeInv, Chosen, Succeeded,
                            Fresh, vars, parameters, progress, stores, request
  <2>4. LoadInv'
    BY <1>1, <1>6, <2>1, LoadInvKept DEF IngestInv, request, Seen
  <2> QED
    BY <2>2, <2>3, <2>4 DEF IngestInv
<1> QED
  BY <1>4, <1>5, <1>6 DEF Begin

\* One turn of the merge loop.
LEMMA MergedPut ==
    ASSUME IngestInv, stage = "merge", next \in 1 .. Len(Merging), Merging' = Merging,
           documents' = Put(documents, Merging[next]), NEW m, m = next
    PROVE  Merged(m)' /\ documents' \in Seq(Document)
<1> DEFINE doc == Merging[m]
<1>1. /\ m \in 1 .. Len(Merging) /\ Len(Merging) \in Nat /\ doc \in Document
      /\ documents \in Seq(Document) /\ documents' = Put(documents, doc)
      /\ Len(documents) \in Nat /\ DOMAIN documents = 1 .. Len(documents)
  BY StateFacts DEF IngestInv, TypeInvariant, IngestTypeOK
<1> HIDE DEF doc
<1>2. /\ documents' \in Seq(Document)
      /\ \A i \in DOMAIN documents :
            /\ i \in DOMAIN documents'
            /\ documents'[i] = IF documents[i].doc_id = doc.doc_id THEN doc ELSE documents[i]
      /\ \A i \in DOMAIN documents' :
            \/ i \in DOMAIN documents
            \/ /\ documents'[i] = doc /\ i = Len(documents) + 1
               /\ \A j \in DOMAIN documents : documents[j].doc_id # doc.doc_id
      /\ \E i \in DOMAIN documents' : documents'[i] = doc
  <2>1. PutInto(documents, doc, Put(documents, doc))
    BY <1>1, PutFacts
  <2> QED
    BY <1>1, <2>1 DEF PutInto
<1>3. /\ \A i, j \in DOMAIN documents : documents[i].doc_id = documents[j].doc_id => i = j
      /\ \A k \in 1 .. m - 1 : Supplies(documents, Merging[k].doc_id)
      /\ \A i \in DOMAIN documents :
            \E k \in 1 .. m - 1 :
                /\ Merging[k] = documents[i]
                /\ \A l \in k + 1 .. m - 1 : Merging[l].doc_id # documents[i].doc_id
  BY DEF IngestInv, MergeInv, Merged
<1>4. \A i \in DOMAIN documents : documents'[i].doc_id = documents[i].doc_id
  BY <1>2
<1>5. \A i, j \in DOMAIN documents' : documents'[i].doc_id = documents'[j].doc_id => i = j
  <2> SUFFICES ASSUME NEW i \in DOMAIN documents', NEW j \in DOMAIN documents',
                      documents'[i].doc_id = documents'[j].doc_id
               PROVE  i = j
    OBVIOUS
  <2>1. CASE i \in DOMAIN documents /\ j \in DOMAIN documents
    BY <1>3, <1>4, <2>1
  <2>2. CASE i \notin DOMAIN documents /\ j \notin DOMAIN documents
    BY <1>2, <2>2
  <2>3. ASSUME NEW m1 \in DOMAIN documents, NEW m2 \in DOMAIN documents', m2 \notin DOMAIN documents
        PROVE  documents'[m1].doc_id # documents'[m2].doc_id
    BY <1>2, <1>4, <2>3
  <2> QED
    BY <2>1, <2>2, <2>3
<1>6. ASSUME NEW k \in 1 .. m PROVE Supplies(documents', Merging[k].doc_id)
  <2>1. CASE k = m
    BY <1>2, <2>1 DEF Supplies, doc
  <2>2. CASE k # m
    <3>1. k \in 1 .. m - 1
      BY <1>1, <2>2
    <3>2. PICK i \in DOMAIN documents : documents[i].doc_id = Merging[k].doc_id
      BY <1>3, <3>1 DEF Supplies
    <3> QED
      BY <1>2, <1>4, <3>2 DEF Supplies
  <2> QED
    BY <2>1, <2>2
<1>7. ASSUME NEW i \in DOMAIN documents'
      PROVE  \E k \in 1 .. m : /\ Merging[k] = documents'[i]
                               /\ \A l \in k + 1 .. m : Merging[l].doc_id # documents'[i].doc_id
  <2>1. CASE documents'[i] = doc
    BY <1>1, <2>1 DEF doc
  <2>2. CASE documents'[i] # doc
    <3>1. i \in DOMAIN documents /\ documents[i].doc_id # doc.doc_id
          /\ documents'[i] = documents[i]
      BY <1>2, <2>2
    <3>2. PICK k \in 1 .. m - 1 :
             /\ Merging[k] = documents[i]
             /\ \A l \in k + 1 .. m - 1 : Merging[l].doc_id # documents[i].doc_id
      BY <1>3, <3>1
    <3>3. \A l \in k + 1 .. m : l \in k + 1 .. m - 1 \/ l = m
      BY <1>1
    <3>4. k \in 1 .. m
      BY <1>1
    <3> QED
      BY <3>1, <3>2, <3>3, <3>4 DEF doc
  <2> QED
    BY <2>1, <2>2
<1> QED
  BY <1>2, <1>5, <1>6, <1>7 DEF Merged

LEMMA MergeDocumentStep == IngestInv /\ MergeDocument => IngestInv'
<1> SUFFICES ASSUME IngestInv, MergeDocument PROVE IngestInv'
  OBVIOUS
<1>1. /\ stage = "merge" /\ mode = "append" /\ raw_docs # <<>>
      /\ next \in 1 .. Len(Merging) /\ Len(Merging) \in Nat
      /\ Merging' = Merging /\ next' = next + 1
      /\ documents' = Put(documents, Merging[next])
      /\ stage' = IF next = Len(Merging) THEN "prepare" ELSE "merge"
      /\ UNCHANGED <<vars, request, raw_docs, errors, existing, corpus, answer>>
  BY StateFacts DEF MergeDocument, IngestInv, StageInv, TypeInvariant, IngestTypeOK, Merging
<1>2. documents' \in Seq(Document) /\ \A m : m = next => Merged(m)'
  BY <1>1, MergedPut
<1>3. IInv' /\ Configured'
  BY <1>1, NoRunStep, ConfigurationKept DEF IngestInv, TypeInvariant, vars, parameters
<1>4. TypeInvariant'
  BY <1>1, <1>2, <1>3 DEF IngestInv, TypeInvariant, IngestTypeOK, request, IInv, TypeInv
<1>5. StageInv' /\ PreparedInv'
  BY <1>1 DEF IngestInv, StageInv, PreparedInv, Chosen, Succeeded, Fresh, vars, parameters,
              progress, stores, request
<1>6. LoadInv'
  BY <1>1, LoadInvKept DEF IngestInv, request, Seen
<1>7. MergeInv'
  <2>1. CASE next = Len(Merging)
    <3>1. stage' = "prepare" /\ Len(Merging') = next
      BY <1>1, <2>1
    <3>2. \A m : m = Len(Merging') => Merged(m)'
      BY <1>2, <3>1
    <3> QED
      BY <3>1, <3>2 DEF MergeInv
  <2>2. CASE next # Len(Merging)
    <3>1. stage' = "merge" /\ next' - 1 = next
      BY <1>1, <2>2
    <3>2. \A m : m = next' - 1 => Merged(m)'
      BY <1>2, <3>1
    <3> QED
      BY <3>1, <3>2 DEF MergeInv, Chosen, Succeeded
  <2> QED
    BY <2>1, <2>2
<1> QED
  BY <1>4, <1>5, <1>6, <1>7 DEF IngestInv

-----------------------------------------------------------------------------
(* Indexing and saving them. *)

\* FreshIInv, of the state after a step.
LEMMA FreshAfter == (Configured /\ Fresh /\ docs \in Seq(Documents))' => IInv'
BY FreshIInv, PTL

LEMMA PrepareStep == IngestInv /\ Prepare => IngestInv'
<1> SUFFICES ASSUME IngestInv, Prepare PROVE IngestInv'
  OBVIOUS
<1>1. /\ stage = "prepare" /\ stage' = "run"
      /\ UNCHANGED <<strategy, window, stride, progress, stores, request, loaded, corpus, answer>>
  BY DEF Prepare
<1>2. PICK p \in [DOMAIN documents -> DOMAIN documents] :
         StableOrder(p, documents) /\ docs' = PreparedBy(p, documents)
  BY DEF Prepare
<1>3. docs' \in Seq(Documents)
  BY <1>2, PreparedType DEF IngestInv, TypeInvariant, IngestTypeOK
<1>4. Fresh'
  BY <1>1 DEF IngestInv, StageInv, Fresh, progress, stores
<1>5. Configured'
  BY <1>1, ConfigurationKept DEF IngestInv, TypeInvariant
<1>6. IInv'
  BY <1>3, <1>4, <1>5, FreshAfter
<1>7. TypeInvariant'
  BY <1>1, <1>5, <1>6 DEF IngestInv, TypeInvariant, IngestTypeOK, request, loaded, IInv,
                          TypeInv
<1>8. PreparedInv'
  <2>1. documents' = documents /\ PreparedBy(p, documents)' = PreparedBy(p, documents)
    BY <1>1 DEF PreparedBy, UnitsOf, loaded
  <2> QED
    BY <1>2, <2>1 DEF PreparedInv, StableOrder
<1>9. StageInv' /\ MergeInv'
  BY <1>1 DEF IngestInv, StageInv, MergeInv, Merged, Merging, Chosen, Succeeded, request, loaded
<1>10. LoadInv'
  BY <1>1, LoadInvKept DEF IngestInv, request, loaded, Seen
<1> QED
  BY <1>7, <1>8, <1>9, <1>10 DEF IngestInv

LEMMA RunStep == IngestInv /\ Run => IngestInv'
<1> SUFFICES ASSUME IngestInv, Run PROVE IngestInv'
  OBVIOUS
<1>1. /\ stage = "run" /\ stage' = "run" /\ Next /\ UNCHANGED parameters
      /\ UNCHANGED <<request, loaded, corpus, answer>>
  BY DEF Run, Next, Window, EndOfUnits, Store
<1>2. IInv' /\ Configured'
  BY <1>1, IInvStep, ConfigurationKept DEF IngestInv, TypeInvariant, parameters
<1>3. TypeInvariant'
  BY <1>1, <1>2 DEF IngestInv, TypeInvariant, IngestTypeOK, request, loaded, IInv, TypeInv
<1>4. StageInv' /\ MergeInv'
  BY <1>1 DEF IngestInv, StageInv, MergeInv, Merged, Merging, Chosen, Succeeded, request, loaded
<1>5. PreparedInv'
  BY <1>1 DEF IngestInv, PreparedInv, StableOrder, PreparedBy, UnitsOf, parameters, loaded
<1>6. LoadInv'
  BY <1>1, LoadInvKept DEF IngestInv, request, loaded, Seen
<1> QED
  BY <1>3, <1>4, <1>5, <1>6 DEF IngestInv

LEMMA RunFailsStep == IngestInv /\ RunFails => IngestInv'
BY FailStep DEF RunFails, Fail

LEMMA SaveCorpusStep == IngestInv /\ SaveCorpus => IngestInv'
<1> SUFFICES ASSUME IngestInv, SaveCorpus PROVE IngestInv'
  OBVIOUS
<1>1. stage = "run" /\ stored
  BY DEF SaveCorpus
<1>2. CASE Fail
  BY <1>1, <1>2, FailStep DEF Fail
<1>3. CASE corpus' = documents /\ stage' = "respond" /\ UNCHANGED <<vars, request, loaded, answer>>
  <2>1. IInv' /\ Configured'
    BY <1>3, NoRunStep, ConfigurationKept DEF IngestInv, TypeInvariant, vars, parameters
  <2>2. TypeInvariant'
    BY <1>3, <2>1 DEF IngestInv, TypeInvariant, IngestTypeOK, request, loaded, IInv, TypeInv
  <2>3. StageInv' /\ MergeInv'
    BY <1>1, <1>3 DEF IngestInv, StageInv, MergeInv, Merged, Merging, Chosen, Succeeded,
                      request, loaded, vars, stores
  <2>4. PreparedInv'
    BY <1>1, <1>3 DEF IngestInv, PreparedInv, StableOrder, PreparedBy, UnitsOf, vars,
                      parameters, loaded
  <2>5. LoadInv'
    BY <1>1, <1>3, LoadInvKept DEF IngestInv, request, loaded, Seen
  <2> QED
    BY <2>2, <2>3, <2>4, <2>5 DEF IngestInv
<1> QED
  BY <1>2, <1>3 DEF SaveCorpus

LEMMA RespondStep == IngestInv /\ Respond => IngestInv'
<1> SUFFICES ASSUME IngestInv, Respond PROVE IngestInv'
  OBVIOUS
<1>1. /\ stage = "respond" /\ stage' = "done" /\ answer'.chunk_count = Len(chunks)
      /\ UNCHANGED <<vars, request, loaded, corpus>>
  BY DEF Respond
<1>2. IInv' /\ Configured'
  BY <1>1, NoRunStep, ConfigurationKept DEF IngestInv, TypeInvariant, vars, parameters
<1>3. answer' \in [status : {0, 200, 422, 500}, found : Nat, indexed : Nat, chunk_count : Nat]
  <2>1. Len(chunks) \in Nat /\ Len(raw_docs) \in Nat
    BY LenProperties DEF IngestInv, TypeInvariant, IngestTypeOK, TypeOK
  <2>2. IsFiniteSet(errors)
    <3>1. errors \subseteq 0 .. MaxFiles /\ 0 \in Int /\ MaxFiles \in Int
      BY FilesAssumption DEF IngestInv, TypeInvariant, IngestTypeOK
    <3>2. IsFiniteSet(0 .. MaxFiles)
      BY <3>1, FS_Interval
    <3> QED
      BY <3>1, <3>2, FS_Subset
  <2>3. Len(raw_docs) + Cardinality(errors) \in Nat
    BY <2>1, <2>2, FS_CardinalityType
  <2> QED
    BY <2>1, <2>3 DEF Respond
<1>4. TypeInvariant'
  BY <1>1, <1>2, <1>3 DEF IngestInv, TypeInvariant, IngestTypeOK, request, loaded, IInv, TypeInv
<1>5. StageInv' /\ MergeInv'
  BY <1>1 DEF IngestInv, StageInv, MergeInv, Merged, Merging, Chosen, Succeeded, request,
              loaded, vars, stores, progress
<1>6. PreparedInv'
  BY <1>1 DEF IngestInv, PreparedInv, StableOrder, PreparedBy, UnitsOf, vars, parameters, loaded
<1>7. LoadInv'
  BY <1>1, LoadInvKept DEF IngestInv, request, loaded, Seen
<1> QED
  BY <1>4, <1>5, <1>6, <1>7 DEF IngestInv

LEMMA NextRequestStep == IngestInv /\ NextRequest => IngestInv'
<1> SUFFICES ASSUME IngestInv, NextRequest PROVE IngestInv'
  OBVIOUS
<1>1. /\ stage' = "load" /\ next' = 1 /\ raw_docs' = <<>> /\ errors' = {}
      /\ existing' = <<>> /\ documents' = <<>> /\ docs' = <<>> /\ answer' = NoAnswer
      /\ requests' = requests + 1 /\ requests < MaxRequests
      /\ UNCHANGED <<strategy, window, stride, corpus>>
      /\ Fresh'
  BY DEF NextRequest, Fresh
<1>2. files' \in Seq(Files) /\ Len(files') <= MaxFiles /\ Len(files') \in Nat
  BY FileListType, LenProperties DEF NextRequest
<1>3. docs' \in Seq(Documents) /\ \A S : <<>> \in Seq(S)
  BY <1>1, EmptySeq
<1>4. Configured'
  BY <1>1, ConfigurationKept DEF IngestInv, TypeInvariant
<1>5. IInv'
  BY <1>1, <1>3, <1>4, FreshAfter
<1>6. IngestTypeOK'
  BY <1>1, <1>2, <1>3, <1>5, FilesAssumption
     DEF NextRequest, IngestInv, TypeInvariant, IngestTypeOK, NoAnswer, IInv, TypeInv
<1>7. TypeInvariant'
  BY <1>2, <1>4, <1>5, <1>6 DEF TypeInvariant
<1>8. StageInv' /\ PreparedInv' /\ MergeInv' /\ LoadInv'
  BY <1>1, <1>2 DEF StageInv, PreparedInv, MergeInv, LoadInv, Seen, Chosen, Succeeded, NoAnswer
<1> QED
  BY <1>7, <1>8 DEF IngestInv

LEMMA IngestInvStep == IngestInv /\ [IngestNext]_ingestVars => IngestInv'
<1>1. ASSUME IngestInv, UNCHANGED ingestVars PROVE IngestInv'
  <2>1. IInv' /\ Configured'
    BY <1>1, NoRunStep, ConfigurationKept
       DEF IngestInv, TypeInvariant, ingestVars, vars, parameters
  <2>2. TypeInvariant'
    BY <1>1, <2>1 DEF IngestInv, TypeInvariant, IngestTypeOK, ingestVars, request, loaded,
                      IInv, TypeInv
  <2>3. StageInv'
    BY <1>1 DEF IngestInv, StageInv, Merging, Chosen, Succeeded, Fresh,
                ingestVars, request, loaded, vars, parameters, stores, progress
  <2>4. MergeInv'
    <3>1. Merging' = Merging /\ documents' = documents
      BY <1>1 DEF Merging, ingestVars, loaded
    <3>2. /\ stage' = stage /\ mode' = mode /\ answer' = answer /\ next' = next
          /\ Len(Merging') = Len(Merging) /\ (Succeeded' <=> Succeeded)
      BY <1>1, <3>1 DEF Succeeded, ingestVars, request, loaded
    <3>3. ASSUME NEW m, m = next - 1, stage = "merge" PROVE Merged(m)'
      BY <1>1, <3>1, <3>3 DEF IngestInv, MergeInv, Merged, Supplies
    <3>4. ASSUME NEW m, m = Len(Merging), mode = "append", Chosen PROVE Merged(m)'
      BY <1>1, <3>1, <3>4 DEF IngestInv, MergeInv, Merged, Supplies
    <3>5. Chosen' => Chosen
      BY <3>2 DEF Chosen
    <3> QED
      BY <3>2, <3>3, <3>4, <3>5 DEF MergeInv
  <2>5. PreparedInv'
    BY <1>1 DEF IngestInv, PreparedInv, Succeeded, StableOrder, PreparedBy, UnitsOf,
                ingestVars, vars, parameters, loaded
  <2>6. LoadInv'
    BY <1>1, LoadInvKept DEF IngestInv, ingestVars, request, loaded, Seen
  <2> QED
    BY <2>2, <2>3, <2>4, <2>5, <2>6 DEF IngestInv
<1> QED
  BY <1>1, LoadFileStep, NotADirectoryStep, LoadedStep, BeginStep, MergeDocumentStep,
     PrepareStep, RunStep, RunFailsStep, SaveCorpusStep, RespondStep, NextRequestStep
     DEF IngestNext, Handle

LEMMA IngestSafety == IngestSpec => []IngestInv
BY IngestInitInv, IngestInvStep, PTL DEF IngestSpec

-----------------------------------------------------------------------------
(* What follows from the invariant. *)

\* The latest document of an id that the merge has is the request's, or else the
\* corpus's.
LEMMA MergedIsLatest ==
    ASSUME IngestInv, Merged(Len(Merging)), NEW i \in DOMAIN documents
    PROVE  \/ IsLatest(documents[i], raw_docs)
           \/ ~ Supplies(raw_docs, documents[i].doc_id) /\ IsLatest(documents[i], existing)
<1> DEFINE e == Len(existing)
           n == Len(raw_docs)
<1>1. /\ e \in Nat /\ n \in Nat /\ Len(Merging) = e + n
      /\ DOMAIN raw_docs = 1 .. n /\ DOMAIN existing = 1 .. e
      /\ \A k \in 1 .. e + n : Merging[k] = IF k <= e THEN existing[k] ELSE raw_docs[k - e]
  BY StateFacts
<1>2. PICK k \in 1 .. e + n :
         /\ Merging[k] = documents[i]
         /\ \A l \in k + 1 .. e + n : Merging[l].doc_id # documents[i].doc_id
  BY <1>1 DEF Merged
<1> HIDE DEF e, n
<1>3. ASSUME NEW j \in 1 .. n, k < e + j PROVE raw_docs[j].doc_id # documents[i].doc_id
  <2>1. e + j \in k + 1 .. e + n /\ ~ (e + j <= e) /\ (e + j) - e = j /\ e + j \in 1 .. e + n
    BY <1>1, <1>3
  <2>2. Merging[e + j] = raw_docs[j]
    BY <1>1, <2>1
  <2> QED
    BY <1>2, <2>1, <2>2
<1>4. CASE k <= e
  <2>1. k \in DOMAIN existing /\ existing[k] = documents[i]
    BY <1>1, <1>2, <1>4
  <2>2. ASSUME NEW l \in k + 1 .. e PROVE existing[l].doc_id # documents[i].doc_id
    BY <1>1, <1>2
  <2>3. \A j \in 1 .. n : raw_docs[j].doc_id # documents[i].doc_id
    BY <1>1, <1>3, <1>4
  <2> QED
    BY <1>1, <2>1, <2>2, <2>3 DEF IsLatest, Supplies, e
<1>5. CASE e < k
  <2>1. k - e \in 1 .. n /\ raw_docs[k - e] = documents[i]
    BY <1>1, <1>2, <1>5
  <2>2. ASSUME NEW j \in (k - e) + 1 .. n PROVE raw_docs[j].doc_id # documents[i].doc_id
    BY <1>1, <1>3, <2>1
  <2> QED
    BY <1>1, <2>1, <2>2 DEF IsLatest, n
<1> QED
  BY <1>1, <1>4, <1>5

\* Distinct ids remain distinct when documents are sorted and cleaned.
LEMMA PreparedDistinct ==
    ASSUME IngestInv, Merged(Len(Merging)), NEW p \in [DOMAIN documents -> DOMAIN documents],
           StableOrder(p, documents), docs = PreparedBy(p, documents)
    PROVE  DistinctIds
<1> SUFFICES ASSUME NEW i \in DOMAIN docs, NEW j \in DOMAIN docs,
                    docs[i].doc_id = docs[j].doc_id
             PROVE  i = j
  BY DEF DistinctIds
<1>1. /\ Len(documents) \in Nat /\ DOMAIN documents = 1 .. Len(documents)
      /\ \A k \in 1 .. Len(documents) : documents[k] \in Document
  BY StateFacts
<1>2. /\ i \in 1 .. Len(documents) /\ j \in 1 .. Len(documents)
      /\ p[i] \in 1 .. Len(documents) /\ p[j] \in 1 .. Len(documents)
      /\ documents[p[i]].doc_id = documents[p[j]].doc_id
  BY <1>1 DEF PreparedBy
<1>3. p[i] = p[j]
  BY <1>1, <1>2 DEF Merged
<1>4. documents[p[i]].doc_id \in Nat
  BY <1>1, <1>2, BoundsAssumption DEF Document
<1>5. ~ (i < j) /\ ~ (j < i)
  BY <1>1, <1>2, <1>3, <1>4 DEF StableOrder
<1> QED
  BY <1>2, <1>5

LEMMA AppendUpdatesInv == IngestInv => AppendUpdates
<1> SUFFICES ASSUME IngestInv, Succeeded, mode = "append" PROVE AppendUpdates
  BY DEF AppendUpdates
<1>1. /\ Merged(Len(Merging)) /\ corpus = documents /\ stored
      /\ answer.chunk_count = Len(chunks)
  BY DEF IngestInv, StageInv, MergeInv, Chosen
<1>2. \A i, j \in DOMAIN corpus : corpus[i].doc_id = corpus[j].doc_id => i = j
  BY <1>1 DEF Merged
<1>3. ASSUME NEW id \in DocIds, Supplies(existing, id) \/ Supplies(raw_docs, id)
      PROVE  Supplies(corpus, id)
  <2>1. PICK k \in 1 .. Len(Merging) : Merging[k].doc_id = id
    <3>1. CASE Supplies(existing, id)
      BY <3>1, StateFacts DEF Supplies
    <3>2. CASE Supplies(raw_docs, id)
      <4>1. PICK j \in 1 .. Len(raw_docs) : raw_docs[j].doc_id = id
        BY <3>2, StateFacts DEF Supplies
      <4>2. /\ Len(existing) + j \in 1 .. Len(Merging)
            /\ ~ (Len(existing) + j <= Len(existing))
            /\ (Len(existing) + j) - Len(existing) = j
        BY StateFacts
      <4>3. Merging[Len(existing) + j] = raw_docs[j]
        BY <4>2, StateFacts
      <4> QED
        BY <4>1, <4>2, <4>3
    <3> QED
      BY <1>3, <3>1, <3>2
  <2> QED
    BY <1>1, <2>1 DEF Merged
<1>4. \A i \in DOMAIN corpus :
         \/ IsLatest(corpus[i], raw_docs)
         \/ ~ Supplies(raw_docs, corpus[i].doc_id) /\ IsLatest(corpus[i], existing)
  BY <1>1, MergedIsLatest
<1>5. answer.chunk_count = Cardinality(DOMAIN collection)
  <2>1. DistinctIds
    BY <1>1, PreparedDistinct DEF IngestInv, PreparedInv
  <2> QED
    BY <1>1, <2>1, CountInv DEF IngestInv, TypeInvariant, ChunkCountExact
<1> QED
  BY <1>2, <1>3, <1>4, <1>5 DEF AppendUpdates

LEMMA AccountedInv == IngestInv => FilesAccountedFor
<1> SUFFICES ASSUME IngestInv, Succeeded, NEW i \in DOMAIN files
             PROVE  IF Readable(files[i])
                    THEN /\ i \notin errors
                         /\ \/ Contains(corpus, DocumentOf(files[i]))
                            \/ /\ mode = "append"
                               /\ \E j \in i + 1 .. Len(files) :
                                     Readable(files[j]) /\ files[j].stem = files[i].stem
                    ELSE i \in errors \/ (endpoint = "folder" /\ ~ files[i].supported)
  BY DEF FilesAccountedFor
<1>1. /\ i \in 1 .. Seen /\ corpus = documents
      /\ IF Readable(files[i])
         THEN i \notin errors /\ Given(i)
         ELSE i \in errors \/ (endpoint = "folder" /\ ~ files[i].supported)
  <2>1. Seen = Len(files) /\ i \in 1 .. Seen
    BY StateFacts DEF Seen, Succeeded
  <2> QED
    BY <2>1 DEF IngestInv, LoadInv, StageInv
<1>2. CASE ~ Readable(files[i])
  BY <1>1, <1>2
<1>3. CASE Readable(files[i])
  <2>1. PICK k \in DOMAIN raw_docs :
           /\ raw_docs[k] = DocumentOf(files[i])
           /\ \A l \in k + 1 .. Len(raw_docs) :
                 raw_docs[l].doc_id = files[i].stem =>
                    \E j \in i + 1 .. Len(files) :
                       Readable(files[j]) /\ files[j].stem = files[i].stem
    BY <1>1, <1>3 DEF Given
  <2>2. k \in 1 .. Len(raw_docs) /\ Len(raw_docs) \in Nat /\ Len(documents) \in Nat
        /\ DOMAIN documents = 1 .. Len(documents) /\ raw_docs[k] \in Document
        /\ raw_docs[k].doc_id = files[i].stem
    BY <2>1, StateFacts DEF DocumentOf
  <2>3. CASE mode = "replace"
    <3>1. corpus = raw_docs
      BY <1>1, <2>3 DEF IngestInv, StageInv, Chosen
    <3> QED
      BY <1>1, <1>3, <2>1, <2>2, <3>1 DEF Contains
  <2>4. CASE mode = "append"
    <3>1. Merged(Len(Merging))
      BY <2>4 DEF IngestInv, MergeInv, Chosen
    <3>2. AppendUpdates
      BY AppendUpdatesInv
    <3>3. Supplies(corpus, files[i].stem)
      <4>1. files[i].stem \in DocIds /\ Supplies(raw_docs, files[i].stem)
        BY <2>1, <2>2 DEF Supplies, Document
      <4> QED
        BY <2>4, <3>2, <4>1 DEF AppendUpdates
    <3>4. PICK x \in DOMAIN corpus : corpus[x].doc_id = files[i].stem
      BY <3>3 DEF Supplies
    <3>5. IsLatest(corpus[x], raw_docs)
      BY <2>1, <2>2, <2>4, <3>2, <3>4 DEF AppendUpdates, Supplies
    <3>6. PICK y \in DOMAIN raw_docs :
             /\ raw_docs[y] = corpus[x]
             /\ \A l \in y + 1 .. Len(raw_docs) : raw_docs[l].doc_id # corpus[x].doc_id
      BY <3>5 DEF IsLatest
    <3>7. y \in 1 .. Len(raw_docs)
      BY StateFacts
    <3>8. ~ (y < k)
      BY <2>2, <3>4, <3>6, <3>7
    <3>9. CASE y = k
      <4>1. corpus[x] = DocumentOf(files[i]) /\ x \in 1 .. Len(corpus)
        BY <1>1, <2>1, <2>2, <3>6, <3>9
      <4> QED
        BY <1>1, <1>3, <4>1 DEF Contains
    <3>10. CASE k < y
      <4>1. y \in k + 1 .. Len(raw_docs) /\ raw_docs[y].doc_id = files[i].stem
        BY <2>2, <3>4, <3>6, <3>7, <3>10
      <4> QED
        BY <1>1, <1>3, <2>1, <2>4, <4>1
    <3> QED
      BY <2>2, <3>7, <3>8, <3>9, <3>10
  <2> QED
    BY <2>3, <2>4 DEF IngestInv, TypeInvariant, IngestTypeOK
<1> QED
  BY <1>2, <1>3

LEMMA ReplaysInv == IngestInv => CorpusReplaysIndex
<1> SUFFICES ASSUME IngestInv, Succeeded PROVE CorpusReplaysIndex
  BY DEF CorpusReplaysIndex
<1>1. corpus = documents
  BY DEF IngestInv, StageInv
<1> QED
  BY <1>1 DEF IngestInv, PreparedInv, CorpusReplaysIndex

-----------------------------------------------------------------------------
(* What is left to do. *)

LEMMA LeftType == IngestInv => StagesLeft \in Nat /\ TurnsLeft \in Nat /\ UnitsLeft \in Nat
<1> SUFFICES ASSUME IngestInv PROVE StagesLeft \in Nat /\ TurnsLeft \in Nat /\ UnitsLeft \in Nat
  OBVIOUS
<1>1. /\ stage \in {"load", "begin", "merge", "prepare", "run", "respond", "done"}
      /\ docs \in Seq(Documents) /\ d \in 1 .. Len(docs) + 1 /\ start \in Nat
      /\ next \in Nat /\ Len(files) \in Nat /\ Len(Merging) \in Nat /\ Len(docs) \in Nat
  BY StateFacts, LenProperties DEF IngestInv, TypeInvariant, IngestTypeOK, TypeOK
<1>2. StagesLeft \in Nat
  BY <1>1 DEF StagesLeft
<1>3. TurnsLeft \in Nat
  <2>1. stage = "load" => Len(files) + 1 - next \in Nat
    BY <1>1 DEF IngestInv, StageInv
  <2>2. stage = "merge" => Len(Merging) + 1 - next \in Nat
    BY <1>1 DEF IngestInv, StageInv
  <2>3. Len(docs) + 1 - d + (IF stored THEN 0 ELSE 1) \in Nat
    BY <1>1
  <2> QED
    BY <2>1, <2>2, <2>3 DEF TurnsLeft
<1>4. UnitsLeft \in Nat
  <2>1. CASE d <= Len(docs)
    <3>1. docs[d] \in Documents
      BY <1>1, <2>1, ElementOfSeq
    <3>2. Units \in Nat
      BY <3>1 DEF Units, Documents
    <3> QED
      BY <1>1, <3>2 DEF UnitsLeft
  <2>2. CASE ~ (d <= Len(docs))
    BY <2>2 DEF UnitsLeft
  <2> QED
    BY <2>1, <2>2
<1> QED
  BY <1>2, <1>3, <1>4

LEMMA LeftTypeAfter == IngestInv' => (StagesLeft \in Nat /\ TurnsLeft \in Nat /\ UnitsLeft \in Nat)'
BY LeftType, PTL

\* The stages that follow one another.
LEMMA NextStageNearer ==
    ASSUME IngestInv',
           \/ stage = "load" /\ stage' \in {"begin", "done"}
           \/ stage = "begin" /\ stage' \in {"merge", "prepare", "done"}
           \/ stage = "merge" /\ stage' = "prepare"
           \/ stage = "prepare" /\ stage' = "run"
           \/ stage = "run" /\ stage' \in {"respond", "done"}
           \/ stage = "respond" /\ stage' = "done"
    PROVE  Nearer
<1>1. StagesLeft' < StagesLeft
  BY DEF StagesLeft
<1> QED
  BY <1>1, LeftTypeAfter DEF Nearer

\* A turn of a loop.
LEMMA TurnNearer ==
    ASSUME IngestInv', stage' = stage, TurnsLeft' < TurnsLeft
    PROVE  Nearer
<1>1. StagesLeft' = StagesLeft
  BY DEF StagesLeft
<1> QED
  BY <1>1, LeftTypeAfter DEF Nearer

LEMMA LoadFileNearer == IngestInv /\ IngestInv' /\ LoadFile => Nearer
<1> SUFFICES ASSUME IngestInv, IngestInv', LoadFile PROVE Nearer
  OBVIOUS
<1>1. /\ stage = "load" /\ stage' = "load" /\ next' = next + 1 /\ files' = files
      /\ next \in Nat /\ Len(files) \in Nat
  BY StateFacts DEF LoadFile, request, IngestInv, TypeInvariant, IngestTypeOK
<1>2. TurnsLeft = Len(files) + 1 - next /\ TurnsLeft' = Len(files) + 1 - (next + 1)
  BY <1>1 DEF TurnsLeft
<1> QED
  BY <1>1, <1>2, TurnNearer

LEMMA MergeDocumentNearer == IngestInv /\ IngestInv' /\ MergeDocument => Nearer
<1> SUFFICES ASSUME IngestInv, IngestInv', MergeDocument PROVE Nearer
  OBVIOUS
<1>1. /\ stage = "merge" /\ stage' \in {"merge", "prepare"} /\ next' = next + 1
      /\ Merging' = Merging /\ next \in Nat /\ Len(Merging) \in Nat
  BY StateFacts DEF MergeDocument, Merging, IngestInv, TypeInvariant, IngestTypeOK
<1>2. CASE stage' = "merge"
  <2>1. TurnsLeft = Len(Merging) + 1 - next /\ TurnsLeft' = Len(Merging) + 1 - (next + 1)
    BY <1>1, <1>2 DEF TurnsLeft
  <2> QED
    BY <1>1, <1>2, <2>1, TurnNearer
<1>3. CASE stage' = "prepare"
  BY <1>1, <1>3, NextStageNearer
<1> QED
  BY <1>1, <1>2, <1>3

LEMMA RunNearer == IngestInv /\ IngestInv' /\ Run => Nearer
<1> SUFFICES ASSUME IngestInv, IngestInv', Run PROVE Nearer
  OBVIOUS
<1>1. /\ stage = "run" /\ stage' = "run" /\ IInv /\ docs' = docs
      /\ d \in 1 .. Len(docs) + 1 /\ Len(docs) \in Nat
      /\ start \in Nat /\ stride \in Nat \ {0} /\ stored \in BOOLEAN
  BY LenProperties DEF Run, Next, Window, EndOfUnits, Store, parameters, IngestInv,
                       TypeInvariant, IInv, TypeInv, TypeOK
<1>2. /\ TurnsLeft = Len(docs) + 1 - d + (IF stored THEN 0 ELSE 1)
      /\ TurnsLeft' = Len(docs) + 1 - d' + (IF stored' THEN 0 ELSE 1)
  BY <1>1 DEF TurnsLeft
<1>3. CASE d' = d + 1 /\ stored' = stored
  BY <1>1, <1>2, <1>3, TurnNearer
<1>4. CASE Store
  BY <1>1, <1>2, <1>4, TurnNearer DEF Store, progress
<1>5. CASE Window /\ d' = d /\ start' = start + stride /\ stored' = stored
  <2>1. StagesLeft' = StagesLeft /\ TurnsLeft' = TurnsLeft
    BY <1>1, <1>2, <1>5 DEF StagesLeft
  <2>2. Units' = Units /\ Units \in Nat /\ start < Units /\ d <= Len(docs)
    BY <1>1, <1>5, WindowFacts DEF Units
  <2>3. /\ UnitsLeft = Units - start
        /\ UnitsLeft' = IF start + stride < Units THEN Units - (start + stride) ELSE 0
    BY <1>1, <1>5, <2>2 DEF UnitsLeft
  <2>4. UnitsLeft' < UnitsLeft
    BY <1>1, <2>2, <2>3
  <2> QED
    BY <2>1, <2>4, LeftTypeAfter DEF Nearer
<1>6. Window \/ EndOfUnits \/ Store
  BY DEF Run, Next
<1>7. Window => \/ d' = d + 1 /\ stored' = stored
                \/ d' = d /\ start' = start + stride /\ stored' = stored
  BY <1>1, WindowFacts DEF stores
<1>8. EndOfUnits => d' = d + 1 /\ stored' = stored
  BY DEF EndOfUnits, NextDocument, stores
<1> QED
  BY <1>3, <1>4, <1>5, <1>6, <1>7, <1>8

LEMMA HandleNearer == IngestInv /\ IngestInv' /\ Handle => Nearer
<1> SUFFICES ASSUME IngestInv, IngestInv', Handle PROVE Nearer
  OBVIOUS
<1>1. CASE LoadFile
  BY <1>1, LoadFileNearer
<1>2. CASE Loaded
  BY <1>2, NextStageNearer DEF Loaded
<1>3. CASE Begin
  BY <1>3, NextStageNearer DEF Begin, Fail
<1>4. CASE MergeDocument
  BY <1>4, MergeDocumentNearer
<1>5. CASE Prepare
  BY <1>5, NextStageNearer DEF Prepare
<1>6. CASE Run
  BY <1>6, RunNearer
<1>7. CASE SaveCorpus
  BY <1>7, NextStageNearer DEF SaveCorpus, Fail
<1>8. CASE Respond
  BY <1>8, NextStageNearer DEF Respond
<1> QED
  BY <1>1, <1>2, <1>3, <1>4, <1>5, <1>6, <1>7, <1>8 DEF Handle

-----------------------------------------------------------------------------
(* The theorems. *)

\* The variables of the handler and of the run in it keep their types.
THEOREM IngestTypeCorrect == IngestSpec => []IngestTypeOK
<1>1. IngestInv => IngestTypeOK
  BY DEF IngestInv, TypeInvariant
<1> QED
  BY <1>1, IngestSafety, PTL

\* Chunking's promises hold of the runs that requests start: nothing of a document
\* is lost, chunk counts are exact, no chunk lies within another.
THEOREM RunsChunkWell == IngestSpec => [](UnitsFindable /\ ChunkCountExact /\ NoNestedChunks)
<1>1. IngestInv => UnitsFindable /\ ChunkCountExact /\ NoNestedChunks
  BY FindableInv, CountInv DEF IngestInv, TypeInvariant, IInv
<1> QED
  BY <1>1, IngestSafety, PTL

\* Every file of a request that succeeds is in the corpus or among the errors.
THEOREM EveryFileAccountedFor == IngestSpec => []FilesAccountedFor
BY AccountedInv, IngestSafety, PTL

\* An append updates documents by id, loses none, and reports the points there are.
THEOREM AppendIsUpdate == IngestSpec => []AppendUpdates
BY AppendUpdatesInv, IngestSafety, PTL

\* The corpus that is saved is what was indexed.
THEOREM CorpusIsReplayable == IngestSpec => []CorpusReplaysIndex
BY ReplaysInv, IngestSafety, PTL

\* There is one way to sort the documents of a request: the chunker's input, and with
\* it what CorpusReplaysIndex compares, is a function of the corpus.
THEOREM PreparedOnce ==
    IngestSpec => [](\E p : {q \in [DOMAIN documents -> DOMAIN documents] :
                                StableOrder(q, documents)} = {p})
<1>1. IngestInv => \E p : {q \in [DOMAIN documents -> DOMAIN documents] :
                              StableOrder(q, documents)} = {p}
  BY OneStableOrder DEF IngestInv, TypeInvariant, IngestTypeOK
<1> QED
  BY <1>1, IngestSafety, PTL

\* Every step of a handler leaves it less to do, in an order that cannot fall for
\* ever: no window, stride or text keeps a request from being answered, as long as
\* its handler goes on.
THEOREM HandlersAdvance == IngestSpec => StepsNearer
<1>1. IngestInv /\ [IngestNext]_ingestVars => [Handle => Nearer]_ingestVars
  BY IngestInvStep, HandleNearer
<1> QED
  BY <1>1, IngestSafety, PTL DEF IngestSpec, StepsNearer
===============================================================================
