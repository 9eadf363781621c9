------------------------- MODULE IndexLifecycleProofs -------------------------
(***************************************************************************)
(* What holds of IndexLifecycle for every set of requests, corpora and     *)
(* documents, every number of overlapping handlers and every fault:        *)
(* type correctness, completeness of recorded versions and coherence of the*)
(* manifest.                                                               *)
(*                                                                         *)
(* The argument: a manifest value never appears from nowhere.  Every value *)
(* in an inode or in a handler's memory is EmptyManifest, a copy of another*)
(* one, or an edit of a copy; so a predicate that both edits preserve, and *)
(* that no step of another handler can invalidate, holds of all of them,   *)
(* whichever inode os.replace puts in place.                               *)
(***************************************************************************)
EXTENDS IndexLifecycle, TLAPS

-----------------------------------------------------------------------------
(* What the operators of Manifest and ReplaceFile return, for any ids, corpora and    *)
(* values.  Stated once here and cited by the proofs about the state machine.         *)

\* The manifest of a missing file is well formed and records nothing.
LEMMA EmptyManifestFacts ==
    ASSUME NEW Vs, NEW Cs
    PROVE  /\ EmptyManifest \in Manifests(Vs, Cs)
           /\ Coherent(EmptyManifest)
           /\ Recorded(EmptyManifest) = {}
BY DEF EmptyManifest, Manifests, Coherent, Recorded, HasActive

\* The ids a manifest records are ids.
LEMMA RecordedIds ==
    ASSUME NEW Vs, NEW Cs, NEW m \in Manifests(Vs, Cs)
    PROVE  Recorded(m) \subseteq Vs
<1>1. \A i \in DOMAIN m.versions : m.versions[i] \in Entries(Vs, Cs)
  BY DEF Manifests
<1>2. \A i \in DOMAIN m.versions : m.versions[i].index_version \in Vs
  BY <1>1 DEF Entries
<1> QED
  BY <1>2 DEF Recorded

\* Changing the status of an entry leaves the rest of it alone.
LEMMA EntryStatus ==
    ASSUME NEW Vs, NEW Cs, NEW e \in Entries(Vs, Cs), NEW s \in {"active", "superseded"}
    PROVE  /\ WithStatus(e, s) \in Entries(Vs, Cs)
           /\ WithStatus(e, s).index_version = e.index_version
           /\ WithStatus(e, s).status = s
BY DEF Entries, WithStatus

\* record_new() keeps the shape of a manifest and adds exactly one id.
LEMMA RecordNewFacts ==
    ASSUME NEW Vs, NEW Cs, NEW m \in Manifests(Vs, Cs), NEW v \in Vs, NEW c \in Cs
    PROVE  /\ RecordNew(m, v, c) \in Manifests(Vs, Cs)
           /\ Recorded(RecordNew(m, v, c)) = Recorded(m) \cup {v}
<1> DEFINE new == [index_version |-> v, source_corpus |-> c, status |-> "active"]
           old == Supersede(m.versions)
           after == Append(old, new)
<1>1. m.versions \in Seq(Entries(Vs, Cs))
  BY DEF Manifests
<1>2. new \in Entries(Vs, Cs)
  BY DEF Entries
<1>3. /\ old \in Seq(Entries(Vs, Cs))
      /\ Len(old) = Len(m.versions)
      /\ \A i \in DOMAIN m.versions : old[i].index_version = m.versions[i].index_version
  <2>1. \A i \in DOMAIN m.versions :
            /\ WithStatus(m.versions[i], "superseded") \in Entries(Vs, Cs)
            /\ WithStatus(m.versions[i], "superseded").index_version
                  = m.versions[i].index_version
    <3>1. \A i \in DOMAIN m.versions : m.versions[i] \in Entries(Vs, Cs)
      BY <1>1
    <3> QED
      BY <3>1, EntryStatus
  <2>2. DOMAIN m.versions = 1 .. Len(m.versions) /\ Len(m.versions) \in Nat
    BY <1>1
  <2> QED
    BY <2>1, <2>2 DEF Supersede
<1>4. after \in Seq(Entries(Vs, Cs))
  BY <1>2, <1>3
<1>5. /\ DOMAIN after = (DOMAIN m.versions) \cup {Len(m.versions) + 1}
      /\ after[Len(m.versions) + 1] = new
      /\ \A i \in DOMAIN m.versions : after[i].index_version = m.versions[i].index_version
  BY <1>1, <1>2, <1>3
<1>6. RecordNew(m, v, c) = [active_version |-> v, versions |-> after]
  BY DEF RecordNew
<1>7. RecordNew(m, v, c) \in Manifests(Vs, Cs)
  BY <1>4, <1>6 DEF Manifests
<1>8. Recorded(RecordNew(m, v, c)) = Recorded(m) \cup {v}
  <2>1. new.index_version = v
    OBVIOUS
  <2> HIDE DEF after, new
  <2> QED
    BY <1>5, <1>6, <2>1 DEF Recorded
<1> QED
  BY <1>7, <1>8

\* record_new() keeps a manifest coherent when the id is a new one.
LEMMA RecordNewCoherent ==
    ASSUME NEW Vs, NEW Cs, NEW m \in Manifests(Vs, Cs), NEW v \in Vs, NEW c \in Cs,
           Coherent(m), v \notin Recorded(m)
    PROVE  Coherent(RecordNew(m, v, c))
<1> DEFINE n == Len(m.versions)
           w == RecordNew(m, v, c)
<1>1. m.versions \in Seq(Entries(Vs, Cs)) /\ DOMAIN m.versions = 1 .. n /\ n \in Nat
  BY DEF Manifests
<1>2. /\ DOMAIN w.versions = 1 .. n + 1
      /\ w.versions[n + 1].index_version = v
      /\ w.versions[n + 1].status = "active"
      /\ w.active_version = v
      /\ \A i \in 1 .. n : /\ w.versions[i].index_version = m.versions[i].index_version
                           /\ w.versions[i].status = "superseded"
  <2>1. /\ Supersede(m.versions) \in Seq(Entries(Vs, Cs))
        /\ Len(Supersede(m.versions)) = n
        /\ \A i \in 1 .. n : /\ Supersede(m.versions)[i].index_version
                                  = m.versions[i].index_version
                             /\ Supersede(m.versions)[i].status = "superseded"
    <3>1. \A i \in 1 .. n :
             /\ WithStatus(m.versions[i], "superseded") \in Entries(Vs, Cs)
             /\ WithStatus(m.versions[i], "superseded").index_version
                   = m.versions[i].index_version
             /\ WithStatus(m.versions[i], "superseded").status = "superseded"
      <4>1. \A i \in 1 .. n : m.versions[i] \in Entries(Vs, Cs)
        BY <1>1
      <4> QED
        BY <4>1, EntryStatus
    <3> QED
      BY <1>1, <3>1 DEF Supersede
  <2> QED
    BY <1>1, <2>1 DEF RecordNew
<1>3. \A i \in 1 .. n : m.versions[i].index_version # v
  BY <1>1 DEF Recorded
<1>4. \A i, j \in DOMAIN m.versions :
         m.versions[i].index_version = m.versions[j].index_version => i = j
  BY DEF Coherent
<1>5. \A i, j \in DOMAIN w.versions :
         w.versions[i].index_version = w.versions[j].index_version => i = j
  <2> HIDE DEF w
  <2>1. SUFFICES ASSUME NEW i \in DOMAIN w.versions, NEW j \in DOMAIN w.versions,
                        w.versions[i].index_version = w.versions[j].index_version
                 PROVE  i = j
    OBVIOUS
  <2>2. i \in 1 .. n \/ i = n + 1
    BY <1>1, <1>2
  <2>3. j \in 1 .. n \/ j = n + 1
    BY <1>1, <1>2
  <2>4. CASE i \in 1 .. n /\ j \in 1 .. n
    BY <1>1, <1>2, <1>4, <2>1, <2>4
  <2> QED
    BY <1>2, <1>3, <2>1, <2>2, <2>3, <2>4
<1>6. \A i \in DOMAIN w.versions :
         w.versions[i].status = "active" <=> w.versions[i].index_version = w.active_version
  BY <1>1, <1>2, <1>3
<1>7. HasActive(w) /\ w.versions # <<>>
  BY <1>1, <1>2 DEF HasActive, Recorded
<1>8. Coherent(w)
  <2> HIDE DEF w
  <2> QED
    BY <1>5, <1>6, <1>7 DEF Coherent
<1> QED
  BY <1>8

\* A rollback's edit keeps the shape, the ids and, when the target is one of
\* them, the coherence of a manifest.
LEMMA ActivateFacts ==
    ASSUME NEW Vs, NEW Cs, NEW m \in Manifests(Vs, Cs), NEW v \in Vs \cup {NoVersion}
    PROVE  /\ Activate(m, v) \in Manifests(Vs, Cs)
           /\ Recorded(Activate(m, v)) = Recorded(m)
           /\ Coherent(m) /\ v \in Recorded(m) => Coherent(Activate(m, v))
<1> DEFINE n == Len(m.versions)
           w == Activate(m, v)
<1>1. m.versions \in Seq(Entries(Vs, Cs)) /\ DOMAIN m.versions = 1 .. n /\ n \in Nat
  BY DEF Manifests
<1>2. \A i \in 1 .. n :
         LET e == WithStatus(m.versions[i],
                             IF m.versions[i].index_version = v
                             THEN "active" ELSE "superseded")
         IN  /\ e \in Entries(Vs, Cs)
             /\ e.index_version = m.versions[i].index_version
             /\ e.status = "active" <=> m.versions[i].index_version = v
  <2> TAKE i \in 1 .. n
  <2>1. m.versions[i] \in Entries(Vs, Cs)
    BY <1>1
  <2>2. CASE m.versions[i].index_version = v
    BY <2>1, <2>2, EntryStatus
  <2>3. CASE m.versions[i].index_version # v
    BY <2>1, <2>3, EntryStatus
  <2> QED
    BY <2>2, <2>3
<1>3. /\ w.active_version = v
      /\ w.versions \in Seq(Entries(Vs, Cs))
      /\ DOMAIN w.versions = 1 .. n
      /\ \A i \in 1 .. n :
            /\ w.versions[i].index_version = m.versions[i].index_version
            /\ w.versions[i].status = "active" <=> m.versions[i].index_version = v
  BY <1>1, <1>2 DEF Activate
<1>4. w \in Manifests(Vs, Cs)
  BY <1>3 DEF Manifests, Activate
<1>5. Recorded(w) = Recorded(m)
  BY <1>1, <1>3 DEF Recorded
<1>6. ASSUME Coherent(m), v \in Recorded(m)
      PROVE  Coherent(w)
  <2>1. \A i, j \in DOMAIN w.versions :
           w.versions[i].index_version = w.versions[j].index_version => i = j
    BY <1>1, <1>3, <1>6 DEF Coherent
  <2>2. HasActive(w)
    BY <1>3, <1>5, <1>6 DEF HasActive
  <2>3. w.versions # <<>>
    BY <1>1, <1>3, <1>6 DEF Recorded
  <2> HIDE DEF w
  <2> QED
    BY <1>3, <2>1, <2>2, <2>3 DEF Coherent
<1> QED
  BY <1>4, <1>5, <1>6

-----------------------------------------------------------------------------

\* A missing file is a file, and none of its inodes holds JSON.
LEMMA NoFileFacts ==
    ASSUME NEW V
    PROVE  /\ NoFile \in Files(V)
           /\ \A i \in Requests : NoFile.data[i].state # "json"
BY DEF NoFile, Files, Contents, Partial

\* An inode that holds JSON holds one of the values written to the file.
LEMMA JsonFacts ==
    ASSUME NEW V, NEW f \in Files(V)
    PROVE  /\ \A i \in Requests : f.data[i].state = "json" => f.data[i].value \in V
           /\ Parses(f) => /\ f.path \in Requests
                           /\ Content(f) \in V
           /\ Exists(f) /\ ~ Unreadable(f) <=> Parses(f)
<1>1. ASSUME NEW i \in Requests, f.data[i].state = "json"
      PROVE  f.data[i].value \in V
  <2>1. f.data[i] \in [state : {"partial", "torn"}] \cup [state : {"json"}, value : V]
    BY DEF Files, Contents
  <2> QED
    BY <1>1, <2>1
<1>2. f.path \in Requests \cup {NoRequest}
  BY DEF Files
<1> QED
  BY <1>1, <1>2 DEF Parses, Exists, Content, Unreadable

\* Opening the temporary truncates one inode and changes no other content.
LEMMA OpenTmpFacts ==
    ASSUME NEW V, NEW f \in Files(V), NEW r \in Requests
    PROVE  /\ OpenTmp(f, r) \in Files(V)
           /\ OpenTmp(f, r).tmp \in Requests
           /\ OpenTmp(f, r).path = f.path
           /\ \A i \in Requests : OpenTmp(f, r).data[i] \in {f.data[i], Partial}
<1> DEFINE i == IF f.tmp = NoRequest THEN r ELSE f.tmp
<1>1. i \in Requests
  BY DEF Files
<1>2. Partial \in Contents(V)
  BY DEF Partial, Contents
<1>3. f = [path |-> f.path, tmp |-> f.tmp, data |-> f.data]
      /\ f.data \in [Requests -> Contents(V)]
      /\ f.path \in Requests \cup {NoRequest}
  BY DEF Files
<1>4. OpenTmp(f, r) = [path |-> f.path, tmp |-> i, data |-> [f.data EXCEPT ![i] = Partial]]
  BY DEF OpenTmp
<1> HIDE DEF i
<1> QED
  BY <1>1, <1>2, <1>3, <1>4 DEF Files

\* A dump, finished or failed, puts the value or garbage into one inode.
LEMMA DumpFacts ==
    ASSUME NEW V, NEW f \in Files(V), NEW i, NEW v \in V, NEW shared \in BOOLEAN
    PROVE  /\ \A g \in Dump(f, i, v, shared) :
                 /\ g \in Files(V)
                 /\ g.path = f.path
                 /\ \A j \in Requests : g.data[j] \in {f.data[j], Json(v), Torn}
           /\ DumpFails(f, i) \in Files(V)
           /\ \A j \in Requests : DumpFails(f, i).data[j] \in {f.data[j], Torn}
<1>1. Json(v) \in Contents(V) /\ Torn \in Contents(V)
  BY DEF Json, Torn, Contents
<1>2. f = [path |-> f.path, tmp |-> f.tmp, data |-> f.data]
      /\ f.data \in [Requests -> Contents(V)]
      /\ f.path \in Requests \cup {NoRequest} /\ f.tmp \in Requests \cup {NoRequest}
  BY DEF Files
<1>3. ASSUME NEW x \in {Json(v), Torn}
      PROVE  LET g == [f EXCEPT !.data[i] = x]
             IN  /\ g \in Files(V)
                 /\ g.path = f.path
                 /\ \A j \in Requests : g.data[j] \in {f.data[j], x}
  <2>1. [f EXCEPT !.data[i] = x]
           = [path |-> f.path, tmp |-> f.tmp, data |-> [f.data EXCEPT ![i] = x]]
    BY <1>2
  <2>2. [f.data EXCEPT ![i] = x] \in [Requests -> Contents(V)]
    BY <1>1, <1>2
  <2> QED
    BY <1>2, <2>1, <2>2 DEF Files
<1>4. \A g \in Dump(f, i, v, shared) :
         g = [f EXCEPT !.data[i] = Json(v)] \/ g = [f EXCEPT !.data[i] = Torn]
  BY DEF Dump
<1> QED
  BY <1>3, <1>4 DEF DumpFails

\* os.replace moves the temporary over the file and changes no content.
LEMMA ReplaceFacts ==
    ASSUME NEW V, NEW f \in Files(V)
    PROVE  /\ Replace(f) \in Files(V)
           /\ Replace(f).data = f.data
           /\ Replace(f).path = f.tmp
BY DEF Replace, Files

-----------------------------------------------------------------------------
(* The state machine. *)

MV == Manifests(Requests, Corpora)

\* Handlers at these labels have resolved source_corpus.
CorpusLabels == {"loadCorpus", "createCollection", "upsert", "openPickle",
                 "dumpPickle", "record", "loadDelete", "openCorpus",
                 "dumpCorpus", "replaceCorpus"}
\* Indexing handlers and rollbacks both pass these or start here.
ManifestLabels == {"rollback", "checkAssets",
                   "openManifest", "dumpManifest", "replaceManifest"}

CorpusInv ==
    \A r \in Requests :
        \/ pc[r] \in CorpusLabels
        \/ pc[r] \in ManifestLabels /\ call[r].op \in BuildOps
        => call[r].corpus \in Corpora

\* A version whose handler is at one of these labels is in no manifest yet.
Unbuilt == {"idle", "readVersions", "loadCorpus", "createCollection", "upsert",
            "openPickle", "dumpPickle", "record"}

Built(v) ==
    /\ pc[v] \notin Unbuilt
    /\ v \in removed \/ (collection[v] = "full" /\ lexical[v] = "full")

\* How far the assets of a version are, by the label of its handler.
StageInv ==
    \A r \in Requests :
        /\ pc[r] \in {"openPickle", "dumpPickle", "record"} => collection[r] = "full"
        /\ pc[r] = "record" => lexical[r] = "full"

\* Between the look-up and the edit, a rollback's target is in its copy.
TargetInv ==
    \A r \in Requests : pc[r] = "checkAssets" => call[r].target \in Recorded(mem[r])

Good(m) == Coherent(m) /\ \A v \in Recorded(m) : Built(v)

ManifestInv ==
    /\ \A i \in Requests :
          manifest.data[i].state = "json" => Good(manifest.data[i].value)
    /\ \A r \in Requests : Good(mem[r])

TypeInv == TypeOK /\ CorpusInv
IInv == TypeInv /\ StageInv /\ TargetInv /\ ManifestInv

-----------------------------------------------------------------------------
(* Types.                                                                  *)

\* Operations on document maps return document maps.
LEMMA DocumentMapFacts ==
    /\ NoDocuments \in DocumentMaps
    /\ \A r \in Requests, D \in SUBSET DocIds : Supplied(r, D) \in DocumentMaps
    /\ \A f, g \in DocumentMaps : MergeDocuments(f, g) \in DocumentMaps
    /\ \A f \in DocumentMaps : \A d : Without(f, d) \in DocumentMaps
<1>1. \A f : f \in DocumentMaps <=> \E D \in SUBSET DocIds : f \in [D -> Requests]
  BY DEF DocumentMaps
<1>2. NoDocuments \in [{} -> Requests]
  BY DEF NoDocuments
<1>3. \A r \in Requests, D \in SUBSET DocIds : Supplied(r, D) \in [D -> Requests]
  BY DEF Supplied
<1>4. ASSUME NEW f \in DocumentMaps, NEW g \in DocumentMaps
      PROVE  MergeDocuments(f, g) \in DocumentMaps
  <2>1. PICK D \in SUBSET DocIds : f \in [D -> Requests]
    BY <1>1
  <2>2. PICK E \in SUBSET DocIds : g \in [E -> Requests]
    BY <1>1
  <2>3. MergeDocuments(f, g) \in [D \cup E -> Requests]
    BY <2>1, <2>2 DEF MergeDocuments
  <2> QED
    BY <1>1, <2>3
<1>5. ASSUME NEW f \in DocumentMaps, NEW d
      PROVE  Without(f, d) \in DocumentMaps
  <2>1. PICK D \in SUBSET DocIds : f \in [D -> Requests]
    BY <1>1
  <2>2. Without(f, d) \in [D \ {d} -> Requests]
    BY <2>1 DEF Without, Restrict
  <2> QED
    BY <1>1, <2>2
<1> QED
  BY <1>1, <1>2, <1>3, <1>4, <1>5

\* The manifest a handler loads is well typed when it can be parsed.
LEMMA LoadedType ==
    ASSUME TypeOK, ~ Unreadable(manifest)
    PROVE  Loaded \in MV
BY JsonFacts, EmptyManifestFacts DEF TypeOK, Loaded, MV, Parses, Unreadable

\* An answer is well typed.
LEMMA AnswerType ==
    ASSUME TypeOK, NEW r \in Requests, NEW s \in Statuses,
           NEW v \in Requests \cup {NoVersion}, Answer(r, s, v)
    PROVE  /\ pc' \in [Requests -> Labels]
           /\ reply' \in [Requests -> [status : Statuses,
                                       described : Requests \cup {NoVersion}]]
           /\ mem' \in [Requests -> MV]
           /\ fd' \in [Requests -> Requests \cup {NoRequest}]
           /\ pc'[r] = "done"
           /\ \A q \in Requests : q # r => pc'[q] = pc[q]
           /\ \A q \in Requests : mem'[q] \in {mem[q], EmptyManifest}
<1>1. EmptyManifest \in MV
  BY EmptyManifestFacts DEF MV
<1>2. "done" \in Labels
  BY DEF Labels
<1> QED
  BY <1>1, <1>2 DEF TypeOK, Answer, MV

\* The type invariant holds initially.
LEMMA InitType == Init => TypeInv
<1> SUFFICES ASSUME Init PROVE TypeInv
  OBVIOUS
<1>1. manifest \in Files(MV) /\ corpora \in [Corpora -> Files(DocumentMaps)]
  BY NoFileFacts DEF Init
<1>2. NoCall \in Calls
  BY DEF NoCall, Input, Calls, Ops, BuildOps, IndexOps
<1>3. EmptyManifest \in MV
  BY EmptyManifestFacts DEF MV
<1>4. "idle" \in Labels /\ "none" \in Statuses
  BY DEF Labels, Statuses
<1>5. restarts \in 0 .. MaxRestarts
  BY BoundsAssumption DEF Init
<1>6. TypeOK
  BY <1>1, <1>2, <1>3, <1>4, <1>5, DocumentMapFacts DEF Init, TypeOK, MV
<1>7. CorpusInv
  BY DEF Init, CorpusInv, CorpusLabels, ManifestLabels
<1> QED
  BY <1>6, <1>7 DEF TypeInv

\* A request that is accepted with well-typed input.
LEMMA AcceptType ==
    ASSUME TypeInv, NEW r \in Requests, NEW label \in Labels,
           NEW input \in Calls, NEW documents \in DocumentMaps,
           \/ label \in CorpusLabels
           \/ label \in ManifestLabels /\ input.op \in BuildOps
           => input.corpus \in Corpora,
           Accept(r, label, input, documents)
    PROVE  TypeInv'
<1>1. TypeOK'
  BY DEF TypeInv, TypeOK, Accept, Goto, At, files, assets, history
<1>2. CorpusInv'
  BY DEF TypeInv, TypeOK, CorpusInv, Accept, Goto, At, files, assets, history
<1> QED
  BY <1>1, <1>2 DEF TypeInv

LEMMA BeginType ==
    ASSUME TypeInv, NEW r \in Requests, Begin(r)
    PROVE  TypeInv'
<1>1. \A op \in Ops, append \in BOOLEAN, c \in Corpora \cup {NoCorpus},
         v \in Requests \cup {NoVersion}, d \in DocIds \cup {NoDoc} :
         /\ Input(op, append, c, v, d) \in Calls
         /\ Input(op, append, c, v, d).corpus = c
  BY DEF Input, Calls
<1>2. {"index", "folder", "upload", "reindex", "rollback", "delete"} \subseteq Ops
  BY DEF Ops, BuildOps, IndexOps
<1>3. ASSUME NEW c \in Corpora, NEW D \in SUBSET DocIds, BeginIndex(r, c, D)
      PROVE  TypeInv'
  <2>1. Accept(r, "createCollection", Input("index", FALSE, c, NoVersion, NoDoc), Supplied(r, D))
    BY <1>3 DEF BeginIndex
  <2>2. "createCollection" \in Labels
    BY DEF Labels
  <2>3. /\ Input("index", FALSE, c, NoVersion, NoDoc) \in Calls
        /\ \/ "createCollection" \in CorpusLabels
           \/ "createCollection" \in ManifestLabels /\ Input("index", FALSE, c, NoVersion, NoDoc).op \in BuildOps
           => Input("index", FALSE, c, NoVersion, NoDoc).corpus \in Corpora
    BY DEF Input, Calls, Ops, BuildOps, IndexOps, CorpusLabels, ManifestLabels
  <2> QED
    BY <2>1, <2>2, <2>3, AcceptType, DocumentMapFacts
<1>4. ASSUME NEW op \in {"folder", "upload"}, NEW append \in BOOLEAN, NEW c \in Corpora,
             NEW D \in SUBSET DocIds, BeginFiles(r, op, append, c, D)
      PROVE  TypeInv'
  <2> DEFINE label == IF append THEN "loadCorpus" ELSE "createCollection"
  <2>1. Accept(r, label, Input(op, append, c, NoVersion, NoDoc), Supplied(r, D))
    BY <1>4 DEF BeginFiles
  <2>2. label \in Labels
    BY DEF Labels
  <2>3. /\ Input(op, append, c, NoVersion, NoDoc) \in Calls
        /\ Input(op, append, c, NoVersion, NoDoc).corpus \in Corpora
    BY <1>1, <1>2
  <2> HIDE DEF label
  <2> QED
    BY <2>1, <2>2, <2>3, AcceptType, DocumentMapFacts
<1>5. ASSUME NEW op \in {"folder", "upload"}, RejectFiles(r, op)
      PROVE  TypeInv'
  <2> DEFINE input == Input(op, FALSE, NoCorpus, NoVersion, NoDoc)
  <2>1. /\ Answer(r, "422", NoVersion)
        /\ call' = [call EXCEPT ![r] = input]
        /\ UNCHANGED <<files, assets, docs, history>>
    BY <1>5 DEF RejectFiles
  <2>2. input \in Calls
    BY DEF Input, Calls, Ops, BuildOps, IndexOps
  <2>3. TypeOK /\ "422" \in Statuses
    BY DEF TypeInv, Statuses
  <2> HIDE DEF input
  <2>4. TypeOK'
    BY <2>1, <2>2, <2>3, AnswerType DEF TypeOK, files, assets, history, MV
  <2>5. CorpusInv'
    <3> SUFFICES ASSUME NEW q \in Requests
                 PROVE  \/ pc'[q] \in CorpusLabels
                        \/ pc'[q] \in ManifestLabels /\ call'[q].op \in BuildOps
                        => call'[q].corpus \in Corpora
      BY DEF CorpusInv
    <3>1. CASE q = r
      BY <2>1, <2>3, <3>1, AnswerType DEF CorpusLabels, ManifestLabels
    <3>2. CASE q # r
      BY <2>1, <2>3, <3>2, AnswerType DEF TypeInv, CorpusInv, TypeOK
    <3> QED
      BY <3>1, <3>2
  <2> QED
    BY <2>4, <2>5 DEF TypeInv
<1>6. ASSUME NEW c \in Corpora \cup {NoCorpus}, BeginReindex(r, c)
      PROVE  TypeInv'
  <2>1. Accept(r, "readVersions", Input("reindex", FALSE, c, NoVersion, NoDoc), NoDocuments)
    BY <1>6 DEF BeginReindex
  <2>2. "readVersions" \in Labels
    BY DEF Labels
  <2>3. /\ Input("reindex", FALSE, c, NoVersion, NoDoc) \in Calls
        /\ \/ "readVersions" \in CorpusLabels
           \/ "readVersions" \in ManifestLabels /\ Input("reindex", FALSE, c, NoVersion, NoDoc).op \in BuildOps
           => Input("reindex", FALSE, c, NoVersion, NoDoc).corpus \in Corpora
    BY DEF Input, Calls, Ops, BuildOps, IndexOps, CorpusLabels, ManifestLabels
  <2> QED
    BY <2>1, <2>2, <2>3, AcceptType, DocumentMapFacts
<1>7. ASSUME NEW v \in Requests, BeginRollback(r, v)
      PROVE  TypeInv'
  <2>1. Accept(r, "rollback", Input("rollback", FALSE, NoCorpus, v, NoDoc), NoDocuments)
    BY <1>7 DEF BeginRollback
  <2>2. "rollback" \in Labels
    BY DEF Labels
  <2>3. /\ Input("rollback", FALSE, NoCorpus, v, NoDoc) \in Calls
        /\ \/ "rollback" \in CorpusLabels
           \/ "rollback" \in ManifestLabels /\ Input("rollback", FALSE, NoCorpus, v, NoDoc).op \in BuildOps
           => Input("rollback", FALSE, NoCorpus, v, NoDoc).corpus \in Corpora
    BY DEF Input, Calls, Ops, BuildOps, IndexOps, CorpusLabels, ManifestLabels
  <2> QED
    BY <2>1, <2>2, <2>3, AcceptType, DocumentMapFacts
<1>8. ASSUME NEW c \in Corpora, NEW d \in DocIds, BeginDelete(r, c, d)
      PROVE  TypeInv'
  <2>1. Accept(r, "loadDelete", Input("delete", FALSE, c, NoVersion, d), NoDocuments)
    BY <1>8 DEF BeginDelete
  <2>2. "loadDelete" \in Labels
    BY DEF Labels
  <2>3. /\ Input("delete", FALSE, c, NoVersion, d) \in Calls
        /\ \/ "loadDelete" \in CorpusLabels
           \/ "loadDelete" \in ManifestLabels /\ Input("delete", FALSE, c, NoVersion, d).op \in BuildOps
           => Input("delete", FALSE, c, NoVersion, d).corpus \in Corpora
    BY DEF Input, Calls, Ops, BuildOps, IndexOps, CorpusLabels, ManifestLabels
  <2> QED
    BY <2>1, <2>2, <2>3, AcceptType, DocumentMapFacts
<1> QED
  BY <1>3, <1>4, <1>5, <1>6, <1>7, <1>8 DEF Begin

\* A handler that only moves on (and stores nothing the types depend on).
LEMMA CorpusFrame ==
    ASSUME TypeInv, NEW r \in Requests,
           \A q \in Requests : q # r => pc'[q] = pc[q] /\ call'[q] = call[q],
           \/ pc'[r] \in CorpusLabels
           \/ pc'[r] \in ManifestLabels /\ call'[r].op \in BuildOps
           => call'[r].corpus \in Corpora
    PROVE  CorpusInv'
BY DEF TypeInv, CorpusInv

\* A handler that answers and changes nothing else but files and assets.
LEMMA AnswerCorpus ==
    ASSUME TypeInv, NEW r \in Requests, NEW s \in Statuses,
           NEW v \in Requests \cup {NoVersion}, Answer(r, s, v), UNCHANGED call
    PROVE  CorpusInv'
<1>1. TypeOK
  BY DEF TypeInv
<1>2. pc'[r] = "done" /\ \A q \in Requests : q # r => pc'[q] = pc[q]
  BY <1>1, AnswerType
<1> QED
  BY <1>2, CorpusFrame DEF CorpusLabels, ManifestLabels

LEMMA FailCorpus ==
    ASSUME TypeInv, NEW r \in Requests, Fail(r), UNCHANGED call
    PROVE  CorpusInv'
<1>1. "500" \in Statuses
  BY DEF Statuses
<1> QED
  BY <1>1, AnswerCorpus DEF Fail

LEMMA FailType ==
    ASSUME TypeOK, NEW r \in Requests, Fail(r)
    PROVE  /\ pc' \in [Requests -> Labels]
           /\ reply' \in [Requests -> [status : Statuses,
                                       described : Requests \cup {NoVersion}]]
           /\ mem' \in [Requests -> MV]
           /\ fd' \in [Requests -> Requests \cup {NoRequest}]
<1>1. "500" \in Statuses
  BY DEF Statuses
<1> QED
  BY <1>1, AnswerType DEF Fail

LEMMA GotoType ==
    ASSUME TypeOK, NEW r \in Requests, NEW label \in Labels, Goto(r, label)
    PROVE  /\ pc' \in [Requests -> Labels]
           /\ pc'[r] = label
           /\ \A q \in Requests : q # r => pc'[q] = pc[q]
BY DEF TypeOK, Goto

\* The stages of _run() and the look-ups keep the types.
LEMMA StageType ==
    ASSUME TypeInv, NEW r \in Requests,
           \/ StageFails(r)
           \/ CreateCollection(r) \/ Upsert(r) \/ OpenPickle(r) \/ DumpPickle(r)
    PROVE  TypeInv'
<1>1. TypeOK
  BY DEF TypeInv
<1>2. CASE StageFails(r)
  <2>1. Fail(r) /\ UNCHANGED <<files, assets, call, docs, history>>
    BY <1>2 DEF StageFails
  <2>2. TypeOK'
    BY <1>1, <2>1, FailType DEF TypeOK, files, assets, history, MV
  <2>3. CorpusInv'
    BY <2>1, FailCorpus
  <2> QED
    BY <2>2, <2>3 DEF TypeInv
<1>3. CASE CreateCollection(r)
  <2>1. TypeOK'
    BY <1>1, <1>3 DEF TypeOK, Labels, CreateCollection, Goto, files, locals, assets, history
  <2>2. CorpusInv'
    BY <1>1, <1>3 DEF TypeInv, TypeOK, CorpusInv, CorpusLabels, ManifestLabels, CreateCollection,
                     Goto, At, locals
  <2> QED
    BY <2>1, <2>2 DEF TypeInv
<1>4. CASE Upsert(r)
  <2>1. TypeOK'
    BY <1>1, <1>4 DEF TypeOK, Labels, Upsert, Goto, files, locals, assets, history
  <2>2. CorpusInv'
    BY <1>1, <1>4 DEF TypeInv, TypeOK, CorpusInv, CorpusLabels, ManifestLabels, Upsert,
                     Goto, At, locals
  <2> QED
    BY <2>1, <2>2 DEF TypeInv
<1>5. CASE OpenPickle(r)
  <2>1. TypeOK'
    BY <1>1, <1>5 DEF TypeOK, Labels, OpenPickle, Goto, files, locals, assets, history
  <2>2. CorpusInv'
    BY <1>1, <1>5 DEF TypeInv, TypeOK, CorpusInv, CorpusLabels, ManifestLabels, OpenPickle,
                     Goto, At, locals
  <2> QED
    BY <2>1, <2>2 DEF TypeInv
<1>6. CASE DumpPickle(r)
  <2>1. TypeOK'
    BY <1>1, <1>6 DEF TypeOK, Labels, DumpPickle, Goto, files, locals, assets, history
  <2>2. CorpusInv'
    BY <1>1, <1>6 DEF TypeInv, TypeOK, CorpusInv, CorpusLabels, ManifestLabels, DumpPickle,
                     Goto, At, locals
  <2> QED
    BY <2>1, <2>2 DEF TypeInv
<1> QED
  BY <1>2, <1>3, <1>4, <1>5, <1>6

\* Reading the manifest or a corpus, and editing a copy, keeps the types.
LEMMA ReadType ==
    ASSUME TypeInv, NEW r \in Requests,
           \/ ReadVersions(r) \/ LoadCorpus(r) \/ LoadDelete(r)
           \/ Record(r) \/ Rollback(r) \/ CheckAssets(r) \/ Respond(r)
    PROVE  TypeInv'
<1>1. TypeOK
  BY DEF TypeInv
<1>2. {"200", "404", "409"} \subseteq Statuses
  BY DEF Statuses
<1>3. call[r].target \in Requests \cup {NoVersion}
      /\ call[r].corpus \in Corpora \cup {NoCorpus}
  BY <1>1 DEF TypeOK, Calls
<1>a. CASE ReadVersions(r)
  <2>1. CASE Unreadable(manifest) /\ Fail(r) /\ UNCHANGED call
             /\ UNCHANGED <<files, assets, docs, history>>
    <3>1. TypeOK'
      BY <1>1, <2>1, FailType DEF TypeOK, files, assets, history, MV
    <3> QED
      BY <2>1, <3>1, FailCorpus DEF TypeInv
  <2>2. CASE Answer(r, "404", NoVersion) /\ UNCHANGED call
             /\ UNCHANGED <<files, assets, docs, history>>
    <3>1. TypeOK'
      BY <1>1, <1>2, <2>2, AnswerType DEF TypeOK, files, assets, history, MV
    <3>2. CorpusInv'
      BY <1>2, <2>2, AnswerCorpus
    <3> QED
      BY <3>1, <3>2 DEF TypeInv
  <2>3. ASSUME ~ Unreadable(manifest),
               call[r].corpus # NoCorpus \/ Loaded.versions # <<>>,
               call' = IF call[r].corpus # NoCorpus
                       THEN call
                       ELSE [call EXCEPT ![r].corpus =
                               Loaded.versions[Len(Loaded.versions)].source_corpus],
               Goto(r, "loadCorpus"),
               UNCHANGED <<mem, fd, reply>>,
               UNCHANGED <<files, assets, docs, history>>
        PROVE  TypeInv'
    <3>1. Loaded \in MV
      BY <1>1, <2>3, LoadedType
    <3>2. ASSUME Loaded.versions # <<>>
          PROVE  Loaded.versions[Len(Loaded.versions)].source_corpus \in Corpora
      <4>1. Loaded.versions \in Seq(Entries(Requests, Corpora))
        BY <3>1 DEF MV, Manifests
      <4>2. Loaded.versions[Len(Loaded.versions)] \in Entries(Requests, Corpora)
        BY <3>2, <4>1
      <4> QED
        BY <4>2 DEF Entries
    <3>3. /\ call' \in [Requests -> Calls]
          /\ call'[r].corpus \in Corpora
          /\ \A q \in Requests : q # r => call'[q] = call[q]
      <4>1. CASE call[r].corpus # NoCorpus
        BY <1>1, <1>3, <2>3, <4>1 DEF TypeOK
      <4>2. CASE call[r].corpus = NoCorpus
        <5>1. Loaded.versions[Len(Loaded.versions)].source_corpus \in Corpora
          BY <2>3, <3>2, <4>2
        <5> DEFINE x == Loaded.versions[Len(Loaded.versions)].source_corpus
        <5>2. call \in [Requests -> Calls] /\ call[r] \in Calls
          BY <1>1 DEF TypeOK
        <5>3. call' = [call EXCEPT ![r] = [call[r] EXCEPT !.corpus = x]]
          BY <2>3, <4>2
        <5>4. x \in Corpora
          BY <5>1
        <5> HIDE DEF x
        <5>5. [call[r] EXCEPT !.corpus = x] \in Calls
              /\ [call[r] EXCEPT !.corpus = x].corpus = x
          BY <5>2, <5>4 DEF Calls
        <5> QED
          BY <5>2, <5>3, <5>4, <5>5
      <4> QED
        BY <4>1, <4>2
    <3>4. "loadCorpus" \in Labels
      BY DEF Labels
    <3>5. TypeOK'
      BY <1>1, <2>3, <3>3, <3>4, GotoType DEF TypeOK, files, assets, history
    <3>6. CorpusInv'
      BY <1>1, <2>3, <3>3, <3>4, GotoType, CorpusFrame
    <3> QED
      BY <3>5, <3>6 DEF TypeInv
  <2> QED
    BY <1>a, <2>1, <2>2, <2>3 DEF ReadVersions
<1>b. CASE LoadCorpus(r) \/ LoadDelete(r)
  <2> DEFINE f == corpora[call[r].corpus]
  <2>0. UNCHANGED <<files, assets, call, restarts>>
    BY <1>b DEF LoadCorpus, LoadDelete, history
  <2>1. call[r].corpus \in Corpora /\ f \in Files(DocumentMaps)
    BY <1>1, <1>b DEF TypeInv, TypeOK, CorpusInv, CorpusLabels, LoadCorpus, LoadDelete, At
  <2>2. CASE /\ Fail(r) \/ Answer(r, "404", NoVersion)
             /\ UNCHANGED <<docs, deleted>>
    <3>1. TypeOK'
      BY <1>1, <1>2, <2>0, <2>2, FailType, AnswerType DEF TypeOK, files, assets, MV
    <3>2. CorpusInv'
      BY <1>2, <2>0, <2>2, AnswerCorpus, FailCorpus
    <3> QED
      BY <3>1, <3>2 DEF TypeInv
  <2>3. CASE /\ docs' \in [Requests -> DocumentMaps]
             /\ deleted' \subseteq [by : Requests, corpus : Corpora, doc : DocIds,
                                    supplier : Requests]
             /\ Goto(r, "createCollection") \/ Goto(r, "openCorpus")
             /\ UNCHANGED <<mem, fd, reply>>
    <3>1. {"createCollection", "openCorpus"} \subseteq Labels
      BY DEF Labels
    <3>2. TypeOK'
      BY <1>1, <2>0, <2>3, <3>1, GotoType DEF TypeOK, files, assets
    <3>3. CorpusInv'
      BY <1>1, <2>0, <2>1, <2>3, <3>1, GotoType, CorpusFrame
    <3> QED
      BY <3>2, <3>3 DEF TypeInv
  <2>4. Parses(f) => Content(f) \in DocumentMaps
    BY <2>1, JsonFacts
  <2>5. CASE LoadCorpus(r)
    <3>1. Exists(f) /\ ~ Unreadable(f) => Parses(f)
      BY <2>1, JsonFacts
    <3>2. docs[r] \in DocumentMaps
      BY <1>1 DEF TypeOK
    <3>3. ASSUME Parses(f) \/ ~ Exists(f),
                 docs' = IF Exists(f)
                         THEN [docs EXCEPT ![r] = MergeDocuments(Content(f), docs[r])]
                         ELSE docs
          PROVE  docs' \in [Requests -> DocumentMaps]
      BY <1>1, <2>4, <3>2, <3>3, DocumentMapFacts DEF TypeOK
    <3>4. UNCHANGED deleted
      BY <2>5 DEF LoadCorpus, history
    <3>5. deleted' \subseteq [by : Requests, corpus : Corpora, doc : DocIds,
                              supplier : Requests]
      BY <1>1, <3>4 DEF TypeOK
    <3> QED
      BY <2>2, <2>3, <2>5, <3>3, <3>4, <3>5 DEF LoadCorpus
  <2>6. CASE LoadDelete(r)
    <3>1. ASSUME Parses(f), call[r].doc \in DOMAIN Content(f),
                 deleted' = deleted \cup
                   {[by |-> r, corpus |-> call[r].corpus, doc |-> call[r].doc,
                     supplier |-> Content(f)[call[r].doc]]},
                 docs' = [docs EXCEPT ![r] = Without(Content(f), call[r].doc)]
          PROVE  /\ docs' \in [Requests -> DocumentMaps]
                 /\ deleted' \subseteq [by : Requests, corpus : Corpora, doc : DocIds,
                                        supplier : Requests]
      <4>1. PICK D \in SUBSET DocIds : Content(f) \in [D -> Requests]
        BY <2>4, <3>1 DEF DocumentMaps
      <4>2. call[r].doc \in DocIds /\ Content(f)[call[r].doc] \in Requests
        BY <3>1, <4>1
      <4>3. docs' \in [Requests -> DocumentMaps]
        BY <1>1, <2>4, <3>1, DocumentMapFacts DEF TypeOK
      <4> HIDE DEF f
      <4> QED
        BY <1>1, <2>1, <3>1, <4>2, <4>3 DEF TypeOK
    <3> QED
      BY <2>2, <2>3, <2>6, <3>1 DEF LoadDelete
  <2> QED
    BY <1>b, <2>5, <2>6
<1>c. ASSUME /\ Fail(r) \/ \E s \in {"200", "404", "409"}, v \in Requests \cup {NoVersion} :
                              Answer(r, s, v)
             /\ UNCHANGED <<files, assets, call, docs, history>>
      PROVE  TypeInv'
  <2>1. TypeOK'
    BY <1>1, <1>2, <1>c, FailType, AnswerType DEF TypeOK, files, assets, history, MV
  <2>2. CorpusInv'
    BY <1>2, <1>c, FailCorpus, AnswerCorpus
  <2> QED
    BY <2>1, <2>2 DEF TypeInv
<1>d. ASSUME NEW m \in MV,
             mem' = [mem EXCEPT ![r] = m],
             Goto(r, "openManifest") \/ Goto(r, "checkAssets"),
             call[r].op \in BuildOps => call[r].corpus \in Corpora,
             UNCHANGED <<fd, reply>>,
             UNCHANGED <<files, assets, call, docs, history>>
      PROVE  TypeInv'
  <2>1. {"openManifest", "checkAssets"} \subseteq Labels
    BY DEF Labels
  <2>2. TypeOK'
    BY <1>1, <1>d, <2>1, GotoType DEF TypeOK, files, assets, history, MV
  <2>3. CorpusInv'
    BY <1>1, <1>d, <2>1, GotoType, CorpusFrame DEF CorpusLabels, ManifestLabels
  <2> QED
    BY <2>2, <2>3 DEF TypeInv
<1>e. CASE Record(r)
  <2>1. call[r].corpus \in Corpora
    BY <1>e DEF TypeInv, CorpusInv, CorpusLabels, Record, At
  <2>2. ~ Unreadable(manifest) => RecordNew(Loaded, r, call[r].corpus) \in MV
    BY <1>1, <2>1, LoadedType, RecordNewFacts DEF MV
  <2> QED
    BY <1>c, <1>d, <1>e, <2>1, <2>2 DEF Record
<1>f. CASE Rollback(r)
  <2>1. ~ Unreadable(manifest) => Loaded \in MV
    BY <1>1, LoadedType
  <2>2. call[r].op \in BuildOps => call[r].corpus \in Corpora
    BY <1>f DEF TypeInv, CorpusInv, ManifestLabels, Rollback, At
  <2> QED
    BY <1>c, <1>d, <1>f, <2>1, <2>2 DEF Rollback
<1>g. CASE CheckAssets(r)
  <2>1. Activate(mem[r], call[r].target) \in MV
    BY <1>1, <1>3, ActivateFacts DEF TypeOK, MV
  <2>2. UNCHANGED <<files, assets, call, docs, history>>
    BY <1>g DEF CheckAssets
  <2>3. CASE Answer(r, "409", NoVersion)
    BY <1>c, <2>2, <2>3
  <2>4. CASE /\ mem' = [mem EXCEPT ![r] = Activate(mem[r], call[r].target)]
             /\ Goto(r, "openManifest")
             /\ UNCHANGED <<fd, reply>>
    <3>1. call[r].op \in BuildOps => call[r].corpus \in Corpora
      BY <1>g DEF TypeInv, CorpusInv, ManifestLabels, CheckAssets, At
    <3> QED
      BY <1>d, <2>1, <2>2, <2>4, <3>1
  <2> QED
    BY <1>g, <2>3, <2>4 DEF CheckAssets
<1>h. CASE Respond(r)
  <2>1. ~ Unreadable(manifest) => Loaded.active_version \in Requests \cup {NoVersion}
    BY <1>1, LoadedType DEF MV, Manifests
  <2> QED
    BY <1>c, <1>h, <2>1 DEF Respond
<1> QED
  BY <1>a, <1>b, <1>e, <1>f, <1>g, <1>h

\* Writing a temporary file and replacing the real one keeps the types.
LEMMA WriteManifestType ==
    ASSUME TypeInv, NEW r \in Requests,
           OpenManifest(r) \/ DumpManifest(r) \/ ReplaceManifest(r)
    PROVE  TypeInv'
<1>1. TypeOK /\ manifest \in Files(MV) /\ mem[r] \in MV
  BY DEF TypeInv, TypeOK, MV
<1>2. /\ UNCHANGED <<corpora, assets, call, docs, history>>
      /\ At(r, "openManifest") \/ At(r, "dumpManifest") \/ At(r, "replaceManifest")
  BY DEF OpenManifest, DumpManifest, ReplaceManifest
<1>3. call[r].op \in BuildOps => call[r].corpus \in Corpora
  BY <1>2 DEF TypeInv, CorpusInv, ManifestLabels, At
<1>4. manifest' \in Files(MV)
  <2>1. CASE OpenManifest(r)
    BY <1>1, <2>1, OpenTmpFacts DEF OpenManifest
  <2>2. CASE DumpManifest(r)
    <3>1. ManifestShared(r) \in BOOLEAN
      BY DEF ManifestShared
    <3>2. \A f \in Dump(manifest, fd[r], mem[r], ManifestShared(r)) : f \in Files(MV)
      BY <1>1, <3>1, DumpFacts
    <3>3. DumpFails(manifest, fd[r]) \in Files(MV)
      BY <1>1, <3>1, DumpFacts
    <3> QED
      BY <2>2, <3>2, <3>3 DEF DumpManifest
  <2>3. CASE ReplaceManifest(r)
    BY <1>1, <2>3, ReplaceFacts DEF ReplaceManifest
  <2> QED
    BY <2>1, <2>2, <2>3
<1>5. CASE Fail(r) \/ Answer(r, "200", call[r].target)
  <2>1. "200" \in Statuses /\ call[r].target \in Requests \cup {NoVersion}
    BY <1>1 DEF TypeOK, Calls, Statuses
  <2>2. TypeOK'
    BY <1>1, <1>2, <1>4, <1>5, <2>1, FailType, AnswerType DEF TypeOK, assets, history, MV
  <2>3. CorpusInv'
    BY <1>2, <1>5, <2>1, FailCorpus, AnswerCorpus
  <2> QED
    BY <2>2, <2>3 DEF TypeInv
<1>6. ASSUME NEW label \in {"dumpManifest", "replaceManifest", "respond", "openCorpus"},
             Goto(r, label), UNCHANGED <<mem, reply>>,
             fd' \in [Requests -> Requests \cup {NoRequest}],
             label = "openCorpus" => call[r].op \in BuildOps
      PROVE  TypeInv'
  <2>1. label \in Labels
    BY DEF Labels
  <2>2. TypeOK'
    BY <1>1, <1>2, <1>4, <1>6, <2>1, GotoType DEF TypeOK, assets, history, MV
  <2>3. CorpusInv'
    BY <1>1, <1>2, <1>3, <1>6, <2>1, GotoType, CorpusFrame DEF CorpusLabels, ManifestLabels
  <2> QED
    BY <2>2, <2>3 DEF TypeInv
<1>7. CASE OpenManifest(r)
  <2>1. fd' \in [Requests -> Requests \cup {NoRequest}]
    BY <1>1, <1>7, OpenTmpFacts DEF OpenManifest, TypeOK
  <2> QED
    BY <1>6, <1>7, <2>1 DEF OpenManifest
<1>8. UNCHANGED fd => fd' \in [Requests -> Requests \cup {NoRequest}]
  BY <1>1 DEF TypeOK
<1>9. CASE DumpManifest(r)
  BY <1>5, <1>6, <1>8, <1>9 DEF DumpManifest
<1>10. CASE ReplaceManifest(r)
  <2>1. IndexOps \subseteq BuildOps
    BY DEF BuildOps
  <2> QED
    BY <1>5, <1>6, <1>8, <1>10, <2>1 DEF ReplaceManifest
<1> QED
  BY <1>7, <1>9, <1>10

LEMMA WriteCorpusType ==
    ASSUME TypeInv, NEW r \in Requests,
           OpenCorpus(r) \/ DumpCorpus(r) \/ ReplaceCorpus(r)
    PROVE  TypeInv'
<1> DEFINE c == call[r].corpus
<1>1. /\ UNCHANGED <<manifest, assets, call, docs, history>>
      /\ At(r, "openCorpus") \/ At(r, "dumpCorpus") \/ At(r, "replaceCorpus")
  BY DEF OpenCorpus, DumpCorpus, ReplaceCorpus
<1>2. TypeOK /\ c \in Corpora /\ docs[r] \in DocumentMaps
      /\ corpora \in [Corpora -> Files(DocumentMaps)]
  BY <1>1 DEF TypeInv, TypeOK, CorpusInv, CorpusLabels, At
<1>3. corpora[c] \in Files(DocumentMaps)
  BY <1>2
<1>4. corpora' \in [Corpora -> Files(DocumentMaps)]
  <2>1. CASE OpenCorpus(r)
    <3>1. OpenTmp(corpora[c], r) \in Files(DocumentMaps)
      BY <1>3, OpenTmpFacts
    <3> QED
      BY <1>2, <2>1, <3>1 DEF OpenCorpus
  <2>2. CASE DumpCorpus(r)
    <3>1. CorpusShared(r) \in BOOLEAN
      BY DEF CorpusShared
    <3>2. /\ \A f \in Dump(corpora[c], fd[r], docs[r], CorpusShared(r)) :
                f \in Files(DocumentMaps)
          /\ DumpFails(corpora[c], fd[r]) \in Files(DocumentMaps)
      BY <1>2, <1>3, <3>1, DumpFacts
    <3> QED
      BY <1>2, <2>2, <3>2 DEF DumpCorpus
  <2>3. CASE ReplaceCorpus(r)
    <3>1. Replace(corpora[c]) \in Files(DocumentMaps)
      BY <1>3, ReplaceFacts
    <3> QED
      BY <1>2, <2>3, <3>1 DEF ReplaceCorpus
  <2> QED
    BY <2>1, <2>2, <2>3
<1>5. ASSUME \/ Fail(r)
             \/ \E s \in {"200", "404", "500"} : Answer(r, s, NoVersion)
      PROVE  TypeInv'
  <2>1. {"200", "404", "500"} \subseteq Statuses
    BY DEF Statuses
  <2>2. TypeOK'
    BY <1>1, <1>2, <1>4, <1>5, <2>1, FailType, AnswerType DEF TypeOK, assets, history, MV
  <2>3. CorpusInv'
    BY <1>1, <1>5, <2>1, FailCorpus, AnswerCorpus
  <2> QED
    BY <2>2, <2>3 DEF TypeInv
<1>6. ASSUME NEW label \in {"dumpCorpus", "replaceCorpus", "respond"},
             Goto(r, label), UNCHANGED <<mem, reply>>,
             fd' \in [Requests -> Requests \cup {NoRequest}]
      PROVE  TypeInv'
  <2>1. label \in Labels
    BY DEF Labels
  <2>2. TypeOK'
    BY <1>1, <1>2, <1>4, <1>6, <2>1, GotoType DEF TypeOK, assets, history, MV
  <2>3. CorpusInv'
    BY <1>1, <1>2, <1>6, <2>1, GotoType, CorpusFrame
  <2> QED
    BY <2>2, <2>3 DEF TypeInv
<1>7. UNCHANGED fd => fd' \in [Requests -> Requests \cup {NoRequest}]
  BY <1>2 DEF TypeOK
<1>8. CASE OpenCorpus(r)
  <2>1. OpenTmp(corpora[c], r).tmp \in Requests
    BY <1>3, OpenTmpFacts
  <2>2. fd' \in [Requests -> Requests \cup {NoRequest}]
    BY <1>2, <1>8, <2>1 DEF OpenCorpus, TypeOK
  <2> QED
    BY <1>6, <1>8, <2>2 DEF OpenCorpus
<1>9. CASE DumpCorpus(r)
  BY <1>5, <1>6, <1>7, <1>9 DEF DumpCorpus
<1>10. CASE ReplaceCorpus(r)
  BY <1>5, <1>6, <1>7, <1>10 DEF ReplaceCorpus
<1> QED
  BY <1>8, <1>9, <1>10

\* A crash and the removal of assets keep the types.
LEMMA EnvironmentType ==
    ASSUME TypeInv, Crash \/ \E v \in Requests : RemoveAssets(v)
    PROVE  TypeInv'
<1>1. TypeOK
  BY DEF TypeInv
<1>2. CASE Crash
  <2>1. EmptyManifest \in MV /\ "done" \in Labels /\ "lost" \in Statuses
    BY EmptyManifestFacts DEF MV, Labels, Statuses
  <2>2. restarts' \in 0 .. MaxRestarts
    BY <1>1, <1>2, BoundsAssumption DEF TypeOK, Crash
  <2>3. pc' \in [Requests -> Labels]
    BY <1>1, <1>2, <2>1 DEF TypeOK, Crash
  <2>4. reply' \in [Requests -> [status : Statuses,
                                 described : Requests \cup {NoVersion}]]
    BY <1>1, <1>2, <2>1 DEF TypeOK, Crash
  <2>5. mem' \in [Requests -> MV] /\ fd' \in [Requests -> Requests \cup {NoRequest}]
    BY <1>2, <2>1 DEF Crash
  <2>6. TypeOK'
    BY <1>1, <1>2, <2>2, <2>3, <2>4, <2>5 DEF TypeOK, Crash, files, assets, MV
  <2>7. CorpusInv'
    BY <1>2 DEF TypeInv, CorpusInv, Crash, CorpusLabels, ManifestLabels
  <2> QED
    BY <2>6, <2>7 DEF TypeInv
<1>3. ASSUME NEW v \in Requests, RemoveAssets(v)
      PROVE  TypeInv'
  <2>1. TypeOK'
    BY <1>1, <1>3 DEF TypeOK, RemoveAssets, files, locals, history
  <2>2. CorpusInv'
    BY <1>3 DEF TypeInv, CorpusInv, RemoveAssets, locals
  <2> QED
    BY <2>1, <2>2 DEF TypeInv
<1> QED
  BY <1>2, <1>3

\* Every step keeps the types.
LEMMA TypeStep == TypeInv /\ [Next]_vars => TypeInv'
<1> SUFFICES ASSUME TypeInv, [Next]_vars PROVE TypeInv'
  OBVIOUS
<1>1. CASE UNCHANGED vars
  BY <1>1 DEF TypeInv, TypeOK, CorpusInv, vars, files, assets, locals, history
<1>2. ASSUME NEW r \in Requests, Begin(r) \/ Run(r)
      PROVE  TypeInv'
  BY <1>2, BeginType, StageType, ReadType, WriteManifestType, WriteCorpusType DEF Run
<1> QED
  BY <1>1, <1>2, EnvironmentType DEF Next

\* Type correctness: every variable keeps its type in every behaviour, however
\* the handlers of IndexManifest.save and save_corpus overlap, fail or crash.
THEOREM TypeCorrect == Spec => []TypeOK
<1>1. TypeInv => TypeOK
  BY DEF TypeInv
<1> QED
  BY <1>1, InitType, TypeStep, PTL DEF Spec

-----------------------------------------------------------------------------
(* Recorded versions stay built.                                           *)

\* No step un-builds a version: assets are written only by the handler of the
\* version itself, before it is recorded, and lost only by RemoveAssets.
LEMMA BuiltStable ==
    ASSUME TypeInv, [Next]_vars, NEW v \in Requests, Built(v)
    PROVE  Built(v)'
<1>1. pc[v] \notin Unbuilt /\ (v \in removed \/ (collection[v] = "full" /\ lexical[v] = "full"))
  BY DEF Built
<1>2. pc \in [Requests -> Labels] /\ collection \in [Requests -> {"absent", "empty", "full"}]
      /\ lexical \in [Requests -> {"absent", "partial", "full"}]
  BY DEF TypeInv, TypeOK
<1>3. ASSUME NEW r \in Requests, Begin(r) \/ Run(r)
      PROVE  Built(v)'
  <2>1. CASE Begin(r)
    <3>1. At(r, "idle") /\ UNCHANGED assets
          /\ \A q \in Requests : q # r => pc'[q] = pc[q]
      BY <1>2, <2>1 DEF Begin, BeginIndex, BeginFiles, RejectFiles, BeginReindex,
                        BeginRollback, BeginDelete, Accept, Goto, Answer
    <3>2. v # r
      BY <1>1, <3>1 DEF At, Unbuilt
    <3> QED
      BY <1>1, <3>1, <3>2 DEF Built, assets
  <2>2. CASE CreateCollection(r) \/ Upsert(r) \/ OpenPickle(r) \/ DumpPickle(r)
    <3>1. pc[r] \in Unbuilt
      BY <2>2 DEF CreateCollection, Upsert, OpenPickle, DumpPickle, At, Unbuilt
    <3>2. v # r
      BY <1>1, <3>1
    <3> QED
      BY <1>1, <1>2, <2>2, <3>2 DEF Built, CreateCollection, Upsert, OpenPickle, DumpPickle,
                                   Goto
  <2>3. CASE ReadVersions(r) \/ LoadCorpus(r) \/ Record(r) \/ StageFails(r)
    <3>1. pc[r] \in Unbuilt /\ UNCHANGED assets
          /\ \A q \in Requests : q # r => pc'[q] = pc[q]
      BY <1>2, <2>3 DEF ReadVersions, LoadCorpus, Record, StageFails, At, Unbuilt, Goto,
                        Fail, Answer
    <3>2. v # r
      BY <1>1, <3>1
    <3> QED
      BY <1>1, <3>1, <3>2 DEF Built, assets
  <2>4. CASE Rollback(r) \/ CheckAssets(r) \/ LoadDelete(r) \/ Respond(r)
    <3>1. UNCHANGED assets /\ pc'[r] \in {"done", "checkAssets", "openManifest", "openCorpus"}
          /\ \A q \in Requests : q # r => pc'[q] = pc[q]
      BY <1>2, <2>4 DEF Rollback, CheckAssets, LoadDelete, Respond, Goto, Fail, Answer
    <3> QED
      BY <1>1, <3>1 DEF Built, assets, Unbuilt
  <2>5. CASE \/ OpenManifest(r) \/ DumpManifest(r) \/ ReplaceManifest(r)
             \/ OpenCorpus(r) \/ DumpCorpus(r) \/ ReplaceCorpus(r)
    <3>1. UNCHANGED assets
          /\ pc'[r] \in {"done", "dumpManifest", "replaceManifest", "openCorpus",
                         "dumpCorpus", "replaceCorpus", "respond"}
          /\ \A q \in Requests : q # r => pc'[q] = pc[q]
      BY <1>2, <2>5 DEF OpenManifest, DumpManifest, ReplaceManifest,
                        OpenCorpus, DumpCorpus, ReplaceCorpus, Goto, Fail, Answer
    <3> QED
      BY <1>1, <3>1 DEF Built, assets, Unbuilt
  <2> QED
    BY <1>3, <2>1, <2>2, <2>3, <2>4, <2>5 DEF Run
<1>4. CASE Crash
  BY <1>1, <1>4 DEF Built, Crash, assets, Unbuilt
<1>5. ASSUME NEW u \in Requests, RemoveAssets(u)
      PROVE  Built(v)'
  BY <1>1, <1>2, <1>5 DEF Built, RemoveAssets
<1>6. CASE UNCHANGED vars
  BY <1>1, <1>6 DEF Built, vars, assets
<1> QED
  BY <1>3, <1>4, <1>5, <1>6 DEF Next

\* So a good manifest value stays good.
LEMMA GoodStable ==
    ASSUME TypeInv, [Next]_vars, NEW m \in MV, Good(m)
    PROVE  Good(m)'
<1>1. Recorded(m) \subseteq Requests
  BY RecordedIds DEF MV
<1>2. \A v \in Recorded(m) : Built(v)'
  BY <1>1, BuiltStable DEF Good
<1> QED
  BY <1>2 DEF Good

\* The stages of a version's handler fill the assets in order.
LEMMA StageStep == TypeInv /\ StageInv /\ [Next]_vars => StageInv'
<1> SUFFICES ASSUME TypeInv, StageInv, [Next]_vars, NEW v \in Requests
             PROVE  /\ pc'[v] \in {"openPickle", "dumpPickle", "record"}
                          => collection'[v] = "full"
                    /\ pc'[v] = "record" => lexical'[v] = "full"
  BY DEF StageInv
<1>1. pc \in [Requests -> Labels] /\ collection \in [Requests -> {"absent", "empty", "full"}]
      /\ lexical \in [Requests -> {"absent", "partial", "full"}]
  BY DEF TypeInv, TypeOK
<1>2. /\ pc[v] \in {"openPickle", "dumpPickle", "record"} => collection[v] = "full"
      /\ pc[v] = "record" => lexical[v] = "full"
  BY DEF StageInv
<1>3. ASSUME NEW r \in Requests, Begin(r) \/ Run(r)
      PROVE  /\ pc'[v] \in {"openPickle", "dumpPickle", "record"} => collection'[v] = "full"
             /\ pc'[v] = "record" => lexical'[v] = "full"
  <2>1. CASE CreateCollection(r) \/ Upsert(r) \/ OpenPickle(r) \/ DumpPickle(r)
    BY <1>1, <1>2, <2>1 DEF CreateCollection, Upsert, OpenPickle, DumpPickle, At, Goto
  <2>2. ASSUME UNCHANGED assets,
               pc'[r] \notin {"openPickle", "dumpPickle", "record"},
               \A q \in Requests : q # r => pc'[q] = pc[q]
        PROVE  /\ pc'[v] \in {"openPickle", "dumpPickle", "record"} => collection'[v] = "full"
               /\ pc'[v] = "record" => lexical'[v] = "full"
    BY <1>2, <2>2 DEF assets
  <2>3. CASE Begin(r)
    BY <1>1, <2>2, <2>3 DEF Begin, BeginIndex, BeginFiles, RejectFiles, BeginReindex,
                        BeginRollback, BeginDelete, Accept, Goto, Answer
  <2>4. CASE ReadVersions(r) \/ LoadCorpus(r) \/ Record(r) \/ StageFails(r)
    BY <1>1, <2>2, <2>4 DEF ReadVersions, LoadCorpus, Record, StageFails, Goto, Fail, Answer
  <2>5. CASE Rollback(r) \/ CheckAssets(r) \/ LoadDelete(r) \/ Respond(r)
    BY <1>1, <2>2, <2>5 DEF Rollback, CheckAssets, LoadDelete, Respond, Goto, Fail, Answer
  <2>6. CASE \/ OpenManifest(r) \/ DumpManifest(r) \/ ReplaceManifest(r)
             \/ OpenCorpus(r) \/ DumpCorpus(r) \/ ReplaceCorpus(r)
    BY <1>1, <2>2, <2>6 DEF OpenManifest, DumpManifest, ReplaceManifest,
                            OpenCorpus, DumpCorpus, ReplaceCorpus, Goto, Fail, Answer
  <2> QED
    BY <1>3, <2>1, <2>3, <2>4, <2>5, <2>6 DEF Run
<1>4. CASE Crash
  BY <1>1, <1>2, <1>4 DEF Crash, assets
<1>5. ASSUME NEW u \in Requests, RemoveAssets(u)
      PROVE  /\ pc'[v] \in {"openPickle", "dumpPickle", "record"} => collection'[v] = "full"
             /\ pc'[v] = "record" => lexical'[v] = "full"
  BY <1>1, <1>2, <1>5 DEF RemoveAssets, At
<1>6. CASE UNCHANGED vars
  BY <1>2, <1>6 DEF vars, assets
<1> QED
  BY <1>3, <1>4, <1>5, <1>6 DEF Next

-----------------------------------------------------------------------------
(* Where manifest values come from.                                        *)

\* A step puts JSON into an inode of the manifest only from a handler's memory.
LEMMA DataSources ==
    ASSUME TypeInv, [Next]_vars, NEW i \in Requests, manifest'.data[i].state = "json"
    PROVE  \/ manifest'.data[i] = manifest.data[i]
           \/ \E r \in Requests : manifest'.data[i] = Json(mem[r])
<1>1. manifest \in Files(MV) /\ mem \in [Requests -> MV]
  BY DEF TypeInv, TypeOK, MV
<1>2. Partial.state # "json" /\ Torn.state # "json"
  BY DEF Partial, Torn
<1>3. CASE UNCHANGED manifest
  BY <1>3
<1>4. ASSUME NEW r \in Requests, OpenManifest(r)
      PROVE  manifest'.data[i] = manifest.data[i]
  BY <1>1, <1>2, <1>4, OpenTmpFacts DEF OpenManifest
<1>5. ASSUME NEW r \in Requests, DumpManifest(r)
      PROVE  manifest'.data[i] = manifest.data[i] \/ manifest'.data[i] = Json(mem[r])
  <2>1. ManifestShared(r) \in BOOLEAN /\ mem[r] \in MV
    BY <1>1 DEF ManifestShared
  <2>2. /\ \A f \in Dump(manifest, fd[r], mem[r], ManifestShared(r)) :
              f.data[i] \in {manifest.data[i], Json(mem[r]), Torn}
        /\ DumpFails(manifest, fd[r]).data[i] \in {manifest.data[i], Torn}
    BY <1>1, <2>1, DumpFacts
  <2> QED
    BY <1>2, <1>5, <2>2 DEF DumpManifest
<1>6. ASSUME NEW r \in Requests, ReplaceManifest(r)
      PROVE  manifest'.data[i] = manifest.data[i]
  BY <1>1, <1>6, ReplaceFacts DEF ReplaceManifest
<1>7. ASSUME NEW r \in Requests, Begin(r)
      PROVE  UNCHANGED manifest
  BY <1>7 DEF Begin, BeginIndex, BeginFiles, RejectFiles, BeginReindex, BeginRollback,
              BeginDelete, Accept, files
<1>8. ASSUME NEW r \in Requests, Run(r), ~ OpenManifest(r), ~ DumpManifest(r),
             ~ ReplaceManifest(r)
      PROVE  UNCHANGED manifest
  BY <1>8 DEF Run, ReadVersions, LoadCorpus, CreateCollection, Upsert, OpenPickle, DumpPickle,
              Record, StageFails, Rollback, CheckAssets, LoadDelete, OpenCorpus, DumpCorpus,
              ReplaceCorpus, Respond, files
<1>9. (\E v \in Requests : RemoveAssets(v)) \/ Crash \/ UNCHANGED vars => UNCHANGED manifest
  BY DEF RemoveAssets, Crash, vars, files
<1> QED
  BY <1>3, <1>4, <1>5, <1>6, <1>7, <1>8, <1>9 DEF Next

\* A handler's copy of the manifest changes only by a load or an edit of its own.
LEMMA MemSources ==
    ASSUME TypeInv, [Next]_vars, NEW q \in Requests
    PROVE  \/ mem'[q] \in {mem[q], EmptyManifest}
           \/ Record(q) /\ ~ Unreadable(manifest) /\ pc'[q] = "openManifest"
                /\ mem'[q] = RecordNew(Loaded, q, call[q].corpus)
           \/ Rollback(q) /\ ~ Unreadable(manifest) /\ mem'[q] = Loaded
           \/ CheckAssets(q) /\ mem'[q] = Activate(mem[q], call[q].target)
<1>1. mem \in [Requests -> MV] /\ pc \in [Requests -> Labels]
  BY DEF TypeInv, TypeOK, MV
<1>2. ASSUME NEW r \in Requests, \/ UNCHANGED mem
                                 \/ mem' = [mem EXCEPT ![r] = EmptyManifest]
      PROVE  mem'[q] \in {mem[q], EmptyManifest}
  BY <1>1, <1>2
<1>3. ASSUME NEW r \in Requests, Begin(r)
      PROVE  mem'[q] \in {mem[q], EmptyManifest}
  BY <1>2, <1>3 DEF Begin, BeginIndex, BeginFiles, RejectFiles, BeginReindex, BeginRollback,
                    BeginDelete, Accept, Answer
<1>4. ASSUME NEW r \in Requests, Run(r), ~ Record(r), ~ Rollback(r), ~ CheckAssets(r)
      PROVE  mem'[q] \in {mem[q], EmptyManifest}
  BY <1>2, <1>4 DEF Run, ReadVersions, LoadCorpus, CreateCollection, Upsert, OpenPickle,
              DumpPickle, StageFails, OpenManifest, DumpManifest, ReplaceManifest,
              LoadDelete, OpenCorpus, DumpCorpus, ReplaceCorpus, Respond,
              Answer, Fail, locals
<1>5. ASSUME NEW r \in Requests, Record(r)
      PROVE  \/ mem'[q] \in {mem[q], EmptyManifest}
             \/ q = r /\ ~ Unreadable(manifest) /\ pc'[q] = "openManifest"
                  /\ mem'[q] = RecordNew(Loaded, q, call[q].corpus)
  BY <1>1, <1>5 DEF Record, Fail, Answer, Goto
<1>6. ASSUME NEW r \in Requests, Rollback(r)
      PROVE  \/ mem'[q] \in {mem[q], EmptyManifest}
             \/ q = r /\ ~ Unreadable(manifest) /\ mem'[q] = Loaded
  BY <1>1, <1>6 DEF Rollback, Fail, Answer
<1>7. ASSUME NEW r \in Requests, CheckAssets(r)
      PROVE  \/ mem'[q] \in {mem[q], EmptyManifest}
             \/ q = r /\ mem'[q] = Activate(mem[q], call[q].target)
  BY <1>1, <1>7 DEF CheckAssets, Answer
<1>8. CASE Crash
  BY <1>8 DEF Crash
<1>9. CASE (\E v \in Requests : RemoveAssets(v)) \/ UNCHANGED vars
  BY <1>9 DEF RemoveAssets, vars, locals
<1> QED
  BY <1>3, <1>4, <1>5, <1>6, <1>7, <1>8, <1>9 DEF Next

\* The target found by a rollback stays in its copy until the edit.
LEMMA TargetStep == TypeInv /\ TargetInv /\ [Next]_vars => TargetInv'
<1> SUFFICES ASSUME TypeInv, TargetInv, [Next]_vars, NEW q \in Requests,
                    pc'[q] = "checkAssets"
             PROVE  call'[q].target \in Recorded(mem'[q])
  BY DEF TargetInv
<1>1. /\ mem \in [Requests -> MV] /\ pc \in [Requests -> Labels]
      /\ call \in [Requests -> Calls]
  BY DEF TypeInv, TypeOK, MV
<1>2. CASE pc[q] = "checkAssets" /\ call'[q] = call[q] /\ mem'[q] = mem[q]
  BY <1>2 DEF TargetInv
<1>3. ASSUME NEW r \in Requests, Begin(r)
      PROVE  pc[q] = "checkAssets" /\ call'[q] = call[q] /\ mem'[q] = mem[q]
  BY <1>1, <1>3 DEF Begin, BeginIndex, BeginFiles, RejectFiles, BeginReindex, BeginRollback,
                    BeginDelete, Accept, Answer, Goto
<1>4. ASSUME NEW r \in Requests, Run(r), ~ Rollback(r)
      PROVE  pc[q] = "checkAssets" /\ call'[q] = call[q] /\ mem'[q] = mem[q]
  <2>1. /\ pc'[r] # "checkAssets"
        /\ r # q => pc'[q] = pc[q] /\ call'[q] = call[q] /\ mem'[q] = mem[q]
    BY <1>1, <1>4 DEF Run, ReadVersions, LoadCorpus, CreateCollection, Upsert, OpenPickle,
              DumpPickle, StageFails, Record, CheckAssets, OpenManifest, DumpManifest,
              ReplaceManifest, LoadDelete, OpenCorpus, DumpCorpus, ReplaceCorpus, Respond,
              Answer, Fail, Goto, locals
  <2> QED
    BY <2>1
<1>5. ASSUME NEW r \in Requests, Rollback(r)
      PROVE  call'[q].target \in Recorded(mem'[q])
  <2>1. CASE r # q
    BY <1>1, <1>2, <1>5, <2>1 DEF Rollback, Fail, Answer, Goto
  <2>2. CASE r = q
    BY <1>1, <1>5, <2>2 DEF Rollback, Fail, Answer, Goto
  <2> QED
    BY <2>1, <2>2
<1>6. CASE (\E v \in Requests : RemoveAssets(v)) \/ Crash \/ UNCHANGED vars
  <2>1. pc[q] = "checkAssets" /\ call'[q] = call[q] /\ mem'[q] = mem[q]
    BY <1>6 DEF RemoveAssets, Crash, vars, locals, InFlight
  <2> QED
    BY <1>2, <2>1
<1> QED
  BY <1>2, <1>3, <1>4, <1>5, <1>6 DEF Next

\* Every manifest value, on disk or in memory, stays good.
LEMMA ManifestStep ==
    IInv /\ [Next]_vars => ManifestInv'
<1> SUFFICES ASSUME IInv, [Next]_vars PROVE ManifestInv'
  OBVIOUS
<1>1. /\ TypeInv /\ StageInv /\ TargetInv /\ ManifestInv
      /\ manifest \in Files(MV) /\ mem \in [Requests -> MV]
  BY DEF IInv, TypeInv, TypeOK, MV
<1>2. ASSUME ~ Unreadable(manifest)
      PROVE  Loaded \in MV /\ Good(Loaded)
  <2>1. Loaded \in MV
    BY <1>1, <1>2, LoadedType DEF TypeInv
  <2>2. CASE Exists(manifest)
    BY <1>1, <1>2, <2>2, JsonFacts DEF Loaded, ManifestInv, Parses, Content
  <2>3. CASE ~ Exists(manifest)
    <3>1. Loaded = EmptyManifest
      BY <2>3 DEF Loaded
    <3>2. Coherent(EmptyManifest) /\ Recorded(EmptyManifest) = {}
      BY EmptyManifestFacts
    <3>3. Good(EmptyManifest)
      BY <3>2 DEF Good
    <3> QED
      BY <2>1, <3>1, <3>3
  <2> QED
    BY <2>1, <2>2, <2>3
<1>3. ASSUME NEW i \in Requests, manifest'.data[i].state = "json"
      PROVE  Good(manifest.data[i].value)'
  <2>1. ASSUME NEW m \in MV, Good(m), manifest'.data[i].value = m
        PROVE  Good(manifest.data[i].value)'
    <3>1. Coherent(m) /\ \A v \in Recorded(m) : Built(v)'
      BY <1>1, <2>1, RecordedIds, BuiltStable DEF Good, MV
    <3> QED
      BY <2>1, <3>1 DEF Good
  <2>2. CASE manifest'.data[i] = manifest.data[i]
    <3>1. manifest.data[i].value \in MV /\ Good(manifest.data[i].value)
      BY <1>1, <1>3, <2>2, JsonFacts DEF ManifestInv
    <3> QED
      BY <2>1, <2>2, <3>1
  <2>3. ASSUME NEW r \in Requests, manifest'.data[i] = Json(mem[r])
        PROVE  Good(manifest.data[i].value)'
    <3>1. mem[r] \in MV /\ Good(mem[r]) /\ manifest'.data[i].value = mem[r]
      BY <1>1, <2>3 DEF ManifestInv, Json
    <3> QED
      BY <2>1, <3>1
  <2> QED
    BY <1>1, <1>3, <2>2, <2>3, DataSources
<1>4. ASSUME NEW q \in Requests
      PROVE  Good(mem[q])'
  <2>1. CASE mem'[q] = mem[q]
    BY <1>1, <2>1, GoodStable DEF ManifestInv, Good
  <2>2. CASE mem'[q] = EmptyManifest
    BY <2>2, EmptyManifestFacts DEF Good
  <2>3. CASE Record(q) /\ ~ Unreadable(manifest) /\ pc'[q] = "openManifest"
             /\ mem'[q] = RecordNew(Loaded, q, call[q].corpus)
    <3>1. pc[q] = "record" /\ UNCHANGED assets
      BY <2>3 DEF Record, At
    <3>2. Loaded \in MV /\ Good(Loaded) /\ call[q].corpus \in Corpora
      BY <1>1, <1>2, <2>3, <3>1 DEF TypeInv, CorpusInv, CorpusLabels
    <3>3. q \notin Recorded(Loaded)
      BY <3>1, <3>2 DEF Good, Built, Unbuilt
    <3>4. Coherent(mem'[q]) /\ Recorded(mem'[q]) = Recorded(Loaded) \cup {q}
      BY <2>3, <3>2, <3>3, RecordNewFacts, RecordNewCoherent DEF Good, MV
    <3>5. Built(q)'
      BY <1>1, <2>3, <3>1 DEF StageInv, Built, Unbuilt, assets
    <3>6. \A v \in Recorded(Loaded) : Built(v)'
      BY <1>1, <3>2, GoodStable, RecordedIds, BuiltStable DEF Good, MV
    <3> QED
      BY <3>4, <3>5, <3>6 DEF Good
  <2>4. CASE Rollback(q) /\ ~ Unreadable(manifest) /\ mem'[q] = Loaded
    <3>1. Loaded \in MV /\ Good(Loaded)
      BY <1>2, <2>4
    <3>2. Coherent(Loaded) /\ \A v \in Recorded(Loaded) : Built(v)'
      BY <1>1, <3>1, RecordedIds, BuiltStable DEF Good, MV
    <3> QED
      BY <2>4, <3>2 DEF Good
  <2>5. CASE CheckAssets(q) /\ mem'[q] = Activate(mem[q], call[q].target)
    <3>1. call[q].target \in Recorded(mem[q])
      BY <1>1, <2>5 DEF TargetInv, CheckAssets, At
    <3>2. call[q].target \in Requests /\ mem[q] \in MV /\ Good(mem[q])
      BY <1>1, <3>1, RecordedIds DEF ManifestInv, MV
    <3>3. Coherent(mem'[q]) /\ Recorded(mem'[q]) = Recorded(mem[q])
      BY <2>5, <3>1, <3>2, ActivateFacts DEF Good, MV
    <3>4. \A v \in Recorded(mem[q]) : Built(v)'
      BY <1>1, <3>2, RecordedIds, BuiltStable DEF Good, MV
    <3> QED
      BY <3>3, <3>4 DEF Good
  <2> QED
    BY <1>1, <2>1, <2>2, <2>3, <2>4, <2>5, MemSources
<1> QED
  BY <1>3, <1>4 DEF ManifestInv

LEMMA InitIInv == Init => IInv
<1> SUFFICES ASSUME Init PROVE IInv
  OBVIOUS
<1>1. TypeInv
  BY InitType
<1>2. StageInv /\ TargetInv
  BY DEF Init, StageInv, TargetInv
<1>3. \A i \in Requests : manifest.data[i].state # "json"
  BY NoFileFacts DEF Init
<1>4. \A r \in Requests : Good(mem[r])
  BY EmptyManifestFacts DEF Init, Good
<1> QED
  BY <1>1, <1>2, <1>3, <1>4 DEF IInv, ManifestInv

LEMMA IInvStep == IInv /\ [Next]_vars => IInv'
BY TypeStep, StageStep, TargetStep, ManifestStep DEF IInv

\* Recorded versions are searchable: whatever handlers overlap, fail or crash,
\* a version listed by a manifest that can be read has its Qdrant collection and
\* its BM25 pickle complete, unless somebody deleted them.
THEOREM RecordedComplete == Spec => []RecordedAssetsComplete
<1>1. IInv => RecordedAssetsComplete
  <2> SUFFICES ASSUME IInv, Parses(manifest), NEW v \in Recorded(Content(manifest)),
                      v \notin removed
               PROVE  collection[v] = "full" /\ lexical[v] = "full"
    BY DEF RecordedAssetsComplete
  <2>1. manifest \in Files(MV)
    BY DEF IInv, TypeInv, TypeOK, MV
  <2>2. Good(Content(manifest))
    BY <2>1, JsonFacts DEF IInv, ManifestInv, Parses, Content
  <2> QED
    BY <2>2 DEF Good, Built
<1> QED
  BY <1>1, InitIInv, IInvStep, PTL DEF Spec

\* The manifest is coherent: one active entry, the one active_version names, and
\* no id twice, in every version of the file a reader can get to see.
THEOREM CoherentManifest == Spec => []ManifestCoherent
<1>1. IInv => ManifestCoherent
  <2>1. IInv => manifest \in Files(MV)
    BY DEF IInv, TypeInv, TypeOK, MV
  <2> QED
    BY <2>1 DEF IInv, ManifestInv, ManifestCoherent, Good, Files
<1> QED
  BY <1>1, InitIInv, IInvStep, PTL DEF Spec
===============================================================================
