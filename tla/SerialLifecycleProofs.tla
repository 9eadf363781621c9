------------------------ MODULE SerialLifecycleProofs ------------------------
(***************************************************************************)
(* What holds of IndexLifecycle when handlers do not overlap: the files    *)
(* stay readable, what was acknowledged stays, and the manifest implements *)
(* VersionedIndex, for every set of requests, corpora and documents, every *)
(* failure and any number of crashes.                                      *)
(*                                                                         *)
(* The argument: the only handler at work knows the files.  An inode that  *)
(* a path names was put there complete and is never written again, since a *)
(* handler truncates the temporary and no other inode; what the handler    *)
(* read is still on disk when it saves its edit.  So each save is one step *)
(* from the content that was read to its edit, and between saves, crashes  *)
(* and failures included, no reader can tell that anything happens.        *)
(***************************************************************************)
EXTENDS IndexLifecycleProofs, FiniteSetTheorems, SequenceTheorems

Resting(r) == pc[r] \in {"idle", "done"}
Alone == \A q, r \in Requests : q = r \/ Resting(q) \/ Resting(r)

\* No answer before the end of the handler.
ReplyInv == \A r \in Requests : pc[r] # "done" => reply[r].status = "none"

\* A file is complete, and not the one that is being written.
Settled(f) == Exists(f) => Parses(f) /\ f.path # f.tmp
SettledInv == Settled(manifest) /\ \A c \in Corpora : Settled(corpora[c])

\* Inodes are named after handlers that have opened the temporary.
ManifestWriters == {"dumpManifest", "replaceManifest", "openCorpus", "dumpCorpus",
                    "replaceCorpus", "respond", "done"}
CorpusWriters == {"dumpCorpus", "replaceCorpus", "respond", "done"}
InodeInv ==
    \A r \in Requests :
        /\ r \in {manifest.path, manifest.tmp} => pc[r] \in ManifestWriters
        /\ \A c \in Corpora :
              r \in {corpora[c].path, corpora[c].tmp} => pc[r] \in CorpusWriters

\* Between open and os.replace the temporary is the handler's own.
OpenFor(f, i) == i # NoRequest /\ f.tmp = i /\ f.data[i] = Partial
Holds(f, v) == f.tmp # NoRequest /\ f.data[f.tmp] = Json(v)
SaveInv ==
    \A r \in Requests :
        /\ pc[r] = "dumpManifest" => OpenFor(manifest, fd[r])
        /\ pc[r] = "replaceManifest" => Holds(manifest, mem[r])
        /\ pc[r] = "dumpCorpus" => OpenFor(corpora[call[r].corpus], fd[r])
        /\ pc[r] = "replaceCorpus" => Holds(corpora[call[r].corpus], docs[r])

StorageInv == Alone /\ ReplyInv /\ SettledInv /\ InodeInv /\ SaveInv

-----------------------------------------------------------------------------
(* Files.                                                                  *)

\* What a reader of g sees is what a reader of f sees.
SameView(f, g) == g.path = f.path /\ (Exists(f) => Content(g) = Content(f))

\* Opening the temporary, by a handler that the file is not named after.
LEMMA OpenSettled ==
    ASSUME NEW V, NEW f \in Files(V), NEW r \in Requests, Settled(f), r # f.path
    PROVE  /\ Settled(OpenTmp(f, r)) /\ SameView(f, OpenTmp(f, r))
           /\ OpenTmp(f, r).tmp \in {f.tmp, r}
           /\ OpenFor(OpenTmp(f, r), OpenTmp(f, r).tmp)
<1> DEFINE i == IF f.tmp = NoRequest THEN r ELSE f.tmp
           g == OpenTmp(f, r)
<1>1. /\ i \in Requests /\ i \in {f.tmp, r} /\ i # NoRequest
      /\ f.data \in [Requests -> Contents(V)]
      /\ f.path \in Requests \cup {NoRequest}
  BY NoRequestAssumption DEF Files
<1>2. g.path = f.path /\ g.tmp = i /\ g.data = [f.data EXCEPT ![i] = Partial]
  BY DEF OpenTmp
<1>3. Exists(f) => f.path # i /\ f.path \in Requests
  BY <1>1 DEF Settled, Exists
<1> HIDE DEF i, g
<1>4. Exists(f) => g.data[f.path] = f.data[f.path]
  BY <1>1, <1>2, <1>3
<1> QED
  BY <1>1, <1>2, <1>3, <1>4 DEF Settled, SameView, OpenFor, Parses, Exists, Content, g

\* Dumping into a temporary that nobody else has open.
LEMMA DumpSettled ==
    ASSUME NEW V, NEW f \in Files(V), NEW i, NEW v, Settled(f), OpenFor(f, i)
    PROVE  /\ \A g \in Dump(f, i, v, FALSE) :
                 Settled(g) /\ SameView(f, g) /\ g.tmp = f.tmp /\ Holds(g, v)
           /\ Settled(DumpFails(f, i)) /\ SameView(f, DumpFails(f, i))
           /\ DumpFails(f, i).tmp = f.tmp
<1>1. /\ f = [path |-> f.path, tmp |-> f.tmp, data |-> f.data]
      /\ f.data \in [Requests -> Contents(V)]
      /\ f.path \in Requests \cup {NoRequest} /\ f.tmp \in Requests \cup {NoRequest}
  BY DEF Files
<1>2. i \in Requests /\ i = f.tmp /\ f.data[i] = Partial
  BY <1>1 DEF OpenFor
<1>3. ASSUME NEW x
      PROVE  LET g == [f EXCEPT !.data[i] = x]
             IN  Settled(g) /\ SameView(f, g) /\ g.tmp = f.tmp /\ g.data[g.tmp] = x
  <2> DEFINE g == [f EXCEPT !.data[i] = x]
  <2>1. g.path = f.path /\ g.tmp = f.tmp /\ g.data = [f.data EXCEPT ![i] = x]
    BY <1>1
  <2>2. Exists(f) => f.path # i /\ f.path \in Requests
    BY <1>1, <1>2 DEF Settled, Exists
  <2> HIDE DEF g
  <2>3. (Exists(f) => g.data[f.path] = f.data[f.path]) /\ g.data[g.tmp] = x
    BY <1>1, <1>2, <2>1, <2>2
  <2>4. Settled(g) /\ SameView(f, g)
    BY <2>1, <2>3 DEF Settled, SameView, Parses, Exists, Content
  <2> QED
    BY <2>1, <2>3, <2>4 DEF g
<1>4. \A g \in Dump(f, i, v, FALSE) : g = [f EXCEPT !.data[i] = Json(v)]
  BY <1>2 DEF Dump
<1> QED
  BY <1>2, <1>3, <1>4 DEF DumpFails, Holds, OpenFor

\* Moving a complete temporary into place.
LEMMA ReplaceSettled ==
    ASSUME NEW V, NEW f \in Files(V), NEW v, Holds(f, v)
    PROVE  /\ Settled(Replace(f)) /\ Exists(Replace(f)) /\ Content(Replace(f)) = v
           /\ Replace(f).path = f.tmp /\ Replace(f).tmp = NoRequest
<1>1. Replace(f).path = f.tmp /\ Replace(f).tmp = NoRequest /\ Replace(f).data = f.data
  BY DEF Replace, Files
<1>2. f.data[f.tmp].state = "json" /\ f.data[f.tmp].value = v
  BY DEF Holds, Json
<1> QED
  BY <1>1, <1>2 DEF Holds, Settled, Parses, Exists, Content

-----------------------------------------------------------------------------
(* Steps.                                                                  *)

\* A request that arrives finds the files as they are and leaves them so.
LEMMA BeginFrame ==
    ASSUME TypeInv, NEW r \in Requests, Begin(r)
    PROVE  /\ pc[r] = "idle" /\ UNCHANGED <<files, assets, history>>
           /\ Cardinality(InFlight) < MaxInFlight
           /\ pc'[r] \in {"done", "createCollection", "loadCorpus", "readVersions",
                          "rollback", "loadDelete"}
           /\ IF pc'[r] = "done"
              THEN reply'[r].status = "422" /\ UNCHANGED docs
              ELSE UNCHANGED <<mem, fd, reply>>
           /\ \A q \in Requests \ {r} :
                 /\ pc'[q] = pc[q] /\ call'[q] = call[q] /\ docs'[q] = docs[q]
                 /\ mem'[q] = mem[q] /\ fd'[q] = fd[q] /\ reply'[q] = reply[q]
<1>1. /\ pc \in [Requests -> Labels] /\ call \in [Requests -> Calls]
      /\ docs \in [Requests -> DocumentMaps] /\ mem \in [Requests -> MV]
      /\ fd \in [Requests -> Requests \cup {NoRequest}]
      /\ reply \in [Requests -> [status : Statuses, described : Requests \cup {NoVersion}]]
  BY DEF TypeInv, TypeOK, MV
<1>2. ASSUME NEW op, RejectFiles(r, op)
      PROVE  /\ pc[r] = "idle" /\ UNCHANGED <<files, assets, history, docs>>
             /\ Cardinality(InFlight) < MaxInFlight
             /\ pc'[r] = "done" /\ reply'[r].status = "422"
             /\ \A q \in Requests \ {r} :
                   /\ pc'[q] = pc[q] /\ call'[q] = call[q] /\ mem'[q] = mem[q]
                   /\ fd'[q] = fd[q] /\ reply'[q] = reply[q]
  BY <1>1, <1>2 DEF RejectFiles, Answer, At
<1>3. ASSUME NEW label \in {"createCollection", "loadCorpus", "readVersions", "rollback",
                            "loadDelete"},
             NEW input, NEW documents, Accept(r, label, input, documents)
      PROVE  /\ pc[r] = "idle" /\ UNCHANGED <<files, assets, history>>
             /\ Cardinality(InFlight) < MaxInFlight
             /\ pc'[r] = label /\ UNCHANGED <<mem, fd, reply>>
             /\ \A q \in Requests \ {r} :
                   pc'[q] = pc[q] /\ call'[q] = call[q] /\ docs'[q] = docs[q]
  BY <1>1, <1>3 DEF Accept, Goto, At
<1>4. \/ RejectFiles(r, "folder") \/ RejectFiles(r, "upload")
      \/ \E label \in {"createCollection", "loadCorpus", "readVersions", "rollback",
                       "loadDelete"} :
            \E input, documents : Accept(r, label, input, documents)
  BY DEF Begin, BeginIndex, BeginFiles, BeginReindex, BeginRollback, BeginDelete
<1> QED
  BY <1>1, <1>2, <1>3, <1>4

\* A step of a handler is its own business, but for files and assets.
LEMMA RunFrame ==
    ASSUME TypeInv, NEW r \in Requests, Run(r)
    PROVE  /\ ~ Resting(r) /\ pc'[r] # "idle"
           /\ pc'[r] # "done" => reply'[r] = reply[r]
           /\ \A q \in Requests \ {r} :
                 /\ pc'[q] = pc[q] /\ call'[q] = call[q] /\ docs'[q] = docs[q]
                 /\ mem'[q] = mem[q] /\ fd'[q] = fd[q] /\ reply'[q] = reply[q]
<1>1. TypeOK
  BY DEF TypeInv
<1>2. CASE ReadVersions(r) \/ LoadCorpus(r) \/ Record(r) \/ StageFails(r)
  BY <1>1, <1>2 DEF TypeOK, ReadVersions, LoadCorpus, Record, StageFails, Answer, Fail, Goto,
                    At, Resting
<1>3. CASE CreateCollection(r) \/ Upsert(r) \/ OpenPickle(r) \/ DumpPickle(r)
  BY <1>1, <1>3 DEF TypeOK, CreateCollection, Upsert, OpenPickle, DumpPickle, Goto, At, Resting,
                    locals
<1>4. CASE Rollback(r) \/ CheckAssets(r) \/ LoadDelete(r) \/ Respond(r)
  BY <1>1, <1>4 DEF TypeOK, Rollback, CheckAssets, LoadDelete, Respond, Answer, Fail, Goto,
                    At, Resting
<1>5. CASE OpenManifest(r) \/ DumpManifest(r) \/ ReplaceManifest(r)
  BY <1>1, <1>5 DEF TypeOK, OpenManifest, DumpManifest, ReplaceManifest, Answer, Fail, Goto,
                    At, Resting
<1>6. CASE OpenCorpus(r) \/ DumpCorpus(r) \/ ReplaceCorpus(r)
  BY <1>1, <1>6 DEF TypeOK, OpenCorpus, DumpCorpus, ReplaceCorpus, Answer, Fail, Goto,
                    At, Resting
<1> QED
  BY <1>2, <1>3, <1>4, <1>5, <1>6 DEF Run

\* A crash ends every handler and leaves the files as they are.
LEMMA CrashFrame ==
    ASSUME TypeInv, Crash
    PROVE  /\ UNCHANGED <<files, assets, call, docs, deleted>>
           /\ \A r \in Requests :
                 /\ Resting(r)' /\ (pc'[r] = "idle" <=> pc[r] = "idle")
                 /\ \/ reply'[r] = reply[r] /\ pc'[r] = pc[r]
                    \/ reply'[r].status = "lost" /\ ~ Resting(r) /\ pc'[r] = "done"
BY DEF TypeInv, TypeOK, Crash, InFlight, Resting

\* Bounded to one, handlers do not overlap.
LEMMA AloneStep ==
    ASSUME MaxInFlight = 1, TypeInv, Alone, [Next]_vars
    PROVE  Alone'
<1>1. ASSUME NEW r \in Requests, Begin(r)
      PROVE  Alone'
  <2>1. ASSUME NEW q \in Requests, ~ Resting(q)
        PROVE  FALSE
    <3>1. InFlight = {q}
      BY <2>1 DEF Alone, InFlight, Resting
    <3>2. Cardinality(InFlight) = 1
      BY <3>1, FS_Singleton
    <3> QED
      BY <1>1, <3>2, BeginFrame
  <2> QED
    BY <1>1, <2>1, BeginFrame DEF Alone, Resting
<1>2. ASSUME NEW r \in Requests, Run(r)
      PROVE  Alone'
  BY <1>2, RunFrame DEF Alone, Resting
<1>3. CASE Crash
  BY <1>3, CrashFrame DEF Alone
<1>4. CASE (\E v \in Requests : RemoveAssets(v)) \/ UNCHANGED vars
  BY <1>4 DEF Alone, Resting, RemoveAssets, vars
<1> QED
  BY <1>1, <1>2, <1>3, <1>4 DEF Next

LEMMA ReplyStep == TypeInv /\ ReplyInv /\ [Next]_vars => ReplyInv'
<1> SUFFICES ASSUME TypeInv, ReplyInv, [Next]_vars PROVE ReplyInv'
  OBVIOUS
<1>1. ASSUME NEW r \in Requests, Begin(r) \/ Run(r)
      PROVE  ReplyInv'
  BY <1>1, BeginFrame, RunFrame DEF ReplyInv, Resting
<1>2. CASE Crash
  BY <1>2, CrashFrame DEF ReplyInv
<1>3. CASE (\E v \in Requests : RemoveAssets(v)) \/ UNCHANGED vars
  BY <1>3 DEF ReplyInv, RemoveAssets, vars
<1> QED
  BY <1>1, <1>2, <1>3 DEF Next

-----------------------------------------------------------------------------
(* What each step does to the files.                                       *)

\* Only six actions write files.
LEMMA FilesKept ==
    ASSUME TypeInv, NEW r \in Requests,
           \/ ReadVersions(r) \/ LoadCorpus(r) \/ CreateCollection(r) \/ Upsert(r)
           \/ OpenPickle(r) \/ DumpPickle(r) \/ Record(r) \/ StageFails(r)
           \/ Rollback(r) \/ CheckAssets(r) \/ LoadDelete(r) \/ Respond(r)
    PROVE  /\ UNCHANGED files
           /\ pc[r] \notin ManifestWriters \/ (pc[r] = "respond" /\ pc'[r] = "done")
           /\ pc'[r] \notin {"dumpManifest", "replaceManifest", "dumpCorpus", "replaceCorpus"}
<1>1. pc \in [Requests -> Labels]
  BY DEF TypeInv, TypeOK
<1> QED
  BY <1>1 DEF ReadVersions, LoadCorpus, CreateCollection, Upsert, OpenPickle, DumpPickle, Record,
       StageFails, Rollback, CheckAssets, LoadDelete, Respond, At, ManifestWriters, Goto, Fail,
       Answer

\* The manifest, by a handler that is alone.
LEMMA ManifestWrites ==
    ASSUME TypeInv, StorageInv, NEW r \in Requests
    PROVE  /\ OpenManifest(r) =>
                 /\ Settled(manifest') /\ SameView(manifest, manifest')
                 /\ manifest'.tmp \in {manifest.tmp, r}
                 /\ OpenFor(manifest', fd'[r])
           /\ DumpManifest(r) =>
                 /\ Settled(manifest') /\ SameView(manifest, manifest')
                 /\ manifest'.tmp = manifest.tmp
                 /\ pc'[r] = "replaceManifest" => Holds(manifest', mem[r])
           /\ ReplaceManifest(r) =>
                 /\ Settled(manifest') /\ Exists(manifest') /\ Content(manifest') = mem[r]
                 /\ manifest' = Replace(manifest)
                 /\ manifest'.path = manifest.tmp /\ manifest'.tmp = NoRequest
<1>1. /\ manifest \in Files(MV) /\ Settled(manifest)
      /\ fd \in [Requests -> Requests \cup {NoRequest}] /\ pc \in [Requests -> Labels]
  BY DEF TypeInv, TypeOK, MV, StorageInv, SettledInv
<1>2. CASE OpenManifest(r)
  <2>1. r # manifest.path
    BY <1>2 DEF StorageInv, InodeInv, OpenManifest, At, ManifestWriters
  <2> QED
    BY <1>1, <1>2, <2>1, OpenSettled DEF OpenManifest, DumpManifest, ReplaceManifest, At
<1>3. CASE DumpManifest(r)
  <2>1. OpenFor(manifest, fd[r])
    BY <1>3 DEF StorageInv, SaveInv, DumpManifest, At
  <2>2. ManifestShared(r) = FALSE
    BY <1>3 DEF StorageInv, Alone, Resting, ManifestShared, DumpManifest, At
  <2>3. /\ \A g \in Dump(manifest, fd[r], mem[r], FALSE) :
              Settled(g) /\ SameView(manifest, g) /\ g.tmp = manifest.tmp /\ Holds(g, mem[r])
        /\ Settled(DumpFails(manifest, fd[r])) /\ SameView(manifest, DumpFails(manifest, fd[r]))
        /\ DumpFails(manifest, fd[r]).tmp = manifest.tmp
    BY <1>1, <2>1, DumpSettled
  <2>4. \/ manifest' \in Dump(manifest, fd[r], mem[r], FALSE)
        \/ manifest' = DumpFails(manifest, fd[r]) /\ pc'[r] # "replaceManifest"
    BY <1>1, <1>3, <2>2 DEF DumpManifest, Fail, Answer
  <2> QED
    BY <1>3, <2>3, <2>4 DEF OpenManifest, DumpManifest, ReplaceManifest, At
<1>4. CASE ReplaceManifest(r)
  <2>1. Holds(manifest, mem[r])
    BY <1>4 DEF StorageInv, SaveInv, ReplaceManifest, At
  <2>2. manifest' = Replace(manifest)
    BY <1>4, <2>1 DEF ReplaceManifest, TmpMissing, Holds
  <2> QED
    BY <1>1, <1>4, <2>1, <2>2, ReplaceSettled DEF OpenManifest, DumpManifest, ReplaceManifest, At
<1> QED
  BY <1>2, <1>3, <1>4

\* A corpus file, by a handler that is alone.
LEMMA CorpusWrites ==
    ASSUME TypeInv, StorageInv, NEW r \in Requests, NEW c, c = call[r].corpus
    PROVE  /\ OpenCorpus(r) =>
                 /\ Settled(corpora'[c]) /\ SameView(corpora[c], corpora'[c])
                 /\ corpora'[c].tmp \in {corpora[c].tmp, r}
                 /\ OpenFor(corpora'[c], fd'[r])
           /\ DumpCorpus(r) =>
                 /\ Settled(corpora'[c]) /\ SameView(corpora[c], corpora'[c])
                 /\ corpora'[c].tmp = corpora[c].tmp
                 /\ pc'[r] = "replaceCorpus" => Holds(corpora'[c], docs[r])
           /\ ReplaceCorpus(r) =>
                 /\ Settled(corpora'[c]) /\ Exists(corpora'[c])
                 /\ Content(corpora'[c]) = docs[r]
                 /\ corpora'[c].path = corpora[c].tmp /\ corpora'[c].tmp = NoRequest
           /\ OpenCorpus(r) \/ DumpCorpus(r) \/ ReplaceCorpus(r) =>
                 /\ c \in Corpora /\ UNCHANGED <<manifest, call, docs>>
                 /\ \A b \in Corpora \ {c} : corpora'[b] = corpora[b]
<1>1. /\ corpora \in [Corpora -> Files(DocumentMaps)]
      /\ fd \in [Requests -> Requests \cup {NoRequest}] /\ pc \in [Requests -> Labels]
  BY DEF TypeInv, TypeOK
<1>2. At(r, "openCorpus") \/ At(r, "dumpCorpus") \/ At(r, "replaceCorpus")
         => /\ c \in Corpora
            /\ corpora[c] \in Files(DocumentMaps) /\ Settled(corpora[c])
  BY <1>1 DEF TypeInv, CorpusInv, CorpusLabels, At, StorageInv, SettledInv
<1>3. OpenCorpus(r) \/ DumpCorpus(r) \/ ReplaceCorpus(r) =>
         /\ c \in Corpora /\ UNCHANGED <<manifest, call, docs>>
         /\ \A b \in Corpora \ {c} : corpora'[b] = corpora[b]
  BY <1>1, <1>2 DEF OpenCorpus, DumpCorpus, ReplaceCorpus
<1>4. CASE OpenCorpus(r)
  <2>1. r # corpora[c].path
    BY <1>2, <1>4 DEF StorageInv, InodeInv, OpenCorpus, At, CorpusWriters
  <2>2. corpora'[c] = OpenTmp(corpora[c], r) /\ fd'[r] = OpenTmp(corpora[c], r).tmp
    BY <1>1, <1>2, <1>4 DEF OpenCorpus
  <2> QED
    BY <1>2, <1>3, <1>4, <2>1, <2>2, OpenSettled DEF OpenCorpus, DumpCorpus, ReplaceCorpus, At
<1>5. CASE DumpCorpus(r)
  <2>1. OpenFor(corpora[c], fd[r])
    BY <1>5 DEF StorageInv, SaveInv, DumpCorpus, At
  <2>2. CorpusShared(r) = FALSE
    BY <1>5 DEF StorageInv, Alone, Resting, CorpusShared, DumpCorpus, At
  <2>3. /\ \A g \in Dump(corpora[c], fd[r], docs[r], FALSE) :
              Settled(g) /\ SameView(corpora[c], g) /\ g.tmp = corpora[c].tmp /\ Holds(g, docs[r])
        /\ Settled(DumpFails(corpora[c], fd[r])) /\ SameView(corpora[c], DumpFails(corpora[c], fd[r]))
        /\ DumpFails(corpora[c], fd[r]).tmp = corpora[c].tmp
    BY <1>2, <1>5, <2>1, DumpSettled DEF DumpCorpus
  <2>4. \/ corpora'[c] \in Dump(corpora[c], fd[r], docs[r], FALSE)
        \/ corpora'[c] = DumpFails(corpora[c], fd[r]) /\ pc'[r] # "replaceCorpus"
    BY <1>1, <1>2, <1>5, <2>2 DEF DumpCorpus, Fail, Answer
  <2> QED
    BY <1>3, <1>5, <2>3, <2>4 DEF OpenCorpus, DumpCorpus, ReplaceCorpus, At
<1>6. CASE ReplaceCorpus(r)
  <2>1. Holds(corpora[c], docs[r])
    BY <1>6 DEF StorageInv, SaveInv, ReplaceCorpus, At
  <2>2. corpora'[c] = Replace(corpora[c])
    BY <1>1, <1>2, <1>6, <2>1 DEF ReplaceCorpus, TmpMissing, Holds
  <2> QED
    BY <1>2, <1>3, <1>6, <2>1, <2>2, ReplaceSettled DEF OpenCorpus, DumpCorpus, ReplaceCorpus, At
<1> QED
  BY <1>3, <1>4, <1>5, <1>6

\* While one handler is at work the others rest, and need no temporary.
LEMMA SaveFrame ==
    ASSUME TypeInv, Alone, NEW r \in Requests, Run(r),
           /\ pc'[r] = "dumpManifest" => OpenFor(manifest', fd'[r])
           /\ pc'[r] = "replaceManifest" => Holds(manifest', mem'[r])
           /\ pc'[r] = "dumpCorpus" => OpenFor(corpora'[call'[r].corpus], fd'[r])
           /\ pc'[r] = "replaceCorpus" => Holds(corpora'[call'[r].corpus], docs'[r])
    PROVE  SaveInv'
<1>1. \A q \in Requests \ {r} : pc'[q] \in {"idle", "done"}
  BY RunFrame DEF Alone, Resting
<1> QED
  BY <1>1 DEF SaveInv

LEMMA StorageStep ==
    ASSUME TypeInv, StorageInv, [Next]_vars
    PROVE  SettledInv' /\ InodeInv' /\ SaveInv'
<1>1. /\ Alone /\ SettledInv /\ InodeInv /\ SaveInv
      /\ pc \in [Requests -> Labels] /\ corpora \in [Corpora -> Files(DocumentMaps)]
      /\ CorpusWriters \subseteq ManifestWriters /\ "done" \in CorpusWriters
  BY DEF StorageInv, TypeInv, TypeOK, ManifestWriters, CorpusWriters
<1>2. ASSUME NEW r \in Requests, Begin(r)
      PROVE  SettledInv' /\ InodeInv' /\ SaveInv'
  <2>1. /\ manifest' = manifest /\ corpora' = corpora /\ pc[r] = "idle"
        /\ pc'[r] \notin {"dumpManifest", "replaceManifest", "dumpCorpus", "replaceCorpus"}
        /\ \A q \in Requests \ {r} :
              /\ pc'[q] = pc[q] /\ call'[q] = call[q] /\ docs'[q] = docs[q]
              /\ mem'[q] = mem[q] /\ fd'[q] = fd[q]
    BY <1>2, BeginFrame DEF files
  <2>2. SettledInv' /\ SaveInv'
    BY <1>1, <2>1 DEF SettledInv, SaveInv
  <2>3. InodeInv'
    BY <1>1, <2>1 DEF InodeInv, ManifestWriters, CorpusWriters
  <2> QED
    BY <2>2, <2>3
<1>3. ASSUME NEW r \in Requests,
             \/ ReadVersions(r) \/ LoadCorpus(r) \/ CreateCollection(r) \/ Upsert(r)
             \/ OpenPickle(r) \/ DumpPickle(r) \/ Record(r) \/ StageFails(r)
             \/ Rollback(r) \/ CheckAssets(r) \/ LoadDelete(r) \/ Respond(r)
      PROVE  SettledInv' /\ InodeInv' /\ SaveInv'
  <2>1. /\ manifest' = manifest /\ corpora' = corpora
        /\ pc[r] \notin ManifestWriters \/ (pc[r] = "respond" /\ pc'[r] = "done")
        /\ pc'[r] \notin {"dumpManifest", "replaceManifest", "dumpCorpus", "replaceCorpus"}
    BY <1>3, FilesKept DEF files
  <2>2. Run(r) /\ \A q \in Requests \ {r} : pc'[q] = pc[q]
    BY <1>3, RunFrame DEF Run
  <2>3. SettledInv'
    BY <1>1, <2>1 DEF SettledInv
  <2>4. InodeInv'
    BY <1>1, <2>1, <2>2 DEF InodeInv, ManifestWriters, CorpusWriters
  <2> QED
    BY <1>1, <2>1, <2>2, <2>3, <2>4, SaveFrame
<1>4. ASSUME NEW r \in Requests, OpenManifest(r) \/ DumpManifest(r) \/ ReplaceManifest(r)
      PROVE  SettledInv' /\ InodeInv' /\ SaveInv'
  <2>1. /\ corpora' = corpora
        /\ pc[r] \in {"openManifest", "dumpManifest", "replaceManifest"}
        /\ pc'[r] \in {"dumpManifest", "replaceManifest", "openCorpus", "respond", "done"}
    BY <1>1, <1>4 DEF OpenManifest, DumpManifest, ReplaceManifest, At, Goto, Fail, Answer
  <2>2. Run(r) /\ \A q \in Requests \ {r} : pc'[q] = pc[q]
    BY <1>4, RunFrame DEF Run
  <2>3. /\ Settled(manifest')
        /\ {manifest'.path, manifest'.tmp} \subseteq {manifest.path, manifest.tmp, r, NoRequest}
        /\ OpenManifest(r) => OpenFor(manifest', fd'[r])
        /\ DumpManifest(r) /\ pc'[r] = "replaceManifest" => Holds(manifest', mem[r])
    BY <1>4, ManifestWrites DEF SameView
  <2>4. SettledInv'
    BY <1>1, <2>1, <2>3 DEF SettledInv
  <2>5. InodeInv'
    BY <1>1, <2>1, <2>2, <2>3, NoRequestAssumption DEF InodeInv, ManifestWriters, CorpusWriters
  <2>6. /\ pc'[r] = "dumpManifest" => OpenManifest(r)
        /\ pc'[r] = "replaceManifest" => DumpManifest(r) /\ mem' = mem
    BY <1>1, <1>4 DEF OpenManifest, DumpManifest, ReplaceManifest, Goto, Fail, Answer
  <2>7. SaveInv'
    BY <1>1, <2>1, <2>2, <2>3, <2>6, SaveFrame
  <2> QED
    BY <2>4, <2>5, <2>7
<1>5. ASSUME NEW r \in Requests, OpenCorpus(r) \/ DumpCorpus(r) \/ ReplaceCorpus(r)
      PROVE  SettledInv' /\ InodeInv' /\ SaveInv'
  <2> DEFINE c == call[r].corpus
  <2>1. /\ pc[r] \in {"openCorpus", "dumpCorpus", "replaceCorpus"}
        /\ pc'[r] \in {"dumpCorpus", "replaceCorpus", "respond", "done"}
    BY <1>1, <1>5 DEF OpenCorpus, DumpCorpus, ReplaceCorpus, At, Goto, Fail, Answer
  <2>2. Run(r) /\ \A q \in Requests \ {r} : pc'[q] = pc[q]
    BY <1>5, RunFrame DEF Run
  <2>3. /\ c \in Corpora /\ UNCHANGED <<manifest, call, docs>>
        /\ \A b \in Corpora \ {c} : corpora'[b] = corpora[b]
        /\ Settled(corpora'[c])
        /\ {corpora'[c].path, corpora'[c].tmp}
              \subseteq {corpora[c].path, corpora[c].tmp, r, NoRequest}
        /\ OpenCorpus(r) => OpenFor(corpora'[c], fd'[r])
        /\ DumpCorpus(r) /\ pc'[r] = "replaceCorpus" => Holds(corpora'[c], docs[r])
    BY <1>5, CorpusWrites DEF SameView
  <2>4. /\ pc'[r] = "dumpCorpus" => OpenCorpus(r)
        /\ pc'[r] = "replaceCorpus" => DumpCorpus(r)
    BY <1>1, <1>5 DEF OpenCorpus, DumpCorpus, ReplaceCorpus, Goto, Fail, Answer
  <2> HIDE DEF c
  <2>5. SettledInv'
    BY <1>1, <2>3 DEF SettledInv
  <2>6. InodeInv'
    BY <1>1, <2>1, <2>2, <2>3, NoRequestAssumption DEF InodeInv, ManifestWriters, CorpusWriters
  <2>7. SaveInv'
    BY <1>1, <2>1, <2>2, <2>3, <2>4, SaveFrame DEF c
  <2> QED
    BY <2>5, <2>6, <2>7
<1>6. CASE Crash
  <2>1. /\ manifest' = manifest /\ corpora' = corpora
        /\ \A r \in Requests : /\ pc'[r] \in {"idle", "done"}
                               /\ pc'[r] = "idle" <=> pc[r] = "idle"
    BY <1>6, CrashFrame DEF files, Resting
  <2> QED
    BY <1>1, <2>1 DEF SettledInv, InodeInv, SaveInv, ManifestWriters, CorpusWriters
<1>7. CASE (\E v \in Requests : RemoveAssets(v)) \/ UNCHANGED vars
  <2>1. UNCHANGED <<manifest, corpora, pc, call, docs, mem, fd>>
    BY <1>7 DEF RemoveAssets, vars, files, locals
  <2> QED
    BY <1>1, <2>1 DEF SettledInv, InodeInv, SaveInv
<1> QED
  BY <1>2, <1>3, <1>4, <1>5, <1>6, <1>7 DEF Next, Run

\* The storage invariant of handlers that do not overlap is inductive.
LEMMA InitStorage == Init => StorageInv
BY NoFileFacts, NoRequestAssumption
   DEF Init, StorageInv, Alone, Resting, ReplyInv, SettledInv, Settled, Exists, NoFile,
       InodeInv, SaveInv

LEMMA StorageInvStep ==
    ASSUME MaxInFlight = 1, TypeInv, StorageInv, [Next]_vars
    PROVE  StorageInv'
BY AloneStep, ReplyStep, StorageStep DEF StorageInv

\* One handler at a time never leaves a JSON file unreadable, whatever write fails
\* half-way and wherever the process dies: tmp file and replace do what save() and
\* save_corpus() are written for.
THEOREM AlwaysReadable ==
    ASSUME MaxInFlight = 1
    PROVE  Spec => []FilesReadable
<1>1. Init => TypeInv /\ StorageInv
  BY InitType, InitStorage
<1>2. TypeInv /\ StorageInv /\ [Next]_vars => (TypeInv /\ StorageInv)'
  BY TypeStep, StorageInvStep
<1>3. TypeInv /\ StorageInv => FilesReadable
  BY DEF StorageInv, SettledInv, Settled, FilesReadable, Unreadable, Parses
<1> QED
  BY <1>1, <1>2, <1>3, PTL DEF Spec

-----------------------------------------------------------------------------
(* Versions.                                                               *)

\* Which operations a handler at a label can be serving.
OpAt(label, op) ==
    /\ label = "readVersions" => op = "reindex"
    /\ label \in {"loadCorpus", "createCollection", "upsert", "openPickle", "dumpPickle",
                  "record", "respond"} => op \in BuildOps
    /\ label \in {"rollback", "checkAssets"} => op = "rollback"
    /\ label \in {"openManifest", "dumpManifest", "replaceManifest"}
          => op \in BuildOps \cup {"rollback"}
    /\ label = "loadDelete" => op = "delete"
    /\ label \in {"openCorpus", "dumpCorpus", "replaceCorpus"} => op \in IndexOps \cup {"delete"}
OpInv == \A r \in Requests : OpAt(pc[r], call[r].op)

\* The version v of corpus c is listed by m.
Entry(m, v, c) ==
    \E i \in DOMAIN m.versions : m.versions[i].index_version = v /\ m.versions[i].source_corpus = c

\* A handler's copy is one edit away from what is on disk.
EditInv ==
    \A r \in Requests :
        /\ pc[r] = "checkAssets" => mem[r] = Loaded /\ call[r].target \in Recorded(Loaded)
        /\ pc[r] \in {"openManifest", "dumpManifest", "replaceManifest"} =>
              IF call[r].op = "rollback"
              THEN call[r].target \in Recorded(Loaded) /\ mem[r] = Activate(Loaded, call[r].target)
              ELSE r \notin Recorded(Loaded) /\ mem[r] = RecordNew(Loaded, r, call[r].corpus)

\* Until the handler that recorded it answers, a version stays the active one.
NewestInv ==
    \A r \in Requests :
        pc[r] \in {"openCorpus", "dumpCorpus", "replaceCorpus", "respond"}
           /\ call[r].op \in BuildOps
              => Loaded.active_version = r /\ Entry(Loaded, r, call[r].corpus)

ToldInv ==
    \A r \in Requests :
        Acknowledged(r) /\ call[r].op \in BuildOps
            => reply[r].described = r /\ r \in Recorded(Loaded)

VersionInv == OpInv /\ EditInv /\ NewestInv /\ ToldInv

\* Both edits keep the entries there are, in their order.
LEMMA EntriesKept ==
    ASSUME NEW m \in MV, NEW v \in Requests, NEW c \in Corpora
    PROVE  LET n == Len(m.versions)
               w == RecordNew(m, v, c)
               x == Activate(m, v)
           IN  /\ n \in Nat /\ DOMAIN m.versions = 1 .. n
               /\ DOMAIN w.versions = 1 .. n + 1
               /\ w.versions[n + 1].index_version = v /\ w.versions[n + 1].source_corpus = c
               /\ \A i \in 1 .. n : /\ w.versions[i].index_version = m.versions[i].index_version
                                    /\ w.versions[i].source_corpus = m.versions[i].source_corpus
               /\ DOMAIN x.versions = 1 .. n
               /\ \A i \in 1 .. n : /\ x.versions[i].index_version = m.versions[i].index_version
                                    /\ x.versions[i].source_corpus = m.versions[i].source_corpus
<1> DEFINE w == RecordNew(m, v, c)
           n == Len(m.versions)
<1>1. /\ m.versions \in Seq(Entries(Requests, Corpora)) /\ n \in Nat
      /\ DOMAIN m.versions = 1 .. n
  BY DEF MV, Manifests
<1>2. ASSUME NEW i \in 1 .. n, NEW status
      PROVE  /\ WithStatus(m.versions[i], status).index_version = m.versions[i].index_version
             /\ WithStatus(m.versions[i], status).source_corpus = m.versions[i].source_corpus
  BY <1>1 DEF WithStatus, Entries
<1>3. /\ DOMAIN w.versions = 1 .. n + 1
      /\ w.versions[n + 1].index_version = v /\ w.versions[n + 1].source_corpus = c
      /\ \A i \in 1 .. n : /\ w.versions[i].index_version = m.versions[i].index_version
                           /\ w.versions[i].source_corpus = m.versions[i].source_corpus
  <2>1. /\ Supersede(m.versions) \in Seq(Entries(Requests, Corpora))
        /\ Len(Supersede(m.versions)) = n
        /\ \A i \in 1 .. n : Supersede(m.versions)[i] = WithStatus(m.versions[i], "superseded")
    <3>1. \A i \in 1 .. n : WithStatus(m.versions[i], "superseded") \in Entries(Requests, Corpora)
      BY <1>1, EntryStatus
    <3> QED
      BY <1>1, <3>1 DEF Supersede
  <2> DEFINE new == [index_version |-> v, source_corpus |-> c, status |-> "active"]
             old == Supersede(m.versions)
  <2>2. w.versions = Append(old, new) /\ new.index_version = v /\ new.source_corpus = c
    BY DEF RecordNew
  <2>3. new \in Entries(Requests, Corpora)
    BY DEF Entries
  <2> HIDE DEF new, old
  <2>4. /\ DOMAIN w.versions = 1 .. n + 1 /\ w.versions[n + 1] = new
        /\ \A i \in 1 .. n : w.versions[i] = old[i]
    BY <1>1, <2>1, <2>2, <2>3 DEF old
  <2>5. \A i \in 1 .. n : w.versions[i] = WithStatus(m.versions[i], "superseded")
    BY <2>1, <2>4 DEF old
  <2>6. \A i \in 1 .. n : /\ w.versions[i].index_version = m.versions[i].index_version
                          /\ w.versions[i].source_corpus = m.versions[i].source_corpus
    BY <1>2, <2>5
  <2> QED
    BY <2>2, <2>4, <2>6
<1>4. /\ DOMAIN Activate(m, v).versions = 1 .. n
      /\ \A i \in 1 .. n :
            /\ Activate(m, v).versions[i].index_version = m.versions[i].index_version
            /\ Activate(m, v).versions[i].source_corpus = m.versions[i].source_corpus
  BY <1>1, <1>2 DEF Activate
<1> QED
  BY <1>1, <1>3, <1>4

LEMMA EntryFacts ==
    ASSUME NEW m \in MV, NEW v \in Requests, NEW c \in Corpora
    PROVE  /\ Entry(m, v, c) => v \in Recorded(m)
           /\ Entry(RecordNew(m, v, c), v, c)
           /\ \A u \in Requests, b \in Corpora :
                 Entry(m, u, b) => Entry(RecordNew(m, v, c), u, b)
           /\ \A u \in Requests, b \in Corpora : Entry(m, u, b) => Entry(Activate(m, v), u, b)
<1> DEFINE w == RecordNew(m, v, c)
           n == Len(m.versions)
           x == Activate(m, v)
<1>1. n \in Nat /\ DOMAIN m.versions = 1 .. n
  BY EntriesKept
<1>2. /\ DOMAIN w.versions = 1 .. n + 1
      /\ w.versions[n + 1].index_version = v /\ w.versions[n + 1].source_corpus = c
      /\ \A i \in 1 .. n : /\ w.versions[i].index_version = m.versions[i].index_version
                           /\ w.versions[i].source_corpus = m.versions[i].source_corpus
  BY EntriesKept
<1>3. /\ DOMAIN x.versions = 1 .. n
      /\ \A i \in 1 .. n : /\ x.versions[i].index_version = m.versions[i].index_version
                           /\ x.versions[i].source_corpus = m.versions[i].source_corpus
  BY EntriesKept
<1> HIDE DEF w, x, n
<1>5. Entry(m, v, c) => v \in Recorded(m)
  BY DEF Entry, Recorded
<1>6. Entry(w, v, c)
  BY <1>1, <1>2 DEF Entry
<1>7. ASSUME NEW u \in Requests, NEW b \in Corpora, Entry(m, u, b)
      PROVE  Entry(w, u, b) /\ Entry(x, u, b)
  <2>1. PICK i \in 1 .. n : m.versions[i].index_version = u /\ m.versions[i].source_corpus = b
    BY <1>1, <1>7 DEF Entry
  <2>2. i \in 1 .. n + 1
    BY <1>1
  <2> QED
    BY <1>2, <1>3, <2>1, <2>2 DEF Entry
<1> QED
  BY <1>5, <1>6, <1>7 DEF w, x

\* What a handler would load is good, and changes only by ReplaceManifest.
LEMMA LoadedGood ==
    ASSUME IInv, StorageInv
    PROVE  Loaded \in MV /\ Good(Loaded) /\ ~ Unreadable(manifest)
<1>1. manifest \in Files(MV) /\ Settled(manifest)
  BY DEF IInv, TypeInv, TypeOK, MV, StorageInv, SettledInv
<1>2. CASE Exists(manifest)
  BY <1>1, <1>2, JsonFacts DEF Settled, Loaded, IInv, ManifestInv, Parses, Content, Unreadable
<1>3. CASE ~ Exists(manifest)
  <2>1. Loaded = EmptyManifest
    BY <1>3 DEF Loaded
  <2> QED
    BY <1>3, <2>1, EmptyManifestFacts DEF MV, Good, Unreadable
<1> QED
  BY <1>2, <1>3

LEMMA LoadedStep ==
    ASSUME TypeInv, StorageInv, [Next]_vars
    PROVE  /\ \A r \in Requests : ReplaceManifest(r) => Loaded' = mem[r]
           /\ (\A r \in Requests : ~ ReplaceManifest(r)) => Loaded' = Loaded
<1>1. ASSUME NEW r \in Requests, ReplaceManifest(r)
      PROVE  Loaded' = mem[r]
  BY <1>1, ManifestWrites DEF Loaded
<1>2. ASSUME NEW r \in Requests, OpenManifest(r) \/ DumpManifest(r)
      PROVE  Loaded' = Loaded
  BY <1>2, ManifestWrites DEF Loaded, SameView, Exists
<1>3. ASSUME UNCHANGED manifest
      PROVE  Loaded' = Loaded
  BY <1>3 DEF Loaded
<1>4. ASSUME NEW r \in Requests, Begin(r)
      PROVE  UNCHANGED manifest
  BY <1>4, BeginFrame DEF files
<1>5. ASSUME NEW r \in Requests, Run(r), ~ OpenManifest(r), ~ DumpManifest(r),
             ~ ReplaceManifest(r)
      PROVE  UNCHANGED manifest
  BY <1>5, FilesKept, CorpusWrites DEF Run, files
<1>6. Crash \/ (\E v \in Requests : RemoveAssets(v)) \/ UNCHANGED vars => UNCHANGED manifest
  BY DEF Crash, RemoveAssets, vars, files
<1> QED
  BY <1>1, <1>2, <1>3, <1>4, <1>5, <1>6 DEF Next

\* So no version is ever taken off the manifest on disk.
LEMMA RecordedGrows ==
    ASSUME IInv, StorageInv, EditInv, OpInv, [Next]_vars
    PROVE  /\ Recorded(Loaded) \subseteq Recorded(Loaded')
           /\ \A v \in Requests, c \in Corpora : Entry(Loaded, v, c) => Entry(Loaded', v, c)
<1>1. TypeInv /\ Loaded \in MV
  BY LoadedGood DEF IInv
<1>2. ASSUME NEW r \in Requests, ReplaceManifest(r)
      PROVE  /\ Recorded(Loaded) \subseteq Recorded(Loaded')
             /\ \A v \in Requests, c \in Corpora : Entry(Loaded, v, c) => Entry(Loaded', v, c)
  <2>1. pc[r] = "replaceManifest" /\ Loaded' = mem[r]
    BY <1>1, <1>2, LoadedStep DEF ReplaceManifest, At
  <2>2. CASE call[r].op = "rollback"
    <3>1. call[r].target \in Requests /\ Loaded' = Activate(Loaded, call[r].target)
      BY <1>1, <2>1, <2>2, RecordedIds DEF EditInv, MV
    <3> QED
      BY <1>1, <3>1, ActivateFacts, EntryFacts DEF MV, TypeInv, CorpusInv
  <2>3. CASE call[r].op # "rollback"
    <3>1. call[r].corpus \in Corpora /\ Loaded' = RecordNew(Loaded, r, call[r].corpus)
      BY <1>1, <2>1, <2>3 DEF EditInv, OpInv, OpAt, TypeInv, CorpusInv, ManifestLabels
    <3> QED
      BY <1>1, <3>1, RecordNewFacts, EntryFacts DEF MV
  <2> QED
    BY <2>2, <2>3
<1> QED
  BY <1>1, <1>2, LoadedStep

LEMMA OpStep == TypeInv /\ OpInv /\ [Next]_vars => OpInv'
<1> SUFFICES ASSUME TypeInv, OpInv, [Next]_vars PROVE OpInv'
  OBVIOUS
<1>1. pc \in [Requests -> Labels] /\ call \in [Requests -> Calls]
  BY DEF TypeInv, TypeOK
<1>2. OpAt("done", "index") /\ OpAt("idle", "index") /\ \A op : OpAt("done", op)
  BY DEF OpAt
<1>3. ASSUME NEW r \in Requests, OpAt(pc'[r], call'[r].op),
             \A q \in Requests \ {r} : pc'[q] = pc[q] /\ call'[q] = call[q]
      PROVE  OpInv'
  BY <1>3 DEF OpInv
<1>4. ASSUME NEW r \in Requests, Begin(r)
      PROVE  OpInv'
  <2>1. ASSUME NEW label, NEW input, NEW documents, Accept(r, label, input, documents)
        PROVE  pc'[r] = label /\ call'[r] = input
    BY <1>1, <2>1 DEF Accept, Goto
  <2>2. ASSUME NEW op, RejectFiles(r, op)
        PROVE  OpAt(pc'[r], call'[r].op)
    BY <1>1, <1>2, <2>2 DEF RejectFiles, Answer
  <2>3. ASSUME NEW c, NEW D, BeginIndex(r, c, D)
        PROVE  OpAt(pc'[r], call'[r].op)
    BY <2>1, <2>3 DEF BeginIndex, Input, OpAt, BuildOps, IndexOps
  <2>4. ASSUME NEW op \in {"folder", "upload"}, NEW append, NEW c, NEW D,
               BeginFiles(r, op, append, c, D)
        PROVE  OpAt(pc'[r], call'[r].op)
    BY <2>1, <2>4 DEF BeginFiles, Input, OpAt, BuildOps, IndexOps
  <2>5. ASSUME NEW c, BeginReindex(r, c)
        PROVE  OpAt(pc'[r], call'[r].op)
    BY <2>1, <2>5 DEF BeginReindex, Input, OpAt
  <2>6. ASSUME NEW v, BeginRollback(r, v)
        PROVE  OpAt(pc'[r], call'[r].op)
    BY <2>1, <2>6 DEF BeginRollback, Input, OpAt
  <2>7. ASSUME NEW c, NEW d, BeginDelete(r, c, d)
        PROVE  OpAt(pc'[r], call'[r].op)
    BY <2>1, <2>7 DEF BeginDelete, Input, OpAt
  <2>8. OpAt(pc'[r], call'[r].op)
    BY <1>4, <2>2, <2>3, <2>4, <2>5, <2>6, <2>7 DEF Begin
  <2> QED
    BY <1>3, <1>4, <2>8, BeginFrame
<1>5. ASSUME NEW r \in Requests, Run(r)
      PROVE  OpInv'
  <2>1. OpAt(pc[r], call[r].op)
    BY DEF OpInv
  <2>2. call'[r].op = call[r].op
    BY <1>1, <1>5 DEF Run, ReadVersions, LoadCorpus, CreateCollection, Upsert, OpenPickle,
              DumpPickle, Record, StageFails, Rollback, CheckAssets, OpenManifest, DumpManifest,
              ReplaceManifest, LoadDelete, OpenCorpus, DumpCorpus, ReplaceCorpus, Respond,
              locals, Calls
  <2>3. ASSUME ReadVersions(r) \/ LoadCorpus(r) \/ Record(r) \/ StageFails(r)
        PROVE  OpAt(pc'[r], call'[r].op)
    BY <1>1, <2>1, <2>2, <2>3 DEF ReadVersions, LoadCorpus, Record, StageFails, Answer, Fail,
                                  Goto, At, OpAt, BuildOps
  <2>4. ASSUME CreateCollection(r) \/ Upsert(r) \/ OpenPickle(r) \/ DumpPickle(r)
        PROVE  OpAt(pc'[r], call'[r].op)
    BY <1>1, <2>1, <2>2, <2>4 DEF CreateCollection, Upsert, OpenPickle, DumpPickle, Goto, At, OpAt
  <2>5. ASSUME Rollback(r) \/ CheckAssets(r) \/ LoadDelete(r) \/ Respond(r)
        PROVE  OpAt(pc'[r], call'[r].op)
    BY <1>1, <2>1, <2>2, <2>5 DEF Rollback, CheckAssets, LoadDelete, Respond, Answer, Fail, Goto,
                                  At, OpAt
  <2>6. ASSUME OpenManifest(r) \/ DumpManifest(r) \/ ReplaceManifest(r)
        PROVE  OpAt(pc'[r], call'[r].op)
    BY <1>1, <2>1, <2>2, <2>6 DEF OpenManifest, DumpManifest, ReplaceManifest, Answer, Fail,
                                  Goto, At, OpAt, BuildOps
  <2>7. ASSUME OpenCorpus(r) \/ DumpCorpus(r) \/ ReplaceCorpus(r)
        PROVE  OpAt(pc'[r], call'[r].op)
    BY <1>1, <2>1, <2>2, <2>7 DEF OpenCorpus, DumpCorpus, ReplaceCorpus, Answer, Fail, Goto,
                                  At, OpAt, BuildOps
  <2>8. OpAt(pc'[r], call'[r].op)
    BY <1>5, <2>3, <2>4, <2>5, <2>6, <2>7 DEF Run
  <2> QED
    BY <1>3, <1>5, <2>8, RunFrame
<1>6. CASE Crash
  <2>1. call' = call /\ \A r \in Requests : pc'[r] \in {"done", pc[r]}
    BY <1>1, <1>6 DEF Crash
  <2> QED
    BY <1>2, <2>1 DEF OpInv
<1>7. CASE (\E v \in Requests : RemoveAssets(v)) \/ UNCHANGED vars
  BY <1>7 DEF OpInv, RemoveAssets, vars, locals
<1> QED
  BY <1>4, <1>5, <1>6, <1>7 DEF Next

\* The edit in a handler's memory, and what its save makes of the manifest.
LEMMA VersionRun ==
    ASSUME IInv, StorageInv, VersionInv, [Next]_vars, NEW r \in Requests, Run(r)
    PROVE  EditInv' /\ NewestInv' /\ ToldInv'
<1>1. /\ pc \in [Requests -> Labels] /\ call \in [Requests -> Calls] /\ mem \in [Requests -> MV]
      /\ reply \in [Requests -> [status : Statuses, described : Requests \cup {NoVersion}]]
      /\ TypeInv /\ OpAt(pc[r], call[r].op)
      /\ EditInv /\ NewestInv /\ ToldInv /\ Alone
  BY DEF IInv, TypeInv, TypeOK, MV, VersionInv, OpInv, StorageInv
<1>2. Loaded \in MV /\ Good(Loaded) /\ ~ Unreadable(manifest)
  BY LoadedGood
<1>3. /\ Recorded(Loaded) \subseteq Recorded(Loaded')
      /\ \A v \in Requests, c \in Corpora : Entry(Loaded, v, c) => Entry(Loaded', v, c)
  BY RecordedGrows DEF VersionInv
<1>4. \A q \in Requests \ {r} :
         /\ pc'[q] = pc[q] /\ pc[q] \in {"idle", "done"} /\ call'[q] = call[q]
         /\ reply'[q] = reply[q]
  BY <1>1, RunFrame DEF Alone, Resting
<1>5. ASSUME pc'[r] = "checkAssets" =>
                mem'[r] = Loaded' /\ call'[r].target \in Recorded(Loaded'),
             pc'[r] \in {"openManifest", "dumpManifest", "replaceManifest"} =>
                IF call'[r].op = "rollback"
                THEN /\ call'[r].target \in Recorded(Loaded')
                     /\ mem'[r] = Activate(Loaded', call'[r].target)
                ELSE /\ r \notin Recorded(Loaded')
                     /\ mem'[r] = RecordNew(Loaded', r, call'[r].corpus)
      PROVE  EditInv'
  BY <1>4, <1>5 DEF EditInv
<1>6. ASSUME pc'[r] \in {"openCorpus", "dumpCorpus", "replaceCorpus", "respond"}
                /\ call'[r].op \in BuildOps
                   => Loaded'.active_version = r /\ Entry(Loaded', r, call'[r].corpus)
      PROVE  NewestInv'
  BY <1>4, <1>6 DEF NewestInv
<1>7. ASSUME reply'[r].status = "200" /\ call'[r].op \in BuildOps
                => reply'[r].described = r /\ r \in Recorded(Loaded')
      PROVE  ToldInv'
  BY <1>1, <1>3, <1>4, <1>7 DEF ToldInv, Acknowledged
<1>8. CASE ReplaceManifest(r)
  <2>1. /\ pc[r] = "replaceManifest" /\ Loaded' = mem[r] /\ call' = call
        /\ pc'[r] \in {"openCorpus", "respond", "done"}
        /\ reply'[r].status = "200" => call[r].op = "rollback" \/ reply'[r] = reply[r]
    BY <1>1, <1>8, LoadedStep DEF ReplaceManifest, At, Goto, Fail, Answer
  <2>2. reply[r].status # "200"
    BY <2>1 DEF StorageInv, ReplyInv
  <2>3. ASSUME call[r].op \in BuildOps
        PROVE  Loaded'.active_version = r /\ Entry(Loaded', r, call'[r].corpus)
    <3>1. call[r].corpus \in Corpora /\ Loaded' = RecordNew(Loaded, r, call[r].corpus)
      BY <1>1, <2>1, <2>3 DEF EditInv, TypeInv, CorpusInv, ManifestLabels, BuildOps, IndexOps
    <3> QED
      BY <1>2, <2>1, <3>1, EntryFacts DEF RecordNew
  <2> QED
    BY <1>5, <1>6, <1>7, <2>1, <2>2, <2>3 DEF BuildOps, IndexOps
<1>9. CASE ~ ReplaceManifest(r)
  <2>1. Loaded' = Loaded
    <3>1. \A q \in Requests : ReplaceManifest(q) => pc[q] = "replaceManifest"
      BY DEF ReplaceManifest, At
    <3> QED
      BY <1>1, <1>4, <1>9, <3>1, LoadedStep
  <2>2. CASE Record(r)
    <3>1. /\ pc[r] = "record" /\ call' = call
          /\ \/ pc'[r] = "openManifest" /\ mem'[r] = RecordNew(Loaded, r, call[r].corpus)
                /\ reply' = reply
             \/ pc'[r] = "done" /\ reply'[r].status = "500"
      BY <1>1, <2>2 DEF Record, At, Goto, Fail, Answer
    <3>2. r \notin Recorded(Loaded) /\ call[r].op # "rollback" /\ reply[r].status # "200"
      BY <1>1, <1>2, <3>1 DEF Good, Built, Unbuilt, OpAt, BuildOps, IndexOps, StorageInv, ReplyInv
    <3> QED
      BY <1>5, <1>6, <1>7, <2>1, <3>1, <3>2
  <2>3. CASE Rollback(r) \/ CheckAssets(r)
    <3>1. /\ pc[r] \in {"rollback", "checkAssets"} /\ call' = call
          /\ reply'[r].status = "200" => reply'[r] = reply[r]
          /\ \/ pc'[r] = "done"
             \/ Rollback(r) /\ pc'[r] = "checkAssets" /\ mem'[r] = Loaded
                /\ call[r].target \in Recorded(Loaded)
             \/ /\ CheckAssets(r) /\ pc[r] = "checkAssets" /\ pc'[r] = "openManifest"
                /\ mem'[r] = Activate(mem[r], call[r].target)
      BY <1>1, <2>3 DEF Rollback, CheckAssets, At, Goto, Fail, Answer
    <3>2. call[r].op = "rollback" /\ reply[r].status # "200"
      BY <1>1, <3>1 DEF OpAt, StorageInv, ReplyInv
    <3>3. CheckAssets(r) /\ pc[r] = "checkAssets"
             => mem[r] = Loaded /\ call[r].target \in Recorded(Loaded)
      BY <1>1 DEF EditInv
    <3> QED
      BY <1>5, <1>6, <1>7, <2>1, <3>1, <3>2, <3>3 DEF BuildOps, IndexOps
  <2>4. CASE OpenManifest(r) \/ DumpManifest(r)
    <3>1. /\ pc[r] \in {"openManifest", "dumpManifest"} /\ call' = call
          /\ \/ pc'[r] \in {"dumpManifest", "replaceManifest"} /\ mem' = mem /\ reply' = reply
             \/ pc'[r] = "done" /\ reply'[r].status = "500"
      BY <1>1, <2>4 DEF OpenManifest, DumpManifest, At, Goto, Fail, Answer
    <3>2. reply[r].status # "200"
      BY <3>1 DEF StorageInv, ReplyInv
    <3> QED
      BY <1>1, <1>5, <1>6, <1>7, <2>1, <3>1, <3>2 DEF EditInv
  <2>5. CASE OpenCorpus(r) \/ DumpCorpus(r) \/ ReplaceCorpus(r)
    <3>1. /\ pc[r] \in {"openCorpus", "dumpCorpus", "replaceCorpus"} /\ call' = call
          /\ \/ pc'[r] \in {"dumpCorpus", "replaceCorpus", "respond"} /\ reply' = reply
             \/ pc'[r] = "done" /\ (reply'[r].status = "200" => call[r].op = "delete")
      BY <1>1, <2>5 DEF OpenCorpus, DumpCorpus, ReplaceCorpus, At, Goto, Fail, Answer
    <3>2. reply[r].status # "200"
      BY <3>1 DEF StorageInv, ReplyInv
    <3> QED
      BY <1>1, <1>5, <1>6, <1>7, <2>1, <3>1, <3>2 DEF NewestInv, BuildOps, IndexOps
  <2>6. CASE Respond(r)
    <3>1. /\ pc[r] = "respond" /\ call' = call /\ pc'[r] = "done"
          /\ reply'[r].status = "200" => reply'[r].described = Loaded.active_version
      BY <1>1, <2>6 DEF Respond, At, Fail, Answer
    <3>2. call[r].op \in BuildOps =>
             Loaded.active_version = r /\ Entry(Loaded, r, call[r].corpus)
      BY <1>1, <3>1 DEF NewestInv
    <3>3. call[r].op \in BuildOps => r \in Recorded(Loaded)
      BY <3>2 DEF Entry, Recorded
    <3> QED
      BY <1>5, <1>6, <1>7, <2>1, <3>1, <3>2, <3>3
  <2>7. CASE LoadDelete(r)
    <3>1. /\ pc[r] = "loadDelete" /\ call' = call
          /\ pc'[r] \in {"openCorpus", "done"}
      BY <1>1, <2>7 DEF LoadDelete, At, Goto, Fail, Answer
    <3>2. call[r].op = "delete"
      BY <1>1, <3>1 DEF OpAt
    <3> QED
      BY <1>5, <1>6, <1>7, <2>1, <3>1, <3>2 DEF BuildOps, IndexOps
  <2>8. CASE \/ ReadVersions(r) \/ LoadCorpus(r) \/ StageFails(r)
             \/ CreateCollection(r) \/ Upsert(r) \/ OpenPickle(r) \/ DumpPickle(r)
    <3>1. /\ pc[r] \notin {"idle", "done"}
          /\ pc'[r] \in {"loadCorpus", "createCollection", "upsert", "openPickle", "dumpPickle",
                         "record", "done"}
          /\ reply'[r].status = "200" => reply'[r] = reply[r]
      BY <1>1, <2>8 DEF ReadVersions, LoadCorpus, StageFails, CreateCollection, Upsert, OpenPickle,
                        DumpPickle, At, Goto, Fail, Answer
    <3>2. reply[r].status # "200"
      BY <3>1 DEF StorageInv, ReplyInv
    <3> QED
      BY <1>5, <1>6, <1>7, <3>1, <3>2
  <2> QED
    BY <1>9, <2>2, <2>3, <2>4, <2>5, <2>6, <2>7, <2>8 DEF Run
<1> QED
  BY <1>8, <1>9

LEMMA VersionStep == IInv /\ StorageInv /\ VersionInv /\ [Next]_vars => VersionInv'
<1> SUFFICES ASSUME IInv, StorageInv, VersionInv, [Next]_vars PROVE VersionInv'
  OBVIOUS
<1>1. OpInv'
  BY OpStep DEF VersionInv, IInv
<1>2. TypeInv /\ EditInv /\ NewestInv /\ ToldInv
  BY DEF IInv, VersionInv
<1>3. ASSUME NEW r \in Requests, Begin(r)
      PROVE  EditInv' /\ NewestInv' /\ ToldInv'
  <2>1. /\ Loaded' = Loaded
        /\ pc'[r] \in {"done", "createCollection", "loadCorpus", "readVersions", "rollback",
                       "loadDelete"}
        /\ IF pc'[r] = "done" THEN reply'[r].status = "422" ELSE reply' = reply
        /\ pc[r] = "idle"
        /\ \A q \in Requests \ {r} :
              /\ pc'[q] = pc[q] /\ call'[q] = call[q] /\ mem'[q] = mem[q]
              /\ reply'[q] = reply[q]
    BY <1>2, <1>3, BeginFrame DEF Loaded, files
  <2>2. reply'[r].status # "200"
    BY <2>1 DEF StorageInv, ReplyInv
  <2>3. EditInv'
    BY <1>2, <2>1 DEF EditInv
  <2>4. NewestInv'
    BY <1>2, <2>1 DEF NewestInv
  <2>5. ToldInv'
    BY <1>2, <2>1, <2>2 DEF ToldInv, Acknowledged
  <2> QED
    BY <2>3, <2>4, <2>5
<1>4. ASSUME NEW r \in Requests, Run(r)
      PROVE  EditInv' /\ NewestInv' /\ ToldInv'
  BY <1>4, VersionRun
<1>5. ASSUME Crash
      PROVE  EditInv' /\ NewestInv' /\ ToldInv'
  <2>1. /\ Loaded' = Loaded /\ call' = call
        /\ \A r \in Requests : /\ pc'[r] \in {"idle", "done"}
                               /\ reply'[r] = reply[r] \/ reply'[r].status = "lost"
    BY <1>2, <1>5, CrashFrame DEF Loaded, files, Resting
  <2> QED
    BY <1>2, <2>1 DEF EditInv, NewestInv, ToldInv, Acknowledged
<1>6. ASSUME (\E v \in Requests : RemoveAssets(v)) \/ UNCHANGED vars
      PROVE  EditInv' /\ NewestInv' /\ ToldInv'
  <2>1. Loaded' = Loaded /\ UNCHANGED <<pc, call, mem, reply>>
    BY <1>6 DEF RemoveAssets, vars, files, locals, Loaded
  <2> QED
    BY <1>2, <2>1 DEF EditInv, NewestInv, ToldInv, Acknowledged
<1>7. EditInv' /\ NewestInv' /\ ToldInv'
  BY <1>3, <1>4, <1>5, <1>6 DEF Next
<1> QED
  BY <1>1, <1>7 DEF VersionInv

LEMMA InitVersion == Init => VersionInv
BY DEF Init, VersionInv, OpInv, OpAt, EditInv, NewestInv, ToldInv, Acknowledged

\* All of it is inductive.
SerialInv == IInv /\ StorageInv /\ VersionInv

LEMMA InitSerial == Init => SerialInv
BY InitIInv, InitStorage, InitVersion DEF SerialInv

LEMMA SerialStep ==
    ASSUME MaxInFlight = 1
    PROVE  SerialInv /\ [Next]_vars => SerialInv'
BY IInvStep, StorageInvStep, VersionStep DEF SerialInv, IInv

\* A version that POST /index or one of its siblings reported is listed by every
\* manifest from then on, across failed saves, rollbacks and crashes.
THEOREM ReportedRecorded ==
    ASSUME MaxInFlight = 1
    PROVE  Spec => []ReportedVersionsRecorded
<1>1. SerialInv => ReportedVersionsRecorded
  BY DEF SerialInv, VersionInv, ToldInv, ReportedVersionsRecorded, Parses, Loaded
<1> QED
  BY <1>1, InitSerial, SerialStep, PTL DEF Spec

\* An indexing response describes the version its own request created: between
\* record_new() and the answer nothing else becomes active.
THEOREM ResponseIsOwn ==
    ASSUME MaxInFlight = 1
    PROVE  Spec => []ResponseDescribesOwnVersion
<1>1. SerialInv => ResponseDescribesOwnVersion
  BY DEF SerialInv, VersionInv, ToldInv, ResponseDescribesOwnVersion
<1> QED
  BY <1>1, InitSerial, SerialStep, PTL DEF Spec

-----------------------------------------------------------------------------
(* Refinement.                                                             *)

History(m) == [i \in DOMAIN m.versions |-> m.versions[i].index_version]

LEMMA HistoryFacts ==
    ASSUME NEW m \in MV, NEW v \in Requests, NEW c \in Corpora
    PROVE  /\ History(RecordNew(m, v, c)) = Append(History(m), v)
           /\ History(Activate(m, v)) = History(m)
           /\ Index!Ids(History(m)) = Recorded(m)
<1> DEFINE w == RecordNew(m, v, c)
           n == Len(m.versions)
           x == Activate(m, v)
           h == History(m)
<1>1. n \in Nat /\ DOMAIN m.versions = 1 .. n
  BY EntriesKept
<1>2. /\ DOMAIN w.versions = 1 .. n + 1
      /\ w.versions[n + 1].index_version = v
      /\ \A i \in 1 .. n : w.versions[i].index_version = m.versions[i].index_version
  BY EntriesKept
<1>3. /\ DOMAIN x.versions = 1 .. n
      /\ \A i \in 1 .. n : x.versions[i].index_version = m.versions[i].index_version
  BY EntriesKept
<1>4. \A i \in DOMAIN m.versions : m.versions[i].index_version \in Requests
  BY RecordedIds DEF Recorded, MV
<1> HIDE DEF w, x, n
<1>5. History(x) = h
  BY <1>1, <1>3 DEF History
<1>6. h \in Seq(Requests) /\ Len(h) = n /\ \A i \in 1 .. n : h[i] = m.versions[i].index_version
  BY <1>1, <1>4 DEF History
<1>7. History(w) = Append(h, v)
  <2>1. /\ History(w) \in Seq(Requests) /\ Len(History(w)) = n + 1
        /\ \A i \in 1 .. n + 1 : History(w)[i] = w.versions[i].index_version
    <3>1. \A i \in 1 .. n + 1 : w.versions[i].index_version \in Requests
      BY <1>1, <1>2, <1>4
    <3> QED
      BY <1>1, <1>2, <3>1 DEF History
  <2> HIDE DEF h
  <2>2. /\ Append(h, v) \in Seq(Requests) /\ Len(Append(h, v)) = n + 1
        /\ \A i \in 1 .. n : Append(h, v)[i] = h[i]
        /\ Append(h, v)[n + 1] = v
    BY <1>1, <1>6
  <2>3. \A i \in 1 .. n + 1 : History(w)[i] = Append(h, v)[i]
    BY <1>1, <1>2, <1>6, <2>1, <2>2
  <2> QED
    BY <2>1, <2>2, <2>3, SeqEqual
<1> QED
  BY <1>5, <1>7 DEF w, x, Index!Ids, Recorded, History

\* A save publishes or reactivates; every other step is invisible.
LEMMA RefinementStep ==
    ASSUME SerialInv, [Next]_vars
    PROVE  [Index!Next]_(Index!vars)
<1>1. /\ IInv /\ TypeInv /\ StorageInv /\ EditInv /\ OpInv
      /\ Loaded \in MV
  BY LoadedGood DEF SerialInv, IInv, VersionInv
<1>2. CASE Loaded' = Loaded
  BY <1>2 DEF Index!vars
<1>3. ASSUME NEW r \in Requests, ReplaceManifest(r)
      PROVE  Index!Next
  <2>1. pc[r] = "replaceManifest" /\ Loaded' = mem[r]
    BY <1>1, <1>3, LoadedStep DEF ReplaceManifest, At
  <2>2. ASSUME call[r].op = "rollback"
        PROVE  Index!Next
    <3> DEFINE v == call[r].target
    <3>1. v \in Recorded(Loaded) /\ v \in Requests /\ Loaded' = Activate(Loaded, v)
      BY <1>1, <2>1, <2>2, RecordedIds DEF EditInv, MV
    <3> HIDE DEF v
    <3>2. \E c : c \in Corpora
      <4>1. PICK i \in DOMAIN Loaded.versions : TRUE
        BY <3>1 DEF Recorded
      <4>2. Loaded.versions[i] \in Entries(Requests, Corpora)
        BY <1>1, <4>1 DEF MV, Manifests
      <4> QED
        BY <4>2 DEF Entries
    <3>3. /\ History(Loaded') = History(Loaded) /\ Index!Ids(History(Loaded)) = Recorded(Loaded)
          /\ Loaded'.active_version = v
      BY <1>1, <3>1, <3>2, HistoryFacts DEF Activate
    <3> QED
      BY <3>1, <3>3 DEF Index!Next, Index!Reactivate, History
  <2>3. ASSUME call[r].op # "rollback"
        PROVE  Index!Next
    <3>1. /\ call[r].corpus \in Corpora /\ r \notin Recorded(Loaded)
          /\ Loaded' = RecordNew(Loaded, r, call[r].corpus)
      BY <1>1, <2>1, <2>3 DEF EditInv, OpInv, OpAt, TypeInv, CorpusInv, ManifestLabels
    <3>2. /\ History(Loaded') = Append(History(Loaded), r)
          /\ Index!Ids(History(Loaded)) = Recorded(Loaded)
          /\ Loaded'.active_version = r
      BY <1>1, <3>1, HistoryFacts DEF RecordNew
    <3> QED
      BY <3>1, <3>2 DEF Index!Next, Index!Publish, History
  <2> QED
    BY <2>2, <2>3
<1> QED
  BY <1>1, <1>2, <1>3, LoadedStep

\* What a reader of manifest.json sees is the history and the active version of
\* VersionedIndex: indexing publishes, rollback reactivates, and nothing else, no
\* failed save and no crash, changes what readers see.
THEOREM ImplementsIndex ==
    ASSUME MaxInFlight = 1
    PROVE  Spec => ImplementsVersionedIndex
<1>1. Init => Index!Init
  BY DEF Init, Index!Init, Loaded, Exists, NoFile, EmptyManifest
<1>2. SerialInv /\ [Next]_vars => [Index!Next]_(Index!vars)
  BY RefinementStep
<1> QED
  BY <1>1, <1>2, InitSerial, SerialStep, PTL DEF Spec, Index!Spec, ImplementsVersionedIndex

-----------------------------------------------------------------------------
(* Documents.                                                              *)

\* What a request that arrives asks for, and brings along.
LEMMA BeginInput ==
    ASSUME TypeInv, NEW r \in Requests, Begin(r)
    PROVE  \/ pc'[r] = "done" /\ call'[r].append = FALSE /\ docs'[r] = docs[r]
           \/ /\ \/ /\ pc'[r] = "createCollection" /\ call'[r].append = FALSE
                    /\ call'[r].op \in IndexOps
                 \/ pc'[r] = "loadCorpus" /\ call'[r].op \in {"folder", "upload"}
              /\ \E D \in SUBSET DocIds : docs'[r] = Supplied(r, D)
           \/ /\ \/ pc'[r] = "readVersions" /\ call'[r].op = "reindex"
                 \/ pc'[r] = "rollback" /\ call'[r].op = "rollback"
                 \/ pc'[r] = "loadDelete" /\ call'[r].op = "delete"
              /\ call'[r].append = FALSE /\ docs'[r] = NoDocuments
<1>1. /\ pc \in [Requests -> Labels] /\ call \in [Requests -> Calls]
      /\ docs \in [Requests -> DocumentMaps]
  BY DEF TypeInv, TypeOK
<1>2. ASSUME NEW label, NEW input, NEW documents, Accept(r, label, input, documents)
      PROVE  pc'[r] = label /\ call'[r] = input /\ docs'[r] = documents
  BY <1>1, <1>2 DEF Accept, Goto
<1>3. ASSUME NEW c, NEW D \in SUBSET DocIds, BeginIndex(r, c, D)
      PROVE  /\ pc'[r] = "createCollection" /\ call'[r].append = FALSE
             /\ call'[r].op \in IndexOps /\ docs'[r] = Supplied(r, D)
  BY <1>2, <1>3 DEF BeginIndex, Input, IndexOps
<1>4. ASSUME NEW op \in {"folder", "upload"}, NEW append \in BOOLEAN, NEW c,
             NEW D \in SUBSET DocIds, BeginFiles(r, op, append, c, D)
      PROVE  /\ \/ /\ pc'[r] = "createCollection" /\ call'[r].append = FALSE
                   /\ call'[r].op \in IndexOps
                \/ pc'[r] = "loadCorpus" /\ call'[r].op \in {"folder", "upload"}
             /\ docs'[r] = Supplied(r, D)
  BY <1>2, <1>4 DEF BeginFiles, Input, IndexOps
<1>5. ASSUME NEW op, RejectFiles(r, op)
      PROVE  pc'[r] = "done" /\ call'[r].append = FALSE /\ docs'[r] = docs[r]
  BY <1>1, <1>5 DEF RejectFiles, Input, Answer
<1>6. ASSUME NEW c, BeginReindex(r, c)
      PROVE  /\ pc'[r] = "readVersions" /\ call'[r].op = "reindex"
             /\ call'[r].append = FALSE /\ docs'[r] = NoDocuments
  BY <1>2, <1>6 DEF BeginReindex, Input
<1>7. ASSUME NEW v, BeginRollback(r, v)
      PROVE  /\ pc'[r] = "rollback" /\ call'[r].op = "rollback"
             /\ call'[r].append = FALSE /\ docs'[r] = NoDocuments
  BY <1>2, <1>7 DEF BeginRollback, Input
<1>8. ASSUME NEW c, NEW d, BeginDelete(r, c, d)
      PROVE  /\ pc'[r] = "loadDelete" /\ call'[r].op = "delete"
             /\ call'[r].append = FALSE /\ docs'[r] = NoDocuments
  BY <1>2, <1>8 DEF BeginDelete, Input
<1> QED
  BY <1>3, <1>4, <1>5, <1>6, <1>7, <1>8 DEF Begin

\* Which documents a corpus file holds, as a reader sees it.
LEMMA ContentGood ==
    ASSUME TypeInv, StorageInv, NEW c \in Corpora, Exists(corpora[c])
    PROVE  Parses(corpora[c]) /\ ~ Unreadable(corpora[c]) /\ Content(corpora[c]) \in DocumentMaps
BY JsonFacts
   DEF TypeInv, TypeOK, StorageInv, SettledInv, Settled, Parses, Content, Exists, Unreadable

\* It changes by ReplaceCorpus only, to the documents the handler works on.
LEMMA ContentStep ==
    ASSUME TypeInv, StorageInv, [Next]_vars
    PROVE  /\ \A r \in Requests : ReplaceCorpus(r) =>
                 /\ UNCHANGED <<manifest, call, docs, history>>
                 /\ call[r].corpus \in Corpora
                 /\ Exists(corpora'[call[r].corpus])
                 /\ Content(corpora'[call[r].corpus]) = docs[r]
                 /\ \A b \in Corpora : b # call[r].corpus => corpora'[b] = corpora[b]
           /\ (\A r \in Requests : ~ ReplaceCorpus(r)) =>
                 \A c \in Corpora :
                    /\ Exists(corpora'[c]) = Exists(corpora[c])
                    /\ Exists(corpora[c]) => Content(corpora'[c]) = Content(corpora[c])
<1>1. ASSUME NEW r \in Requests, ReplaceCorpus(r)
      PROVE  /\ UNCHANGED <<manifest, call, docs, history>>
             /\ call[r].corpus \in Corpora
             /\ Exists(corpora'[call[r].corpus])
             /\ Content(corpora'[call[r].corpus]) = docs[r]
             /\ \A b \in Corpora : b # call[r].corpus => corpora'[b] = corpora[b]
  BY <1>1, CorpusWrites DEF ReplaceCorpus
<1>2. ASSUME NEW r \in Requests, OpenCorpus(r) \/ DumpCorpus(r), NEW c \in Corpora
      PROVE  /\ Exists(corpora'[c]) = Exists(corpora[c])
             /\ Exists(corpora[c]) => Content(corpora'[c]) = Content(corpora[c])
  BY <1>2, CorpusWrites DEF SameView, Exists
<1>3. ASSUME NEW r \in Requests, OpenManifest(r) \/ DumpManifest(r) \/ ReplaceManifest(r)
      PROVE  UNCHANGED corpora
  BY <1>3 DEF OpenManifest, DumpManifest, ReplaceManifest
<1>4. ASSUME NEW r \in Requests, Begin(r)
      PROVE  UNCHANGED corpora
  BY <1>4, BeginFrame DEF files
<1>5. Crash \/ (\E v \in Requests : RemoveAssets(v)) \/ UNCHANGED vars => UNCHANGED corpora
  BY DEF Crash, RemoveAssets, vars, files
<1>6. ASSUME NEW r \in Requests, Run(r), ~ ReplaceCorpus(r), ~ OpenCorpus(r), ~ DumpCorpus(r)
      PROVE  UNCHANGED corpora
  BY <1>3, <1>6, FilesKept DEF Run, files
<1>7. ASSUME \A r \in Requests : ~ ReplaceCorpus(r), NEW c \in Corpora
      PROVE  /\ Exists(corpora'[c]) = Exists(corpora[c])
             /\ Exists(corpora[c]) => Content(corpora'[c]) = Content(corpora[c])
  BY <1>2, <1>4, <1>5, <1>6, <1>7 DEF Next
<1> QED
  BY <1>1, <1>7

\* Only the two loads change what a running handler works on, and only
\* ReadVersions what it was asked for.
LEMMA QuietRun ==
    ASSUME TypeInv, NEW r \in Requests, Run(r), ~ LoadCorpus(r), ~ LoadDelete(r)
    PROVE  /\ UNCHANGED <<docs, deleted>>
           /\ ~ ReadVersions(r) => UNCHANGED call
BY DEF Run, ReadVersions, CreateCollection, Upsert, OpenPickle, DumpPickle, Record, StageFails,
       Rollback, CheckAssets, OpenManifest, DumpManifest, ReplaceManifest, OpenCorpus, DumpCorpus,
       ReplaceCorpus, Respond, locals, history
-----------------------------------------------------------------------------
(* Appending and replaying.                                                *)

Working == {"createCollection", "upsert", "openPickle", "dumpPickle", "record",
            "openManifest", "dumpManifest", "replaceManifest"}
Saving == {"openCorpus", "dumpCorpus", "replaceCorpus"}

\* The corpus file holds exactly what the handler works on.
Replays(r) == Exists(corpora[call[r].corpus]) /\ Content(corpora[call[r].corpus]) = docs[r]

\* In mode "append" a handler has every document of the file, until it saves them.
AppendInv ==
    \A r \in Requests :
        /\ call[r].append => call[r].op \in {"folder", "upload"}
        /\ /\ pc[r] \in Working \cup Saving
           /\ call[r].append /\ Exists(corpora[call[r].corpus])
           => DOMAIN Content(corpora[call[r].corpus]) \subseteq DOMAIN docs[r]

\* /reindex works on the file's documents, and nobody changes them meanwhile.
ReplayInv ==
    \A r \in Requests :
        /\ pc[r] \in {"readVersions", "loadCorpus"} /\ call[r].op = "reindex"
              => docs[r] = NoDocuments
        /\ pc[r] \in Working /\ call[r].op = "reindex" => Replays(r)
        /\ pc[r] = "respond" => Replays(r)

CopyInv == AppendInv /\ ReplayInv

LEMMA MergeFacts ==
    ASSUME NEW f \in DocumentMaps, NEW g \in DocumentMaps
    PROVE  /\ DOMAIN MergeDocuments(f, g) = DOMAIN f \cup DOMAIN g
           /\ \A d \in DOMAIN MergeDocuments(f, g) :
                 MergeDocuments(f, g)[d] = IF d \in DOMAIN g THEN g[d] ELSE f[d]
           /\ MergeDocuments(f, NoDocuments) = f
<1>1. f = [d \in DOMAIN f |-> f[d]]
  BY DEF DocumentMaps
<1>2. DOMAIN NoDocuments = {}
  BY DEF NoDocuments
<1> QED
  BY <1>1, <1>2 DEF MergeDocuments

\* A handler at work, at one label or the next.
LEMMA CopyRun ==
    ASSUME TypeInv, StorageInv, OpInv, CopyInv, [Next]_vars, NEW r \in Requests, Run(r)
    PROVE  CopyInv'
<1> DEFINE c == call[r].corpus
<1>1. /\ pc \in [Requests -> Labels] /\ call \in [Requests -> Calls]
      /\ docs \in [Requests -> DocumentMaps]
      /\ OpAt(pc[r], call[r].op) /\ Alone
      /\ pc[r] \in CorpusLabels => c \in Corpora
  BY DEF TypeInv, TypeOK, CorpusInv, OpInv, StorageInv
<1>2. /\ \A q \in Requests \ {r} :
            /\ pc'[q] = pc[q] /\ pc[q] \in {"idle", "done"} /\ call'[q] = call[q]
            /\ docs'[q] = docs[q]
      /\ pc[r] \notin {"idle", "done"}
  BY <1>1, RunFrame DEF Alone, Resting
<1>3. ASSUME call'[r].append => call'[r].op \in {"folder", "upload"},
             /\ pc'[r] \in Working \cup Saving
             /\ call'[r].append /\ Exists(corpora'[call'[r].corpus])
             => DOMAIN Content(corpora'[call'[r].corpus]) \subseteq DOMAIN docs'[r],
             pc'[r] \in {"readVersions", "loadCorpus"} /\ call'[r].op = "reindex"
                => docs'[r] = NoDocuments,
             pc'[r] \in Working /\ call'[r].op = "reindex" => Replays(r)',
             pc'[r] = "respond" => Replays(r)'
      PROVE  CopyInv'
  BY <1>2, <1>3 DEF CopyInv, AppendInv, ReplayInv, Working, Saving
<1>4. /\ call[r].append => call[r].op \in {"folder", "upload"}
      /\ /\ pc[r] \in Working \cup Saving
         /\ call[r].append /\ Exists(corpora[c])
         => DOMAIN Content(corpora[c]) \subseteq DOMAIN docs[r]
      /\ pc[r] \in {"readVersions", "loadCorpus"} /\ call[r].op = "reindex"
            => docs[r] = NoDocuments
      /\ pc[r] \in Working /\ call[r].op = "reindex" => Replays(r)
      /\ pc[r] = "respond" => Replays(r)
  BY DEF CopyInv, AppendInv, ReplayInv
<1>5. ASSUME ReplaceCorpus(r)
      PROVE  CopyInv'
  <2>1. /\ pc[r] = "replaceCorpus" /\ pc'[r] \in {"respond", "done"}
        /\ call' = call /\ docs' = docs /\ c \in Corpora
        /\ Exists(corpora'[c]) /\ Content(corpora'[c]) = docs[r]
    BY <1>1, <1>5, ContentStep DEF ReplaceCorpus, At, Goto, Answer
  <2> HIDE DEF c
  <2>2. Replays(r)'
    BY <2>1 DEF Replays, c
  <2> QED
    BY <1>3, <1>4, <2>1, <2>2 DEF Working, Saving
<1>6. ASSUME ~ ReplaceCorpus(r)
      PROVE  \A b \in Corpora : /\ Exists(corpora'[b]) = Exists(corpora[b])
                                /\ Exists(corpora[b]) => Content(corpora'[b]) = Content(corpora[b])
  <2>1. \A q \in Requests : ReplaceCorpus(q) => pc[q] = "replaceCorpus"
    BY DEF ReplaceCorpus, At
  <2> QED
    BY <1>2, <1>6, <2>1, ContentStep
<1>7. ASSUME LoadCorpus(r)
      PROVE  CopyInv'
  <2>1. /\ pc[r] = "loadCorpus" /\ pc'[r] \in {"createCollection", "done"} /\ call' = call
        /\ pc'[r] = "createCollection" =>
              IF Exists(corpora[c]) THEN docs'[r] = MergeDocuments(Content(corpora[c]), docs[r])
              ELSE call[r].op # "reindex"
    BY <1>1, <1>7 DEF LoadCorpus, At, Goto, Fail, Answer, Parses
  <2>2. c \in Corpora /\ (Exists(corpora[c]) => Content(corpora[c]) \in DocumentMaps)
    BY <1>1, <2>1, ContentGood DEF CorpusLabels
  <2>3. /\ Exists(corpora'[c]) = Exists(corpora[c])
        /\ Exists(corpora[c]) => Content(corpora'[c]) = Content(corpora[c])
    BY <1>6, <2>1, <2>2 DEF ReplaceCorpus, At
  <2> HIDE DEF c
  <2>4. ASSUME pc'[r] = "createCollection", Exists(corpora[c])
        PROVE  /\ DOMAIN Content(corpora[c]) \subseteq DOMAIN docs'[r]
               /\ call[r].op = "reindex" => docs'[r] = Content(corpora[c])
    <3>1. /\ Content(corpora[c]) \in DocumentMaps /\ docs[r] \in DocumentMaps
          /\ docs'[r] = MergeDocuments(Content(corpora[c]), docs[r])
      BY <1>1, <2>1, <2>2, <2>4
    <3>2. call[r].op = "reindex" => docs[r] = NoDocuments
      BY <1>4, <2>1
    <3>3. \A f, g \in DocumentMaps : /\ DOMAIN MergeDocuments(f, g) = DOMAIN f \cup DOMAIN g
                                     /\ MergeDocuments(f, NoDocuments) = f
      BY MergeFacts
    <3> DEFINE old == Content(corpora[c])
               new == docs'[r]
    <3>4. old \in DocumentMaps /\ docs[r] \in DocumentMaps /\ new = MergeDocuments(old, docs[r])
      BY <3>1
    <3> HIDE DEF old, new
    <3>5. DOMAIN new = DOMAIN old \cup DOMAIN docs[r]
      BY <3>3, <3>4
    <3>6. docs[r] = NoDocuments => new = old
      BY <3>3, <3>4
    <3> QED
      BY <3>2, <3>5, <3>6 DEF old, new
  <2>5. pc'[r] = "createCollection" /\ call[r].op = "reindex" => Replays(r)'
    BY <2>1, <2>3, <2>4 DEF Replays, c
  <2>6. pc'[r] = "createCollection" /\ Exists(corpora'[c])
           => DOMAIN Content(corpora'[c]) \subseteq DOMAIN docs'[r]
    BY <2>3, <2>4
  <2> QED
    BY <1>3, <1>4, <2>1, <2>5, <2>6 DEF Working, Saving, c
<1>8. ASSUME LoadDelete(r)
      PROVE  CopyInv'
  <2>1. /\ pc[r] = "loadDelete" /\ pc'[r] \in {"openCorpus", "done"} /\ call' = call
    BY <1>1, <1>8 DEF LoadDelete, At, Goto, Fail, Answer
  <2>2. call[r].op = "delete" /\ ~ call[r].append
    BY <1>1, <1>4, <2>1 DEF OpAt, Calls
  <2> QED
    BY <1>3, <1>4, <2>1, <2>2 DEF Working, Saving
<1>9. ASSUME ReadVersions(r)
      PROVE  CopyInv'
  <2>1. /\ pc[r] = "readVersions" /\ pc'[r] \in {"loadCorpus", "done"} /\ docs' = docs
        /\ call'[r].op = call[r].op /\ call'[r].append = call[r].append
    BY <1>1, <1>9 DEF ReadVersions, At, Goto, Fail, Answer, Calls
  <2> QED
    BY <1>3, <1>4, <2>1 DEF Working, Saving
<1>10. ASSUME ~ LoadCorpus(r), ~ LoadDelete(r), ~ ReadVersions(r), ~ ReplaceCorpus(r)
       PROVE  CopyInv'
  <2>1. call' = call /\ docs' = docs
    BY <1>10, QuietRun
  <2>2. /\ pc[r] \in Working \cup {"openCorpus", "dumpCorpus", "rollback", "checkAssets", "respond"}
        /\ pc'[r] \in Working \cup Saving => pc[r] \in Working \cup Saving
                                             \/ call[r].op = "rollback"
        /\ pc'[r] \notin {"readVersions", "loadCorpus"}
        /\ pc'[r] \in Working /\ call[r].op = "reindex" => pc[r] \in Working
        /\ pc'[r] = "respond" => pc[r] \in Working /\ call[r].op = "reindex"
    BY <1>1, <1>10 DEF Run, CreateCollection, Upsert, OpenPickle, DumpPickle, Record, StageFails,
         Rollback, CheckAssets, OpenManifest, DumpManifest, ReplaceManifest, OpenCorpus, DumpCorpus,
         Respond, At, Goto, Fail, Answer, Working, Saving, OpAt
  <2>3. pc[r] \in Working \cup Saving /\ call[r].op # "rollback" => c \in Corpora
    <3>1. pc[r] \in ManifestLabels /\ call[r].op \in BuildOps => c \in Corpora
      BY DEF TypeInv, CorpusInv
    <3> QED
      BY <1>1, <3>1 DEF CorpusLabels, Working, Saving, ManifestLabels, OpAt
  <2>4. call[r].op = "rollback" => ~ call[r].append
    BY <1>1, <1>4 DEF Calls
  <2>5. Replays(r) /\ c \in Corpora => Replays(r)'
    BY <1>6, <1>10, <2>1 DEF Replays
  <2>6. /\ pc'[r] \in Working \cup Saving /\ call[r].append
        => /\ Exists(corpora'[c]) = Exists(corpora[c])
           /\ Exists(corpora[c]) => Content(corpora'[c]) = Content(corpora[c])
    BY <1>6, <1>10, <2>2, <2>3, <2>4
  <2> QED
    BY <1>3, <1>4, <2>1, <2>2, <2>3, <2>4, <2>5, <2>6
<1> QED
  BY <1>5, <1>7, <1>8, <1>9, <1>10

LEMMA CopyStep ==
    ASSUME TypeInv, StorageInv, OpInv, CopyInv, [Next]_vars
    PROVE  CopyInv'
<1>1. /\ pc \in [Requests -> Labels] /\ call \in [Requests -> Calls]
      /\ docs \in [Requests -> DocumentMaps]
  BY DEF TypeInv, TypeOK
<1>2. ASSUME NEW r \in Requests, Begin(r)
      PROVE  CopyInv'
  <2>1. /\ corpora' = corpora
        /\ \A q \in Requests \ {r} : pc'[q] = pc[q] /\ call'[q] = call[q] /\ docs'[q] = docs[q]
    BY <1>2, BeginFrame DEF files
  <2>2. /\ call'[r].append => call'[r].op \in {"folder", "upload"}
        /\ pc'[r] \in Working \cup Saving => ~ call'[r].append /\ call'[r].op # "reindex"
        /\ pc'[r] \in {"readVersions", "loadCorpus"} /\ call'[r].op = "reindex"
              => docs'[r] = NoDocuments
        /\ pc'[r] # "respond"
    BY <1>2, BeginInput DEF Working, Saving, IndexOps
  <2> QED
    BY <2>1, <2>2 DEF CopyInv, AppendInv, ReplayInv, Replays
<1>3. ASSUME NEW r \in Requests, Run(r)
      PROVE  CopyInv'
  BY <1>3, CopyRun
<1>4. ASSUME Crash
      PROVE  CopyInv'
  <2>1. UNCHANGED <<call, docs>> /\ \A r \in Requests : pc'[r] \in {"idle", "done"}
    BY <1>4, CrashFrame DEF Resting
  <2> QED
    BY <2>1 DEF CopyInv, AppendInv, ReplayInv, Working, Saving
<1>5. ASSUME (\E v \in Requests : RemoveAssets(v)) \/ UNCHANGED vars
      PROVE  CopyInv'
  <2>1. UNCHANGED <<corpora, pc, call, docs>>
    BY <1>5 DEF RemoveAssets, vars, files, locals
  <2> QED
    BY <2>1 DEF CopyInv, AppendInv, ReplayInv, Replays
<1> QED
  BY <1>2, <1>3, <1>4, <1>5 DEF Next

LEMMA InitCopy == Init => CopyInv
BY DEF Init, CopyInv, AppendInv, ReplayInv, NoCall, Input, Working, Saving

\* Indexing in mode "append" never loses a document from the corpus file, with
\* failures and crashes at any point of the save.
THEOREM AppendKeeps ==
    ASSUME MaxInFlight = 1
    PROVE  Spec => AppendKeepsDocuments
<1>1. SerialInv /\ CopyInv /\ [Next]_vars => (SerialInv /\ CopyInv)'
  BY SerialStep, CopyStep DEF SerialInv, IInv, VersionInv
<1>2. SerialInv /\ SerialInv' /\ CopyInv /\ [Next]_vars => [AppendStep]_vars
  <2> SUFFICES ASSUME SerialInv, SerialInv', CopyInv, [Next]_vars,
                      NEW c \in Corpora, NEW r \in Requests,
                      At(r, "replaceCorpus"), call[r].append
               PROVE  CorpusDocs(c) \subseteq CorpusDocs(c)'
    BY DEF AppendStep
  <2>1. /\ TypeInv /\ StorageInv /\ Alone /\ pc[r] = "replaceCorpus"
        /\ Exists(corpora'[c]) => Parses(corpora'[c])
    BY DEF SerialInv, IInv, StorageInv, SettledInv, Settled, At
  <2>2. CASE \A q \in Requests : ~ ReplaceCorpus(q)
    <3>1. /\ Exists(corpora'[c]) = Exists(corpora[c])
          /\ Exists(corpora[c]) => Content(corpora'[c]) = Content(corpora[c])
      BY <2>1, <2>2, ContentStep
    <3> QED
      BY <2>1, <3>1 DEF CorpusDocs, Parses
  <2>3. ASSUME NEW q \in Requests, ReplaceCorpus(q)
        PROVE  CorpusDocs(c) \subseteq CorpusDocs(c)'
    <3>1. q = r
      BY <2>1, <2>3 DEF Alone, Resting, ReplaceCorpus, At
    <3>2. CASE c # call[r].corpus
      <4>1. corpora'[c] = corpora[c]
        BY <2>1, <2>3, <3>1, <3>2, ContentStep
      <4> QED
        BY <4>1 DEF CorpusDocs
    <3>3. CASE c = call[r].corpus
      <4>1. Exists(corpora'[c]) /\ Content(corpora'[c]) = docs[r]
        BY <2>1, <2>3, <3>1, <3>3, ContentStep
      <4>2. Exists(corpora[c]) => DOMAIN Content(corpora[c]) \subseteq DOMAIN docs[r]
        BY <2>1, <3>3 DEF CopyInv, AppendInv, Saving
      <4> QED
        BY <2>1, <4>1, <4>2 DEF CorpusDocs, Parses
    <3> QED
      BY <3>2, <3>3
  <2> QED
    BY <2>2, <2>3
<1> QED
  BY <1>1, <1>2, InitSerial, InitCopy, SerialStep, PTL DEF Spec, AppendKeepsDocuments

\* A successful indexing answer leaves the corpus file equal to what was indexed.
THEOREM AnsweredMatchesCorpus ==
    ASSUME MaxInFlight = 1
    PROVE  Spec => AnsweredIndexMatchesCorpus
<1>1. SerialInv /\ CopyInv /\ [Next]_vars => (SerialInv /\ CopyInv)'
  BY SerialStep, CopyStep DEF SerialInv, IInv, VersionInv
<1>2. SerialInv /\ CopyInv => [AnswerStep]_vars
  <2> SUFFICES ASSUME SerialInv, CopyInv, NEW r \in Requests, At(r, "respond")
               PROVE  /\ Parses(corpora[call[r].corpus])
                      /\ Content(corpora[call[r].corpus]) = docs[r]
    BY DEF AnswerStep
  <2>1. Replays(r)
    BY DEF CopyInv, ReplayInv, At
  <2>2. call[r].corpus \in Corpora
    <3>1. Entry(Loaded, r, call[r].corpus) /\ Loaded \in MV
      BY LoadedGood DEF SerialInv, VersionInv, OpInv, OpAt, NewestInv, At
    <3>2. PICK i \in DOMAIN Loaded.versions : Loaded.versions[i].source_corpus = call[r].corpus
      BY <3>1 DEF Entry
    <3>3. Loaded.versions[i] \in Entries(Requests, Corpora)
      BY <3>1, <3>2 DEF MV, Manifests
    <3> QED
      BY <3>2, <3>3 DEF Entries
  <2> QED
    BY <2>1, <2>2 DEF Replays, SerialInv, StorageInv, SettledInv, Settled
<1> QED
  BY <1>1, <1>2, InitSerial, InitCopy, PTL DEF Spec, AnsweredIndexMatchesCorpus
-----------------------------------------------------------------------------
(* What a corpus file holds was indexed.                                   *)

Within(D, E) == \A d \in DOMAIN D : d \in DOMAIN E /\ E[d] = D[d]

\* Versions are built by indexing handlers; a corpus file holds documents of one of
\* its versions; a deletion writes back a part of what is there.
BuiltInv == \A v \in Recorded(Loaded) : call[v].op \in BuildOps
SourceInv ==
    \A c \in Corpora : Exists(corpora[c]) =>
        \E v \in Requests : Entry(Loaded, v, c) /\ Within(Content(corpora[c]), docs[v])
PartInv ==
    \A r \in Requests : pc[r] \in Saving /\ call[r].op = "delete" =>
        /\ Exists(corpora[call[r].corpus])
        /\ Within(docs[r], Content(corpora[call[r].corpus]))
IndexedInv == BuiltInv /\ SourceInv /\ PartInv

\* What a recorded version was built from does not change.
LEMMA RecordedKept ==
    ASSUME IInv, StorageInv, VersionInv, BuiltInv, [Next]_vars, NEW v \in Recorded(Loaded)
    PROVE  docs'[v] = docs[v] /\ call'[v].op = call[v].op
<1>1. /\ TypeInv /\ Loaded \in MV /\ Good(Loaded) /\ v \in Requests
      /\ docs \in [Requests -> DocumentMaps] /\ call \in [Requests -> Calls]
  BY LoadedGood, RecordedIds DEF IInv, TypeInv, TypeOK, MV
<1>2. pc[v] \notin {"idle", "readVersions", "loadCorpus"} /\ call[v].op # "delete"
  BY <1>1 DEF Good, Built, Unbuilt, BuiltInv, BuildOps, IndexOps
<1>3. pc[v] # "loadDelete"
  BY <1>1, <1>2 DEF VersionInv, OpInv, OpAt
<1>4. ASSUME NEW r \in Requests, Begin(r)
      PROVE  docs'[v] = docs[v] /\ call'[v] = call[v]
  BY <1>1, <1>2, <1>4, BeginFrame
<1>5. ASSUME NEW r \in Requests, Run(r), r # v
      PROVE  docs'[v] = docs[v] /\ call'[v] = call[v]
  BY <1>1, <1>5, RunFrame
<1>6. ASSUME Run(v)
      PROVE  docs'[v] = docs[v] /\ call'[v] = call[v]
  BY <1>1, <1>2, <1>3, <1>6, QuietRun DEF ReadVersions, LoadCorpus, LoadDelete, At
<1>7. Crash \/ (\E u \in Requests : RemoveAssets(u)) \/ UNCHANGED vars => UNCHANGED <<docs, call>>
  BY DEF Crash, RemoveAssets, vars, locals
<1> QED
  BY <1>4, <1>5, <1>6, <1>7 DEF Next

LEMMA WithoutFacts ==
    ASSUME NEW f \in DocumentMaps, NEW d
    PROVE  /\ DOMAIN Without(f, d) = DOMAIN f \ {d}
           /\ Within(Without(f, d), f)
BY DEF Without, Restrict, Within, DocumentMaps

\* New versions come from indexing handlers.
LEMMA BuiltStep ==
    ASSUME IInv, StorageInv, VersionInv, BuiltInv, [Next]_vars
    PROVE  BuiltInv'
<1>1. TypeInv /\ Loaded \in MV /\ EditInv /\ OpInv
  BY LoadedGood DEF IInv, VersionInv
<1>2. CASE Loaded' = Loaded
  BY <1>2, RecordedKept DEF BuiltInv
<1>3. ASSUME NEW r \in Requests, ReplaceManifest(r)
      PROVE  BuiltInv'
  <2>1. pc[r] = "replaceManifest" /\ Loaded' = mem[r] /\ call' = call
    BY <1>1, <1>3, LoadedStep DEF ReplaceManifest, At
  <2>2. ASSUME call[r].op = "rollback"
        PROVE  Recorded(Loaded') = Recorded(Loaded)
    <3>1. Loaded' = Activate(Loaded, call[r].target) /\ call[r].target \in Requests
      BY <1>1, <2>1, <2>2, RecordedIds DEF EditInv, MV
    <3> QED
      BY <1>1, <3>1, ActivateFacts DEF MV
  <2>3. ASSUME call[r].op # "rollback"
        PROVE  Recorded(Loaded') = Recorded(Loaded) \cup {r} /\ call[r].op \in BuildOps
    <3>1. /\ call[r].corpus \in Corpora /\ Loaded' = RecordNew(Loaded, r, call[r].corpus)
          /\ call[r].op \in BuildOps
      BY <1>1, <2>1, <2>3 DEF EditInv, OpInv, OpAt, TypeInv, CorpusInv, ManifestLabels
    <3> QED
      BY <1>1, <3>1, RecordNewFacts DEF MV
  <2> QED
    BY <2>1, <2>2, <2>3 DEF BuiltInv
<1> QED
  BY <1>1, <1>2, <1>3, LoadedStep

\* A corpus file is written after the version it was indexed as is recorded.
LEMMA SourceStep ==
    ASSUME IInv, StorageInv, VersionInv, IndexedInv, [Next]_vars
    PROVE  SourceInv'
<1>1. /\ TypeInv /\ Loaded \in MV /\ EditInv /\ OpInv /\ BuiltInv /\ SourceInv /\ PartInv
  BY LoadedGood DEF IInv, VersionInv, IndexedInv
<1>2. ASSUME NEW v \in Requests, NEW c \in Corpora, Entry(Loaded, v, c)
      PROVE  Entry(Loaded', v, c) /\ docs'[v] = docs[v]
  <2>1. v \in Recorded(Loaded)
    BY <1>2 DEF Entry, Recorded
  <2> QED
    BY <1>1, <1>2, <2>1, RecordedGrows, RecordedKept
<1>3. ASSUME NEW c \in Corpora, Exists(corpora'[c]) = Exists(corpora[c]),
             Exists(corpora[c]) => Content(corpora'[c]) = Content(corpora[c]),
             Exists(corpora'[c])
      PROVE  \E v \in Requests : Entry(Loaded', v, c) /\ Within(Content(corpora'[c]), docs'[v])
  <2>1. PICK v \in Requests : Entry(Loaded, v, c) /\ Within(Content(corpora[c]), docs[v])
    BY <1>1, <1>3 DEF SourceInv
  <2> QED
    BY <1>2, <1>3, <2>1
<1>4. CASE \A r \in Requests : ~ ReplaceCorpus(r)
  BY <1>1, <1>3, <1>4, ContentStep DEF SourceInv
<1>5. ASSUME NEW r \in Requests, ReplaceCorpus(r)
      PROVE  SourceInv'
  <2> DEFINE b == call[r].corpus
  <2>1. /\ pc[r] = "replaceCorpus" /\ b \in Corpora
        /\ Exists(corpora'[b]) /\ Content(corpora'[b]) = docs[r]
        /\ \A c \in Corpora : c # b => corpora'[c] = corpora[c]
    BY <1>1, <1>5, ContentStep DEF ReplaceCorpus, At
  <2> HIDE DEF b
  <2>2. \E v \in Requests : Entry(Loaded, v, b) /\ Within(docs[r], docs[v])
    <3>1. CASE call[r].op = "delete"
      <4>1. Exists(corpora[b]) /\ Within(docs[r], Content(corpora[b]))
        BY <1>1, <2>1, <3>1 DEF PartInv, Saving, b
      <4>2. PICK v \in Requests : Entry(Loaded, v, b) /\ Within(Content(corpora[b]), docs[v])
        BY <1>1, <2>1, <4>1 DEF SourceInv
      <4> QED
        BY <4>1, <4>2 DEF Within
    <3>2. CASE call[r].op # "delete"
      <4>1. call[r].op \in BuildOps
        BY <1>1, <2>1, <3>2 DEF OpInv, OpAt, BuildOps
      <4>2. Entry(Loaded, r, b)
        BY <2>1, <4>1 DEF VersionInv, NewestInv, b
      <4> QED
        BY <4>2 DEF Within
    <3> QED
      BY <3>1, <3>2
  <2>3. \E v \in Requests : Entry(Loaded', v, b) /\ Within(Content(corpora'[b]), docs'[v])
    BY <1>2, <2>1, <2>2
  <2>4. ASSUME NEW c \in Corpora, c # b, Exists(corpora'[c])
        PROVE  \E v \in Requests : Entry(Loaded', v, c) /\ Within(Content(corpora'[c]), docs'[v])
    BY <1>3, <2>1, <2>4
  <2> QED
    BY <2>3, <2>4 DEF SourceInv
<1> QED
  BY <1>4, <1>5

\* Nobody writes the file between a deletion's load and its save.
LEMMA PartStep ==
    ASSUME TypeInv, StorageInv, OpInv, PartInv, [Next]_vars
    PROVE  PartInv'
<1>1. /\ pc \in [Requests -> Labels] /\ docs \in [Requests -> DocumentMaps] /\ Alone
  BY DEF TypeInv, TypeOK, StorageInv
<1>2. ASSUME NEW r \in Requests, Begin(r)
      PROVE  PartInv'
  <2>1. /\ corpora' = corpora /\ pc'[r] \notin Saving
        /\ \A q \in Requests \ {r} : pc'[q] = pc[q] /\ call'[q] = call[q] /\ docs'[q] = docs[q]
    BY <1>2, BeginFrame DEF files, Saving
  <2> QED
    BY <2>1 DEF PartInv
<1>3. ASSUME NEW r \in Requests, Run(r)
      PROVE  PartInv'
  <2>1. \A q \in Requests \ {r} : pc'[q] \in {"idle", "done"}
    BY <1>1, <1>3, RunFrame DEF Alone, Resting
  <2>2. SUFFICES ASSUME pc'[r] \in Saving, call'[r].op = "delete"
                 PROVE  /\ Exists(corpora'[call'[r].corpus])
                        /\ Within(docs'[r], Content(corpora'[call'[r].corpus]))
    BY <2>1 DEF PartInv, Saving
  <2>3. CASE LoadDelete(r)
    <3> DEFINE b == call[r].corpus
    <3>1. /\ UNCHANGED <<corpora, call>> /\ b \in Corpora /\ Exists(corpora[b])
          /\ docs'[r] = Without(Content(corpora[b]), call[r].doc)
      BY <1>1, <2>2, <2>3 DEF LoadDelete, At, Fail, Answer, Saving, files, Parses,
                              TypeInv, CorpusInv, CorpusLabels
    <3>2. Content(corpora[b]) \in DocumentMaps
      BY <3>1, ContentGood
    <3> HIDE DEF b
    <3> QED
      BY <3>1, <3>2, WithoutFacts DEF b
  <2>4. CASE OpenCorpus(r) \/ DumpCorpus(r)
    <3>1. pc[r] \in Saving /\ UNCHANGED <<call, docs>> /\ call[r].corpus \in Corpora
      BY <1>1, <2>4 DEF OpenCorpus, DumpCorpus, At, Saving, TypeInv, CorpusInv, CorpusLabels
    <3>2. \A q \in Requests : ~ ReplaceCorpus(q)
      BY <1>1, <2>4, <3>1 DEF ReplaceCorpus, OpenCorpus, DumpCorpus, At, Alone, Resting, Saving
    <3> QED
      BY <2>2, <3>1, <3>2, ContentStep DEF PartInv
  <2>5. CASE ReplaceCorpus(r)
    BY <1>1, <2>2, <2>5 DEF ReplaceCorpus, Goto, Answer, Saving
  <2>6. CASE ReplaceManifest(r)
    BY <1>1, <2>2, <2>6 DEF ReplaceManifest, Goto, Fail, Answer, Saving, IndexOps
  <2>7. CASE \/ ReadVersions(r) \/ LoadCorpus(r) \/ CreateCollection(r) \/ Upsert(r)
             \/ OpenPickle(r) \/ DumpPickle(r) \/ Record(r) \/ StageFails(r)
             \/ Rollback(r) \/ CheckAssets(r) \/ OpenManifest(r) \/ DumpManifest(r) \/ Respond(r)
    BY <1>1, <2>2, <2>7 DEF ReadVersions, LoadCorpus, CreateCollection, Upsert, OpenPickle,
         DumpPickle, Record, StageFails, Rollback, CheckAssets, OpenManifest, DumpManifest,
         Respond, Goto, Fail, Answer, Saving
  <2> QED
    BY <1>3, <2>3, <2>4, <2>5, <2>6, <2>7 DEF Run
<1>4. ASSUME Crash
      PROVE  PartInv'
  BY <1>4, CrashFrame DEF PartInv, Resting, Saving
<1>5. ASSUME (\E v \in Requests : RemoveAssets(v)) \/ UNCHANGED vars
      PROVE  PartInv'
  <2>1. UNCHANGED <<corpora, pc, call, docs>>
    BY <1>5 DEF RemoveAssets, vars, files, locals
  <2> QED
    BY <2>1 DEF PartInv
<1> QED
  BY <1>2, <1>3, <1>4, <1>5 DEF Next

LEMMA InitIndexed == Init => IndexedInv
BY DEF Init, IndexedInv, BuiltInv, SourceInv, PartInv, Loaded, Exists, NoFile, EmptyManifest,
       Recorded, Saving

\* No corpus file holds a document that no recorded version of that corpus was built
\* from, so what /reindex replays has been indexed before.
THEOREM CorpusHoldsIndexed ==
    ASSUME MaxInFlight = 1
    PROVE  Spec => []CorpusIsIndexed
<1>1. SerialInv /\ IndexedInv /\ [Next]_vars => (SerialInv /\ IndexedInv)'
  BY SerialStep, BuiltStep, SourceStep, PartStep DEF SerialInv, IInv, VersionInv, IndexedInv
<1>2. SerialInv /\ IndexedInv => CorpusIsIndexed
  <2> SUFFICES ASSUME SerialInv, IndexedInv, NEW c \in Corpora, Exists(corpora[c])
               PROVE  \E i \in DOMAIN Loaded.versions :
                         LET v == Loaded.versions[i].index_version
                         IN  /\ Loaded.versions[i].source_corpus = c
                             /\ Within(Content(corpora[c]), docs[v])
    BY DEF CorpusIsIndexed, Parses, Within
  <2>1. PICK v \in Requests : Entry(Loaded, v, c) /\ Within(Content(corpora[c]), docs[v])
    BY DEF IndexedInv, SourceInv
  <2> QED
    BY <2>1 DEF Entry
<1> QED
  BY <1>1, <1>2, InitSerial, InitIndexed, PTL DEF Spec
-----------------------------------------------------------------------------
(* Deletions.                                                              *)

Begun(r) == pc[r] # "idle"
SuppliersBegun(D) == \A d \in DOMAIN D : Begun(D[d])

\* A text comes from a request that has been made.
SuppliersInv ==
    /\ \A q \in Requests : SuppliersBegun(docs[q])
    /\ \A c \in Corpora : Exists(corpora[c]) => SuppliersBegun(Content(corpora[c]))
    /\ \A x \in deleted : Begun(x.supplier)

\* A deletion that found its document is saving, or over.
DeleterInv ==
    \A x \in deleted :
        \/ pc[x.by] = "done"
        \/ pc[x.by] \in Saving /\ call[x.by].op = "delete" /\ call[x.by].corpus = x.corpus

\* Once it is acknowledged the text is in no file, and in no handler that may still
\* write the file.
Gone(x, D) == x.doc \in DOMAIN D => D[x.doc] # x.supplier
Forgotten(x, q) ==
    /\ ~ Resting(q)
    /\ pc[q] = "readVersions" \/ call[q].corpus = x.corpus
    /\ Acknowledged(x.by) \/ x.by = q
    => Gone(x, docs[q])
GoneInv ==
    \A x \in deleted :
        /\ Acknowledged(x.by) /\ Exists(corpora[x.corpus]) => Gone(x, Content(corpora[x.corpus]))
        /\ \A q \in Requests : Forgotten(x, q)
DeletionInv == SuppliersInv /\ DeleterInv /\ GoneInv

\* The steps that change what a handler works on.
LEMMA DocsStep ==
    ASSUME TypeInv, StorageInv, [Next]_vars, NEW q \in Requests
    PROVE  \/ docs'[q] = docs[q]
           \/ pc[q] = "idle" /\ Begin(q) /\ \A d \in DOMAIN docs'[q] : docs'[q][d] = q
           \/ /\ LoadCorpus(q) /\ call[q].corpus \in Corpora /\ Exists(corpora[call[q].corpus])
              /\ docs'[q] = MergeDocuments(Content(corpora[call[q].corpus]), docs[q])
           \/ /\ LoadDelete(q) /\ call[q].corpus \in Corpora /\ Exists(corpora[call[q].corpus])
              /\ docs'[q] = Without(Content(corpora[call[q].corpus]), call[q].doc)
<1>1. docs \in [Requests -> DocumentMaps] /\ pc \in [Requests -> Labels]
  BY DEF TypeInv, TypeOK
<1>2. ASSUME NEW r \in Requests, Begin(r) \/ Run(r), r # q
      PROVE  docs'[q] = docs[q]
  BY <1>2, BeginFrame, RunFrame
<1>3. ASSUME Begin(q)
      PROVE  \/ docs'[q] = docs[q]
             \/ pc[q] = "idle" /\ \A d \in DOMAIN docs'[q] : docs'[q][d] = q
  <2>1. \/ docs'[q] = docs[q] \/ docs'[q] = NoDocuments
        \/ \E D \in SUBSET DocIds : docs'[q] = Supplied(q, D)
    BY <1>3, BeginInput
  <2>2. pc[q] = "idle"
    BY <1>3, BeginFrame
  <2>3. ASSUME NEW D, docs'[q] = Supplied(q, D) \/ docs'[q] = NoDocuments
        PROVE  \A d \in DOMAIN docs'[q] : docs'[q][d] = q
    BY <2>3 DEF Supplied, NoDocuments
  <2> QED
    BY <2>1, <2>2, <2>3
<1>4. ASSUME LoadCorpus(q)
      PROVE  \/ docs'[q] = docs[q]
             \/ /\ call[q].corpus \in Corpora /\ Exists(corpora[call[q].corpus])
                /\ docs'[q] = MergeDocuments(Content(corpora[call[q].corpus]), docs[q])
  <2>1. call[q].corpus \in Corpora
    BY <1>4 DEF LoadCorpus, At, TypeInv, CorpusInv, CorpusLabels
  <2> QED
    BY <1>1, <1>4, <2>1 DEF LoadCorpus
<1>5. ASSUME LoadDelete(q)
      PROVE  \/ docs'[q] = docs[q]
             \/ /\ call[q].corpus \in Corpora /\ Exists(corpora[call[q].corpus])
                /\ docs'[q] = Without(Content(corpora[call[q].corpus]), call[q].doc)
  <2>1. call[q].corpus \in Corpora
    BY <1>5 DEF LoadDelete, At, TypeInv, CorpusInv, CorpusLabels
  <2> QED
    BY <1>1, <1>5, <2>1 DEF LoadDelete, Parses
<1>6. ASSUME Run(q), ~ LoadCorpus(q), ~ LoadDelete(q)
      PROVE  docs'[q] = docs[q]
  BY <1>6, QuietRun
<1>7. Crash \/ (\E u \in Requests : RemoveAssets(u)) \/ UNCHANGED vars => UNCHANGED docs
  BY DEF Crash, RemoveAssets, vars, locals
<1> QED
  BY <1>2, <1>3, <1>4, <1>5, <1>6, <1>7 DEF Next

\* Only LoadDelete adds to the deletions.
LEMMA DeletedStep ==
    ASSUME TypeInv, StorageInv, [Next]_vars
    PROVE  \/ deleted' = deleted
           \/ \E r \in Requests :
                 /\ LoadDelete(r) /\ call[r].corpus \in Corpora /\ Exists(corpora[call[r].corpus])
                 /\ call[r].doc \in DOMAIN Content(corpora[call[r].corpus])
                 /\ pc'[r] = "openCorpus" /\ UNCHANGED <<corpora, call, reply>>
                 /\ docs'[r] = Without(Content(corpora[call[r].corpus]), call[r].doc)
                 /\ deleted' = deleted \cup
                      {[by |-> r, corpus |-> call[r].corpus, doc |-> call[r].doc,
                        supplier |-> Content(corpora[call[r].corpus])[call[r].doc]]}
<1>1. docs \in [Requests -> DocumentMaps] /\ pc \in [Requests -> Labels]
  BY DEF TypeInv, TypeOK
<1>2. ASSUME NEW r \in Requests, LoadDelete(r), deleted' # deleted
      PROVE  /\ call[r].corpus \in Corpora /\ Exists(corpora[call[r].corpus])
             /\ call[r].doc \in DOMAIN Content(corpora[call[r].corpus])
             /\ pc'[r] = "openCorpus" /\ UNCHANGED <<corpora, call, reply>>
             /\ docs'[r] = Without(Content(corpora[call[r].corpus]), call[r].doc)
             /\ deleted' = deleted \cup
                  {[by |-> r, corpus |-> call[r].corpus, doc |-> call[r].doc,
                    supplier |-> Content(corpora[call[r].corpus])[call[r].doc]]}
  <2>1. call[r].corpus \in Corpora
    BY <1>2 DEF LoadDelete, At, TypeInv, CorpusInv, CorpusLabels
  <2> QED
    BY <1>1, <1>2, <2>1 DEF LoadDelete, Parses, files, Goto
<1>3. ASSUME NEW r \in Requests, Run(r), ~ LoadDelete(r)
      PROVE  deleted' = deleted
  BY <1>3, QuietRun DEF LoadCorpus, history
<1>4. ASSUME NEW r \in Requests, Begin(r)
      PROVE  deleted' = deleted
  BY <1>4, BeginFrame DEF history
<1>5. Crash \/ (\E u \in Requests : RemoveAssets(u)) \/ UNCHANGED vars => deleted' = deleted
  BY DEF Crash, RemoveAssets, vars, history
<1> QED
  BY <1>2, <1>3, <1>4, <1>5 DEF Next

\* A request that has begun stays so.
LEMMA BegunStep ==
    ASSUME TypeInv, [Next]_vars, NEW r \in Requests, Begun(r)
    PROVE  pc'[r] # "idle"
<1>1. ASSUME NEW q \in Requests, Begin(q) \/ Run(q)
      PROVE  pc'[r] # "idle"
  BY <1>1, BeginFrame, RunFrame DEF Begun
<1>2. Crash => pc'[r] # "idle"
  BY CrashFrame DEF Begun
<1>3. (\E u \in Requests : RemoveAssets(u)) \/ UNCHANGED vars => pc' = pc
  BY DEF RemoveAssets, vars
<1> QED
  BY <1>1, <1>2, <1>3 DEF Next, Begun

LEMMA SuppliersStep ==
    ASSUME TypeInv, StorageInv, SuppliersInv, [Next]_vars
    PROVE  SuppliersInv'
<1>1. /\ docs \in [Requests -> DocumentMaps]
      /\ deleted \subseteq [by : Requests, corpus : Corpora, doc : DocIds, supplier : Requests]
      /\ \A c \in Corpora : Exists(corpora[c]) => Content(corpora[c]) \in DocumentMaps
  BY ContentGood DEF TypeInv, TypeOK
<1>2. \A D \in DocumentMaps : SuppliersBegun(D) => \A d \in DOMAIN D : pc'[D[d]] # "idle"
  <2> SUFFICES ASSUME NEW D \in DocumentMaps, SuppliersBegun(D), NEW d \in DOMAIN D
               PROVE  pc'[D[d]] # "idle"
    OBVIOUS
  <2>1. D[d] \in Requests /\ Begun(D[d])
    BY DEF DocumentMaps, SuppliersBegun
  <2> QED
    BY <2>1, BegunStep
<1>3. ASSUME NEW q \in Requests
      PROVE  \A d \in DOMAIN docs'[q] : pc'[docs'[q][d]] # "idle"
  <2> DEFINE old == Content(corpora[call[q].corpus])
             new == docs'[q]
             mine == docs[q]
  <2>1. /\ mine \in DocumentMaps /\ SuppliersBegun(mine)
        /\ \A d \in DOMAIN mine : pc'[mine[d]] # "idle"
    BY <1>1, <1>2 DEF SuppliersInv
  <2>2. ASSUME pc[q] = "idle", Begin(q), \A d \in DOMAIN docs'[q] : docs'[q][d] = q
        PROVE  \A d \in DOMAIN new : pc'[new[d]] # "idle"
    BY <2>2, BeginFrame
  <2>3. call[q].corpus \in Corpora /\ Exists(corpora[call[q].corpus])
           => old \in DocumentMaps /\ \A d \in DOMAIN old : pc'[old[d]] # "idle"
    <3>1. call[q].corpus \in Corpora /\ Exists(corpora[call[q].corpus])
             => old \in DocumentMaps /\ SuppliersBegun(old)
      BY <1>1 DEF SuppliersInv
    <3> HIDE DEF old
    <3> QED
      BY <1>2, <3>1
  <2>4. \/ new = mine
        \/ pc[q] = "idle" /\ Begin(q) /\ \A d \in DOMAIN docs'[q] : docs'[q][d] = q
        \/ /\ call[q].corpus \in Corpora /\ Exists(corpora[call[q].corpus])
           /\ new = MergeDocuments(old, mine) \/ new = Without(old, call[q].doc)
    BY DocsStep
  <2> HIDE DEF old, new, mine
  <2>5. \A f, g \in DocumentMaps :
           /\ DOMAIN MergeDocuments(f, g) = DOMAIN f \cup DOMAIN g
           /\ \A d \in DOMAIN MergeDocuments(f, g) :
                 MergeDocuments(f, g)[d] = IF d \in DOMAIN g THEN g[d] ELSE f[d]
    BY MergeFacts
  <2>6. \A f \in DocumentMaps : \A d : \A e \in DOMAIN Without(f, d) :
           e \in DOMAIN f /\ Without(f, d)[e] = f[e]
    BY WithoutFacts DEF Within
  <2>7. ASSUME old \in DocumentMaps, \A d \in DOMAIN old : pc'[old[d]] # "idle",
               new = MergeDocuments(old, mine)
        PROVE  \A d \in DOMAIN new : pc'[new[d]] # "idle"
    <3>1. /\ DOMAIN new = DOMAIN old \cup DOMAIN mine
          /\ \A d \in DOMAIN new : new[d] = IF d \in DOMAIN mine THEN mine[d] ELSE old[d]
      <4>1. mine \in DocumentMaps
        BY <2>1
      <4> QED
        BY ONLY <2>5, <2>7, <4>1
    <3> QED
      BY <2>1, <2>7, <3>1
  <2>8. ASSUME old \in DocumentMaps, \A d \in DOMAIN old : pc'[old[d]] # "idle",
               new = Without(old, call[q].doc)
        PROVE  \A d \in DOMAIN new : pc'[new[d]] # "idle"
    <3>1. \A d \in DOMAIN new : d \in DOMAIN old /\ new[d] = old[d]
      BY <2>6, <2>8
    <3> QED
      BY <2>8, <3>1
  <2>9. \A d \in DOMAIN new : pc'[new[d]] # "idle"
    BY <2>1, <2>2, <2>3, <2>4, <2>7, <2>8
  <2> QED
    BY <2>9 DEF new
<1>4. ASSUME NEW c \in Corpora, Exists(corpora'[c])
      PROVE  LET D == Content(corpora'[c]) IN \A d \in DOMAIN D : pc'[D[d]] # "idle"
  <2> DEFINE D == Content(corpora'[c])
             old == Content(corpora[c])
  <2>1. \/ Exists(corpora[c]) /\ D = old
        \/ \E r \in Requests : D = docs[r]
    BY <1>4, ContentStep
  <2>2. Exists(corpora[c]) => old \in DocumentMaps /\ SuppliersBegun(old)
    BY <1>1 DEF SuppliersInv
  <2>3. \A r \in Requests : docs[r] \in DocumentMaps /\ SuppliersBegun(docs[r])
    BY <1>1 DEF SuppliersInv
  <2> HIDE DEF D, old
  <2>4. D \in DocumentMaps /\ SuppliersBegun(D)
    BY <2>1, <2>2, <2>3
  <2>5. \A d \in DOMAIN D : pc'[D[d]] # "idle"
    BY <1>2, <2>4
  <2> QED
    BY <2>5 DEF D
<1>5. ASSUME NEW x \in deleted'
      PROVE  pc'[x.supplier] # "idle"
  <2>1. x \in deleted => x.supplier \in Requests /\ Begun(x.supplier)
    BY <1>1 DEF SuppliersInv
  <2>2. ASSUME x \notin deleted
        PROVE  x.supplier \in Requests /\ Begun(x.supplier)
    <3>1. PICK c \in Corpora :
             /\ Exists(corpora[c])
             /\ \E d \in DOMAIN Content(corpora[c]) : x.supplier = Content(corpora[c])[d]
      BY <1>5, <2>2, DeletedStep
    <3> DEFINE D == Content(corpora[c])
    <3>2. D \in DocumentMaps /\ SuppliersBegun(D) /\ \E d \in DOMAIN D : x.supplier = D[d]
      BY <1>1, <3>1 DEF SuppliersInv
    <3> HIDE DEF D
    <3> QED
      BY <3>2 DEF SuppliersBegun, DocumentMaps
  <2> QED
    BY <2>1, <2>2, BegunStep
<1> QED
  BY <1>3, <1>4, <1>5 DEF SuppliersInv, SuppliersBegun, Begun

LEMMA DeleterStep ==
    ASSUME TypeInv, StorageInv, OpInv, DeleterInv, [Next]_vars
    PROVE  DeleterInv'
<1>1. /\ pc \in [Requests -> Labels]
      /\ deleted \subseteq [by : Requests, corpus : Corpora, doc : DocIds, supplier : Requests]
  BY DEF TypeInv, TypeOK
<1>2. ASSUME NEW x \in deleted
      PROVE  \/ pc'[x.by] = "done"
             \/ /\ pc'[x.by] \in Saving
                /\ call'[x.by].op = "delete" /\ call'[x.by].corpus = x.corpus
  <2> DEFINE r == x.by
  <2>1. /\ r \in Requests
        /\ \/ pc[r] = "done"
           \/ pc[r] \in Saving /\ call[r].op = "delete" /\ call[r].corpus = x.corpus
    BY <1>1, <1>2 DEF DeleterInv
  <2> HIDE DEF r
  <2>2. ASSUME NEW q \in Requests, Begin(q)
        PROVE  q # r /\ pc'[r] = pc[r] /\ call'[r] = call[r]
    BY <2>1, <2>2, BeginFrame DEF Saving
  <2>3. ASSUME NEW q \in Requests, Run(q), q # r
        PROVE  pc'[r] = pc[r] /\ call'[r] = call[r]
    BY <2>1, <2>3, RunFrame
  <2>4. ASSUME Run(r)
        PROVE  pc[r] \in Saving /\ pc'[r] \in Saving \cup {"done"} /\ call' = call
    <3>1. pc[r] \in Saving /\ call[r].op = "delete"
      BY <2>1, <2>4, RunFrame DEF Resting
    <3>2. OpenCorpus(r) \/ DumpCorpus(r) \/ ReplaceCorpus(r)
      BY <2>4, <3>1 DEF Run, ReadVersions, LoadCorpus, CreateCollection, Upsert, OpenPickle,
           DumpPickle, Record, StageFails, Rollback, CheckAssets, OpenManifest, DumpManifest,
           ReplaceManifest, LoadDelete, Respond, At, Saving
    <3> QED
      BY <1>1, <2>1, <3>1, <3>2 DEF OpenCorpus, DumpCorpus, ReplaceCorpus, Goto, Fail, Answer,
                                    Saving, IndexOps
  <2>5. ASSUME Crash
        PROVE  call' = call /\ pc'[r] \in {"done", pc[r]}
    BY <1>1, <2>1, <2>5 DEF Crash
  <2>6. (\E u \in Requests : RemoveAssets(u)) \/ UNCHANGED vars => UNCHANGED <<pc, call>>
    BY DEF RemoveAssets, vars, locals
  <2>7. \/ pc'[r] = "done"
        \/ pc'[r] \in Saving /\ call'[r].op = "delete" /\ call'[r].corpus = x.corpus
    BY <2>1, <2>2, <2>3, <2>4, <2>5, <2>6 DEF Next, Saving
  <2> QED
    BY <2>7 DEF r
<1>3. ASSUME NEW x \in deleted', x \notin deleted
      PROVE  /\ pc'[x.by] \in Saving
             /\ call'[x.by].op = "delete" /\ call'[x.by].corpus = x.corpus
  <2>1. PICK r \in Requests : /\ LoadDelete(r) /\ pc'[r] = "openCorpus" /\ call' = call
                              /\ x.by = r /\ x.corpus = call[r].corpus
    BY <1>3, DeletedStep
  <2>2. call[r].op = "delete"
    BY <2>1 DEF LoadDelete, At, OpInv, OpAt
  <2> QED
    BY <2>1, <2>2 DEF Saving
<1> QED
  BY <1>2, <1>3 DEF DeleterInv

\* A deletion is acknowledged when its file is in place, not before.
LEMMA AcknowledgedStep ==
    ASSUME TypeInv, StorageInv, OpInv, DeleterInv, [Next]_vars, NEW x \in deleted,
           reply'[x.by].status = "200"
    PROVE  x.by \in Requests /\ (Acknowledged(x.by) \/ ReplaceCorpus(x.by))
<1> DEFINE r == x.by
<1>1. /\ r \in Requests
      /\ reply \in [Requests -> [status : Statuses, described : Requests \cup {NoVersion}]]
      /\ pc[r] = "done" \/ pc[r] \in Saving
  BY DEF TypeInv, TypeOK, DeleterInv
<1> HIDE DEF r
<1>2. ASSUME NEW q \in Requests, Begin(q)
      PROVE  reply'[r] = reply[r]
  BY <1>1, <1>2, BeginFrame DEF Saving
<1>3. ASSUME NEW q \in Requests, Run(q), q # r
      PROVE  reply'[r] = reply[r]
  BY <1>1, <1>3, RunFrame
<1>4. ASSUME Run(r), ~ ReplaceCorpus(r)
      PROVE  reply'[r] = reply[r] \/ reply'[r].status = "500"
  <2>1. pc[r] \in Saving
    BY <1>1, <1>4, RunFrame DEF Resting
  <2>2. OpenCorpus(r) \/ DumpCorpus(r)
    BY <1>4, <2>1 DEF Run, ReadVersions, LoadCorpus, CreateCollection, Upsert, OpenPickle,
         DumpPickle, Record, StageFails, Rollback, CheckAssets, OpenManifest, DumpManifest,
         ReplaceManifest, LoadDelete, Respond, At, Saving
  <2> QED
    BY <1>1, <2>2 DEF OpenCorpus, DumpCorpus, Fail, Answer
<1>5. Crash => reply'[r] = reply[r] \/ reply'[r].status = "lost"
  BY <1>1, CrashFrame
<1>6. (\E u \in Requests : RemoveAssets(u)) \/ UNCHANGED vars => UNCHANGED reply
  BY DEF RemoveAssets, vars
<1>7. r \in Requests /\ (reply[r].status = "200" \/ ReplaceCorpus(r))
  <2>1. reply'[r].status = "200"
    BY DEF r
  <2> QED
    BY <1>1, <1>2, <1>3, <1>4, <1>5, <1>6, <2>1 DEF Next
<1> QED
  BY <1>7 DEF r, Acknowledged

\* A deletion that was there before the step.
LEMMA GoneKept ==
    ASSUME TypeInv, StorageInv, OpInv, DeletionInv, [Next]_vars, NEW x \in deleted
    PROVE  /\ reply'[x.by].status = "200" /\ Exists(corpora'[x.corpus])
                 => Gone(x, Content(corpora'[x.corpus]))
           /\ \A q \in Requests : Forgotten(x, q)'
<1>1. /\ docs \in [Requests -> DocumentMaps] /\ Alone
      /\ x.by \in Requests /\ x.corpus \in Corpora /\ x.supplier \in Requests
      /\ pc[x.supplier] # "idle" /\ pc[x.by] # "idle"
      /\ pc[x.by] = "done" \/ (pc[x.by] \in Saving /\ call[x.by].corpus = x.corpus)
  BY DEF TypeInv, TypeOK, StorageInv, DeletionInv, SuppliersInv, DeleterInv, Begun, Saving
<1>2. /\ Acknowledged(x.by) /\ Exists(corpora[x.corpus]) => Gone(x, Content(corpora[x.corpus]))
      /\ \A q \in Requests : Forgotten(x, q)
  BY DEF DeletionInv, GoneInv
<1>3. reply'[x.by].status = "200" => Acknowledged(x.by) \/ ReplaceCorpus(x.by)
  BY AcknowledgedStep DEF DeletionInv
<1>4. \A r \in Requests : ReplaceCorpus(r) => pc[r] = "replaceCorpus"
  BY DEF ReplaceCorpus, At
<1>5. ASSUME reply'[x.by].status = "200", Exists(corpora'[x.corpus])
      PROVE  Gone(x, Content(corpora'[x.corpus]))
  <2>1. CASE \A r \in Requests : ~ ReplaceCorpus(r)
    <3>1. Exists(corpora[x.corpus]) /\ Content(corpora'[x.corpus]) = Content(corpora[x.corpus])
      BY <1>1, <1>5, <2>1, ContentStep
    <3> QED
      BY <1>1, <1>2, <1>3, <1>5, <2>1, <3>1
  <2>2. ASSUME NEW r \in Requests, ReplaceCorpus(r)
        PROVE  Gone(x, Content(corpora'[x.corpus]))
    <3>1. Acknowledged(x.by) \/ x.by = r
      BY <1>1, <1>3, <1>4, <1>5, <2>2 DEF Alone, Resting
    <3>2. CASE call[r].corpus = x.corpus
      <4>1. Content(corpora'[x.corpus]) = docs[r]
        BY <2>2, <3>2, ContentStep
      <4>2. Gone(x, docs[r])
        BY <1>2, <1>4, <2>2, <3>1, <3>2 DEF Forgotten, Resting
      <4> QED
        BY <4>1, <4>2
    <3>3. CASE call[r].corpus # x.corpus
      <4>1. corpora'[x.corpus] = corpora[x.corpus]
        BY <1>1, <2>2, <3>3, ContentStep
      <4>2. x.by # r
        BY <1>1, <1>4, <2>2, <3>3
      <4> QED
        BY <1>2, <1>5, <3>1, <4>1, <4>2
    <3> QED
      BY <3>2, <3>3
  <2> QED
    BY <2>1, <2>2
<1>6. ASSUME NEW q \in Requests, pc'[q] \notin {"idle", "done"},
             pc'[q] = "readVersions" \/ call'[q].corpus = x.corpus,
             reply'[x.by].status = "200" \/ x.by = q
      PROVE  Gone(x, docs'[q])
  <2>1. ASSUME Begin(q)
        PROVE  Gone(x, docs'[q])
    <3>1. pc[q] = "idle"
      BY <2>1, BeginFrame
    <3>2. \/ docs'[q] = NoDocuments
          \/ \E D \in SUBSET DocIds : docs'[q] = Supplied(q, D)
      BY <1>6, <2>1, BeginInput
    <3> QED
      BY <1>1, <3>1, <3>2 DEF Gone, Supplied, NoDocuments
  <2>2. ASSUME Run(q)
        PROVE  Gone(x, docs'[q])
    <3>1. /\ ~ Resting(q)
          /\ pc[q] = "readVersions" \/ call[q].corpus = x.corpus
      <4>1. CASE ReadVersions(q)
        BY <4>1 DEF ReadVersions, At, Resting
      <4>2. CASE ~ ReadVersions(q)
        <5>1. call' = call
          BY <2>2, <4>2, QuietRun DEF LoadCorpus, LoadDelete
        <5>2. pc'[q] # "readVersions"
          BY <1>1, <2>2, <4>2 DEF Run, LoadCorpus, CreateCollection, Upsert, OpenPickle,
               DumpPickle, Record, StageFails, Rollback, CheckAssets, OpenManifest, DumpManifest,
               ReplaceManifest, LoadDelete, OpenCorpus, DumpCorpus, ReplaceCorpus, Respond,
               Goto, Fail, Answer, TypeInv, TypeOK
        <5> QED
          BY <1>6, <2>2, <5>1, <5>2, RunFrame
      <4> QED
        BY <4>1, <4>2
    <3>2. Acknowledged(x.by) \/ x.by = q
      BY <1>1, <1>3, <1>4, <1>6, <3>1 DEF Alone, Resting
    <3>3. Gone(x, docs[q])
      BY <1>2, <3>1, <3>2 DEF Forgotten
    <3> DEFINE old == Content(corpora[call[q].corpus])
               new == docs'[q]
               mine == docs[q]
    <3>4. ASSUME LoadCorpus(q) \/ LoadDelete(q), call[q].corpus \in Corpora,
                 Exists(corpora[call[q].corpus])
          PROVE  Gone(x, old) /\ old \in DocumentMaps
      <4>1. pc[q] \in {"loadCorpus", "loadDelete"}
        BY <3>4 DEF LoadCorpus, LoadDelete, At
      <4>2. Acknowledged(x.by) /\ call[q].corpus = x.corpus
        BY <1>1, <3>1, <3>2, <4>1 DEF Saving
      <4> QED
        BY <1>2, <3>4, <4>2, ContentGood
    <3>5. \/ new = mine
          \/ /\ Gone(x, old) /\ old \in DocumentMaps
             /\ new = MergeDocuments(old, mine) \/ new = Without(old, call[q].doc)
      BY <2>2, <3>4, RunFrame, DocsStep DEF Resting
    <3>6. mine \in DocumentMaps /\ Gone(x, mine)
      BY <1>1, <3>3
    <3> HIDE DEF old, new, mine
    <3>7. \A f, g \in DocumentMaps : Gone(x, f) /\ Gone(x, g) => Gone(x, MergeDocuments(f, g))
      BY DEF Gone, MergeDocuments
    <3>8. \A f \in DocumentMaps : \A d : Gone(x, f) => Gone(x, Without(f, d))
      BY WithoutFacts DEF Gone, Within
    <3>9. Gone(x, new)
      BY <3>5, <3>6, <3>7, <3>8
    <3> QED
      BY <3>9 DEF new
  <2>3. ASSUME UNCHANGED <<docs, call, reply>>, pc'[q] = pc[q]
        PROVE  Gone(x, docs'[q])
    BY <1>2, <1>6, <2>3 DEF Forgotten, Resting, Acknowledged
  <2>4. ASSUME NEW r \in Requests, Begin(r), r # q
        PROVE  Gone(x, docs'[q])
    <3>1. /\ x.by # r /\ reply'[x.by] = reply[x.by]
          /\ pc'[q] = pc[q] /\ call'[q] = call[q] /\ docs'[q] = docs[q]
      BY <1>1, <2>4, BeginFrame
    <3> QED
      BY <1>2, <1>6, <3>1 DEF Forgotten, Resting, Acknowledged
  <2>5. ASSUME NEW r \in Requests, Run(r), r # q
        PROVE  FALSE
    BY <1>1, <1>6, <2>5, RunFrame DEF Alone, Resting
  <2>6. Crash => FALSE
    BY <1>6, CrashFrame DEF Resting
  <2>7. (\E u \in Requests : RemoveAssets(u)) \/ UNCHANGED vars
           => UNCHANGED <<docs, call, reply, pc>>
    BY DEF RemoveAssets, vars, locals
  <2> QED
    BY <2>1, <2>2, <2>3, <2>4, <2>5, <2>6, <2>7 DEF Next
<1> QED
  BY <1>5, <1>6 DEF Forgotten, Resting, Acknowledged, Gone

LEMMA GoneStep ==
    ASSUME TypeInv, StorageInv, OpInv, DeletionInv, [Next]_vars
    PROVE  GoneInv'
<1>1. docs \in [Requests -> DocumentMaps]
  BY DEF TypeInv, TypeOK
<1>2. ASSUME NEW x \in deleted', x \notin deleted
      PROVE  reply'[x.by].status # "200" /\ \A q \in Requests : Forgotten(x, q)'
  <2>1. PICK r \in Requests :
           /\ LoadDelete(r) /\ call[r].corpus \in Corpora /\ Exists(corpora[call[r].corpus])
           /\ reply' = reply /\ x.by = r /\ x.doc = call[r].doc
           /\ docs'[r] = Without(Content(corpora[call[r].corpus]), call[r].doc)
    BY <1>2, DeletedStep
  <2>2. reply'[x.by].status # "200"
    BY <2>1 DEF LoadDelete, At, StorageInv, ReplyInv
  <2>3. x.doc \notin DOMAIN docs'[r]
    <3> DEFINE old == Content(corpora[call[r].corpus])
    <3>1. old \in DocumentMaps /\ docs'[r] = Without(old, x.doc)
      BY <2>1, ContentGood
    <3> HIDE DEF old
    <3> QED
      BY <3>1, WithoutFacts
  <2> QED
    BY <2>1, <2>2, <2>3 DEF Forgotten, Gone, Acknowledged
<1> QED
  BY <1>2, GoneKept DEF GoneInv, Acknowledged, Gone

LEMMA InitDeletion == Init => DeletionInv
BY DEF Init, DeletionInv, SuppliersInv, DeleterInv, GoneInv, SuppliersBegun, NoDocuments, Exists,
       NoFile

\* A text whose deletion was acknowledged never comes back into the corpus file, by
\* whatever else is appended, replayed or deleted, unless a request supplies it anew.
THEOREM DeletionLasts ==
    ASSUME MaxInFlight = 1
    PROVE  Spec => []DeletedStaysDeleted
<1>1. SerialInv /\ DeletionInv /\ [Next]_vars => (SerialInv /\ DeletionInv)'
  BY SerialStep, SuppliersStep, DeleterStep, GoneStep
     DEF SerialInv, IInv, VersionInv, DeletionInv
<1>2. SerialInv /\ DeletionInv => DeletedStaysDeleted
  BY DEF DeletionInv, GoneInv, Gone, DeletedStaysDeleted, Parses
<1> QED
  BY <1>1, <1>2, InitSerial, InitDeletion, PTL DEF Spec
==============================================================================
