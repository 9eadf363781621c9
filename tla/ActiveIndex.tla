------------------------------ MODULE ActiveIndex ------------------------------
(***************************************************************************)
(* ActiveIndexResolver (src/app/search/active_index.py): how a search gets *)
(* hold of the active version.  POST /search runs in a worker thread; every*)
(* thread uses the one resolver, whose cache is two attributes, read and   *)
(* written one at a time.  The manifest is read whole here (IndexLifecycle *)
(* says when it can be); what it names as active changes at any moment, and*)
(* pickles disappear.                                                      *)
(***************************************************************************)
CONSTANTS
    Threads,        \* worker threads that run searches, one after another
    Versions,       \* index version ids
    NoVersion       \* Python's None

ASSUME NoVersionAssumption == NoVersion \notin Versions

VARIABLES
    active,         \* active_version of the manifest on disk
    recorded,       \* the versions the manifest lists
    pickles,        \* the versions whose pickle is on disk
    cachedVersion,  \* self._cached_version
    cachedIndex,    \* self._cached_lexical_index: the version it was loaded from
    pc,             \* where each thread is
    wanted,         \* `index_version` of each thread's resolve()
    built,          \* `lexical_index` of each thread's resolve()
    answer,         \* what the last search resolved to
    overlap         \* history: have threads been in resolve() together?

disk == <<active, recorded, pickles>>
cache == <<cachedVersion, cachedIndex>>
threads == <<pc, wanted, built, answer>>
vars == <<disk, cache, threads, overlap>>

Optional == Versions \cup {NoVersion}

\* ActiveIndexContext: the version (and so its collection) and the lexical index.
Contexts == [version : Versions, lexical : Optional]
NoIndex == [error |-> "NoActiveIndexError"]
LoadFailed == [error |-> "FileNotFoundError"]
NotAsked == [error |-> "none"]

\* "now" until the threads that were in resolve() together have left it, "past" until
\* a search refreshes the slot with nobody else around.
Overlaps == {"none", "now", "past"}

Labels == {"idle", "loadManifest", "compare", "checkIndex", "build",
           "setVersion", "setIndex", "return"}

TypeOK ==
    /\ recorded \subseteq Versions
    /\ active \in recorded \cup {NoVersion}
    /\ pickles \subseteq Versions
    /\ cachedVersion \in Optional
    /\ cachedIndex \in Optional
    /\ pc \in [Threads -> Labels]
    /\ wanted \in [Threads -> Optional]
    /\ built \in [Threads -> Optional]
    /\ answer \in Contexts \cup {NoIndex, LoadFailed, NotAsked}
    /\ overlap \in Overlaps

Init ==
    /\ active = NoVersion
    /\ recorded = {}
    /\ pickles = {}
    /\ cachedVersion = NoVersion
    /\ cachedIndex = NoVersion
    /\ pc = [t \in Threads |-> "idle"]
    /\ wanted = [t \in Threads |-> NoVersion]
    /\ built = [t \in Threads |-> NoVersion]
    /\ answer = NotAsked
    /\ overlap = "none"

-----------------------------------------------------------------------------
(* resolve(), statement by statement. *)

At(t, label) == pc[t] = label
Goto(t, label) == pc' = [pc EXCEPT ![t] = label]

Return(t, result) ==
    /\ pc' = [pc EXCEPT ![t] = "idle"]
    /\ answer' = result
    /\ wanted' = [wanted EXCEPT ![t] = NoVersion]
    /\ built' = [built EXCEPT ![t] = NoVersion]

Call(t) ==
    /\ At(t, "idle")
    /\ Goto(t, "loadManifest")
    /\ answer' = NotAsked
    /\ overlap' = IF \E u \in Threads \ {t} : ~ At(u, "idle") THEN "now"
                  ELSE IF overlap = "now" THEN "past" ELSE overlap
    /\ UNCHANGED <<disk, cache, wanted, built>>

LoadManifest(t) ==
    /\ At(t, "loadManifest")
    /\ \/ /\ active = NoVersion
          /\ Return(t, NoIndex)
       \/ /\ active # NoVersion
          /\ wanted' = [wanted EXCEPT ![t] = active]
          /\ Goto(t, "compare")
          /\ UNCHANGED <<built, answer>>
    /\ UNCHANGED <<disk, cache, overlap>>

\* index_version != self._cached_version ...
Compare(t) ==
    /\ At(t, "compare")
    /\ Goto(t, IF wanted[t] # cachedVersion THEN "build" ELSE "checkIndex")
    /\ UNCHANGED <<disk, cache, wanted, built, answer, overlap>>

\* ... or self._cached_lexical_index is None
MutantCheckIndex(t) ==
    /\ At(t, "checkIndex")
    /\ Goto(t, "return")
    /\ UNCHANGED <<disk, cache, wanted, built, answer, overlap>>
CheckIndex(t) ==
    /\ At(t, "checkIndex")
    /\ Goto(t, IF cachedIndex = NoVersion THEN "build" ELSE "return")
    /\ UNCHANGED <<disk, cache, wanted, built, answer, overlap>>

\* Load the pickle into a fresh index; the cache is untouched when that raises.
MutantBuild(t) ==
    /\ At(t, "build")
    /\ \/ /\ wanted[t] \notin pickles
          /\ cachedVersion' = wanted[t]
          /\ Return(t, LoadFailed)
       \/ /\ wanted[t] \in pickles
          /\ built' = [built EXCEPT ![t] = wanted[t]]
          /\ Goto(t, "setVersion")
          /\ UNCHANGED <<cachedVersion, wanted, answer>>
    /\ UNCHANGED <<disk, cachedIndex, overlap>>
Build(t) ==
    /\ At(t, "build")
    /\ \/ /\ wanted[t] \notin pickles
          /\ Return(t, LoadFailed)
       \/ /\ wanted[t] \in pickles
          /\ built' = [built EXCEPT ![t] = wanted[t]]
          /\ Goto(t, "setVersion")
          /\ UNCHANGED <<wanted, answer>>
    /\ UNCHANGED <<disk, cache, overlap>>

SetVersion(t) ==
    /\ At(t, "setVersion")
    /\ cachedVersion' = wanted[t]
    /\ Goto(t, "setIndex")
    /\ UNCHANGED <<disk, cachedIndex, wanted, built, answer, overlap>>

SetIndex(t) ==
    /\ At(t, "setIndex")
    /\ cachedIndex' = built[t]
    /\ overlap' = IF overlap = "past" THEN "none" ELSE overlap
    /\ Goto(t, "return")
    /\ UNCHANGED <<disk, cachedVersion, wanted, built, answer>>

\* The context takes its index from the cache, not from the local variable.
ReturnContext(t) ==
    /\ At(t, "return")
    /\ Return(t, [version |-> wanted[t], lexical |-> cachedIndex])
    /\ UNCHANGED <<disk, cache, overlap>>

-----------------------------------------------------------------------------
(* The write side: an indexing run publishes, a rollback reactivates a       *)
(* version whose assets exist, somebody deletes a pickle.                    *)

Publish(v) ==
    /\ v \notin recorded
    /\ recorded' = recorded \cup {v}
    /\ pickles' = pickles \cup {v}
    /\ active' = v
    /\ UNCHANGED <<cache, threads, overlap>>

MutantRollback(v) ==
    /\ v \notin pickles
    /\ active' = v
    /\ UNCHANGED <<recorded, pickles, cache, threads, overlap>>
Rollback(v) ==
    /\ v \in recorded \cap pickles
    /\ active' = v
    /\ UNCHANGED <<recorded, pickles, cache, threads, overlap>>

RemovePickle(v) ==
    /\ v \in pickles
    /\ pickles' = pickles \ {v}
    /\ UNCHANGED <<active, recorded, cache, threads, overlap>>

Resolve(t) ==
    \/ Call(t) \/ LoadManifest(t) \/ Compare(t) \/ CheckIndex(t) \/ Build(t)
    \/ SetVersion(t) \/ SetIndex(t) \/ ReturnContext(t)

Next ==
    \/ \E t \in Threads : Resolve(t)
    \/ \E v \in Versions : Publish(v) \/ Rollback(v) \/ RemovePickle(v)

Spec == Init /\ [][Next]_vars

-----------------------------------------------------------------------------
(* Properties. *)

\* However searches overlap, none is handed the None the cache starts with,
\* although the cached version is set a statement before the cached index.
ContextComplete == answer \in Contexts => answer.lexical # NoVersion

\* A search's lexical index and its vector collection are of one version.
ContextPaired == answer \in Contexts => answer.lexical = answer.version

\* "Single-slot cache keyed by `index_version`": when no search is in resolve(),
\* the slot holds the index of the version it is labelled with.  Otherwise every
\* later search of that version would be mispaired, with nobody else around.
SlotKeyedByVersion ==
    (\A t \in Threads : At(t, "idle")) => cachedIndex = cachedVersion

\* Only an overlap can mispair a context or the slot, and one refresh by a search
\* that is alone heals both: whatever is published, rolled back to or deleted while
\* the resolver works, and whichever pickle fails to load.
PairedUntilOverlap == overlap = "none" => ContextPaired /\ SlotKeyedByVersion
===============================================================================
