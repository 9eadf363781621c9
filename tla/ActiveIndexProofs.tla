--------------------------- MODULE ActiveIndexProofs ---------------------------
(***************************************************************************)
(* What ActiveIndexResolver guarantees for any number of threads and       *)
(* versions: no search is handed None for an index, and the index handed   *)
(* out is the active version's until searches overlap, and again once one  *)
(* that is alone has refreshed the slot.                                   *)
(***************************************************************************)
EXTENDS ActiveIndex, TLAPS

\* What a thread's locals hold, by where the thread is.
LocalsInv ==
    \A t \in Threads :
        /\ pc[t] \in {"compare", "checkIndex", "build", "setVersion", "setIndex",
                      "return"} => wanted[t] \in Versions
        /\ pc[t] \in {"setVersion", "setIndex"} => built[t] = wanted[t]

\* Once a thread is about to return, the slot is filled for good.
FilledInv ==
    /\ \A t \in Threads : pc[t] = "return" => cachedIndex # NoVersion
    /\ answer \in Contexts => answer.lexical # NoVersion

\* A thread that is alone in resolve(), and was since its call, finds the slot
\* labelled as it left it.
AloneInv ==
    overlap # "now" =>
        /\ \A t, u \in Threads : pc[t] # "idle" /\ pc[u] # "idle" => t = u
        /\ \A t \in Threads :
              /\ pc[t] \in {"checkIndex", "setIndex", "return"}
                    => cachedVersion = wanted[t]
              /\ pc[t] # "idle" => answer = NotAsked

\* Once its slot was refreshed by such a thread, and until threads overlap again, the
\* slot's two halves differ only between its two assignments.
PairedInv ==
    overlap = "none" =>
        /\ cachedIndex # cachedVersion => \E t \in Threads : pc[t] = "setIndex"
        /\ ContextPaired

IInv == TypeOK /\ LocalsInv /\ FilledInv /\ AloneInv /\ PairedInv

-----------------------------------------------------------------------------

\* An error is not a context.
LEMMA ErrorFacts ==
    /\ NoIndex \notin Contexts
    /\ LoadFailed \notin Contexts
    /\ NotAsked \notin Contexts
BY DEF Contexts, NoIndex, LoadFailed, NotAsked

LEMMA InitIInv == Init => IInv
BY ErrorFacts DEF Init, IInv, TypeOK, LocalsInv, FilledInv, AloneInv, PairedInv, ContextPaired,
                  Optional, Labels, Overlaps

LEMMA TypeStep == TypeOK /\ LocalsInv /\ [Next]_vars => TypeOK'
<1> SUFFICES ASSUME TypeOK, LocalsInv, [Next]_vars PROVE TypeOK'
  OBVIOUS
<1> USE DEF TypeOK, Labels, Optional, Overlaps
<1>1. ASSUME NEW t \in Threads, Call(t) PROVE TypeOK'
  BY <1>1 DEF Call, At, Goto, disk, cache
<1>2. ASSUME NEW t \in Threads, LoadManifest(t) PROVE TypeOK'
  BY <1>2 DEF LoadManifest, At, Goto, Return, disk, cache
<1>3. ASSUME NEW t \in Threads, Compare(t) \/ CheckIndex(t) PROVE TypeOK'
  BY <1>3 DEF Compare, CheckIndex, At, Goto, disk, cache
<1>4. ASSUME NEW t \in Threads, Build(t) PROVE TypeOK'
  BY <1>4 DEF Build, At, Goto, Return, disk, cache
<1>5. ASSUME NEW t \in Threads, SetVersion(t) \/ SetIndex(t) PROVE TypeOK'
  BY <1>5 DEF SetVersion, SetIndex, At, Goto, disk
<1>6. ASSUME NEW t \in Threads, ReturnContext(t) PROVE TypeOK'
  <2>1. [version |-> wanted[t], lexical |-> cachedIndex] \in Contexts
    BY <1>6 DEF ReturnContext, At, LocalsInv, Contexts
  <2> QED
    BY <1>6, <2>1 DEF ReturnContext, Return, disk, cache
<1>7. ASSUME NEW v \in Versions, Publish(v) \/ Rollback(v) \/ RemovePickle(v)
      PROVE  TypeOK'
  BY <1>7 DEF Publish, Rollback, RemovePickle, cache, threads
<1>8. CASE UNCHANGED vars
  BY <1>8 DEF vars, disk, cache, threads
<1> QED
  BY <1>1, <1>2, <1>3, <1>4, <1>5, <1>6, <1>7, <1>8 DEF Next, Resolve

\* The write side of the program touches none of the resolver's state.
LEMMA DiskStep ==
    ASSUME IInv, (\E v \in Versions : Publish(v) \/ Rollback(v) \/ RemovePickle(v))
                 \/ UNCHANGED vars
    PROVE  LocalsInv' /\ FilledInv' /\ AloneInv' /\ PairedInv'
<1>1. UNCHANGED <<cache, threads, overlap>>
  BY DEF Publish, Rollback, RemovePickle, vars
<1> QED
  BY <1>1 DEF IInv, LocalsInv, FilledInv, AloneInv, PairedInv, ContextPaired, cache, threads

LEMMA LocalsStep ==
    ASSUME IInv, NEW t \in Threads, Resolve(t)
    PROVE  LocalsInv'
<1> USE DEF IInv, TypeOK, LocalsInv, Labels, At
<1>1. CASE Call(t)
  BY <1>1 DEF Call, Goto
<1>2. CASE LoadManifest(t)
  BY <1>2 DEF LoadManifest, Goto, Return
<1>3. CASE Compare(t) \/ CheckIndex(t)
  BY <1>3 DEF Compare, CheckIndex, Goto
<1>4. CASE Build(t)
  BY <1>4 DEF Build, Goto, Return
<1>5. CASE SetVersion(t) \/ SetIndex(t)
  BY <1>5 DEF SetVersion, SetIndex, Goto
<1>6. CASE ReturnContext(t)
  BY <1>6 DEF ReturnContext, Return
<1> QED
  BY <1>1, <1>2, <1>3, <1>4, <1>5, <1>6 DEF Resolve

LEMMA FilledStep ==
    ASSUME IInv, NEW t \in Threads, Resolve(t)
    PROVE  FilledInv'
<1> USE DEF IInv, TypeOK, FilledInv, Labels, At
<1>1. CASE Call(t)
  BY <1>1, ErrorFacts DEF Call, Goto, cache
<1>2. CASE LoadManifest(t)
  BY <1>2, ErrorFacts DEF LoadManifest, Goto, Return, cache
<1>3. CASE Compare(t) \/ CheckIndex(t)
  BY <1>3 DEF Compare, CheckIndex, Goto, cache
<1>4. CASE Build(t)
  BY <1>4, ErrorFacts DEF Build, Goto, Return, cache
<1>5. CASE SetVersion(t)
  BY <1>5 DEF SetVersion, Goto
<1>6. CASE SetIndex(t)
  <2>1. cachedIndex' \in Versions
    BY <1>6 DEF SetIndex, LocalsInv
  <2>2. cachedIndex' # NoVersion
    BY <2>1, NoVersionAssumption
  <2> QED
    BY <1>6, <2>2 DEF SetIndex, Goto
<1>7. CASE ReturnContext(t)
  BY <1>7 DEF ReturnContext, Return, cache
<1> QED
  BY <1>1, <1>2, <1>3, <1>4, <1>5, <1>6, <1>7 DEF Resolve

\* Alone before a step of its own, a thread still is after it.
LEMMA StepAlone ==
    ASSUME IInv, NEW t \in Threads, Resolve(t), overlap' # "now"
    PROVE  /\ \A u \in Threads : u # t => pc[u] = "idle"
           /\ ~ Call(t) => overlap # "now" /\ pc[t] # "idle"
<1> USE DEF IInv, AloneInv, At
<1>1. CASE Call(t)
  BY <1>1 DEF Call
<1>2. CASE ~ Call(t)
  BY <1>2 DEF Resolve, LoadManifest, Compare, CheckIndex, Build, SetVersion, SetIndex,
              ReturnContext
<1> QED
  BY <1>1, <1>2

LEMMA AloneStep ==
    ASSUME IInv, NEW t \in Threads, Resolve(t)
    PROVE  AloneInv'
<1> SUFFICES ASSUME overlap' # "now"
             PROVE  AloneInv'
  BY DEF AloneInv
<1> USE DEF IInv, TypeOK, LocalsInv, AloneInv, Labels, At
<1>1. \A u \in Threads : u # t => pc[u] = "idle"
  BY StepAlone
<1>2. CASE Call(t)
  BY <1>1, <1>2 DEF Call, Goto, cache
<1>3. ~ Call(t) => overlap # "now" /\ pc[t] # "idle"
  BY StepAlone
<1>4. CASE LoadManifest(t) /\ ~ Call(t)
  BY <1>1, <1>3, <1>4 DEF LoadManifest, Goto, Return, cache
<1>5. CASE (Compare(t) \/ CheckIndex(t)) /\ ~ Call(t)
  BY <1>1, <1>3, <1>5 DEF Compare, CheckIndex, Goto, cache
<1>6. CASE Build(t) /\ ~ Call(t)
  BY <1>1, <1>3, <1>6 DEF Build, Goto, Return, cache
<1>7. CASE SetVersion(t) /\ ~ Call(t)
  BY <1>1, <1>3, <1>7 DEF SetVersion, Goto
<1>8. CASE SetIndex(t) /\ ~ Call(t)
  BY <1>1, <1>3, <1>8 DEF SetIndex, Goto
<1>9. CASE ReturnContext(t) /\ ~ Call(t)
  BY <1>1, <1>3, <1>9 DEF ReturnContext, Return, cache
<1> QED
  BY <1>2, <1>4, <1>5, <1>6, <1>7, <1>8, <1>9 DEF Resolve

\* The slot is paired from one refresh that is alone to the next overlap.
LEMMA PairedStep ==
    ASSUME IInv, NEW t \in Threads, Resolve(t)
    PROVE  PairedInv'
<1> SUFFICES ASSUME overlap' = "none"
             PROVE  PairedInv'
  BY DEF PairedInv
<1> USE DEF IInv, TypeOK, LocalsInv, AloneInv, PairedInv, ContextPaired, Labels, At
<1>1. \A u \in Threads : u # t => pc[u] = "idle"
  BY StepAlone
<1>2. CASE Call(t)
  BY <1>1, <1>2, ErrorFacts DEF Call, Goto, cache
<1>3. ~ Call(t) => overlap # "now" /\ pc[t] # "idle"
  BY StepAlone
<1>4. CASE LoadManifest(t) /\ ~ Call(t)
  BY <1>1, <1>3, <1>4, ErrorFacts DEF LoadManifest, Goto, Return, cache
<1>5. CASE (Compare(t) \/ CheckIndex(t)) /\ ~ Call(t)
  BY <1>1, <1>3, <1>5 DEF Compare, CheckIndex, Goto, cache
<1>6. CASE Build(t) /\ ~ Call(t)
  BY <1>1, <1>3, <1>6, ErrorFacts DEF Build, Goto, Return, cache
<1>7. CASE SetVersion(t) /\ ~ Call(t)
  BY <1>1, <1>3, <1>7 DEF SetVersion, Goto
<1>8. CASE SetIndex(t) /\ ~ Call(t)
  BY <1>1, <1>3, <1>8, ErrorFacts DEF SetIndex, Goto
<1>9. CASE ReturnContext(t) /\ ~ Call(t)
  BY <1>1, <1>3, <1>9 DEF ReturnContext, Return, cache
<1> QED
  BY <1>2, <1>4, <1>5, <1>6, <1>7, <1>8, <1>9 DEF Resolve

LEMMA IInvStep == IInv /\ [Next]_vars => IInv'
<1> SUFFICES ASSUME IInv, [Next]_vars PROVE IInv'
  OBVIOUS
<1>1. TypeOK'
  BY TypeStep DEF IInv
<1>2. CASE (\E v \in Versions : Publish(v) \/ Rollback(v) \/ RemovePickle(v))
           \/ UNCHANGED vars
  BY <1>1, <1>2, DiskStep DEF IInv
<1>3. ASSUME NEW t \in Threads, Resolve(t) PROVE IInv'
  BY <1>1, <1>3, LocalsStep, FilledStep, AloneStep, PairedStep DEF IInv
<1> QED
  BY <1>2, <1>3 DEF Next

\* Whatever is resolved, published, rolled back to or deleted, an active version is
\* one the manifest lists, and every local variable of resolve() has its type.
THEOREM TypeCorrect == Spec => []TypeOK
<1>1. IInv => TypeOK
  BY DEF IInv
<1> QED
  BY <1>1, InitIInv, IInvStep, PTL DEF Spec

\* No search is handed None: the second test of resolve() covers the moment
\* between the two assignments to the slot, for any number of searches.
THEOREM ContextsComplete == Spec => []ContextComplete
<1>1. IInv => ContextComplete
  BY DEF IInv, FilledInv, ContextComplete
<1> QED
  BY <1>1, InitIInv, IInvStep, PTL DEF Spec

\* The index handed to a search is that of the version it reports, and the slot's
\* index that of its label, whatever the write side and the file system do, until
\* searches overlap; and again from the next refresh by a search that is alone.
THEOREM ContextsPairedUntilOverlap == Spec => []PairedUntilOverlap
<1>1. IInv => PairedUntilOverlap
  BY DEF IInv, PairedInv, PairedUntilOverlap, SlotKeyedByVersion, At
<1> QED
  BY <1>1, InitIInv, IInvStep, PTL DEF Spec
===============================================================================
