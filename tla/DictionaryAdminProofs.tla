------------------------- MODULE DictionaryAdminProofs -------------------------
(***************************************************************************)
(* What the dictionary handlers guarantee for any number of files, threads *)
(* and overlapping handlers: the expander on app.state says what the files *)
(* and the switch say until handlers overlap, and again once one that is   *)
(* alone has rebuilt it.                                                   *)
(***************************************************************************)
EXTENDS DictionaryAdmin, WellFoundedInduction, TLAPS

\* What a handler's locals hold, by where it is.
LocalsInv ==
    /\ \A h \in Handlers :
          /\ pc[h] = "write" => h = Loop /\ content \in Uploads
          /\ pc[h] \in {"write", "unlink"} => target[h] \in Names
          /\ pc[h] \in {"idle", "write", "unlink", "rebuild"} => todo[h] = {} /\ merged[h] = {}
    /\ ~ up => \A h \in Handlers : pc[h] = "idle"

\* The expander says what the files and the switch say, or cannot be rebuilt.
Follows == expander = Expander(files, enabled) \/ (enabled /\ Undecodable(files))

\* A rebuild that is reading has merged the files it no longer has to read.
ReadSoFar(h) ==
    /\ enabled
    /\ \A n \in Names \ todo[h] : files[n] # "undecodable"
    /\ merged[h] = {e \in Names \X Entries : e[1] \notin todo[h] /\ files[e[1]] = e[2]}

\* A handler that is alone, and was since its call: what it has read is still so.
AloneInv ==
    overlap # "now" =>
        /\ \A g, h \in Handlers : pc[g] # "idle" /\ pc[h] # "idle" => g = h
        /\ \A h \in Handlers :
              /\ pc[h] = "read" => ReadSoFar(h)
              /\ pc[h] = "assign" => merged[h] = Expander(files, enabled)

\* Once such a handler has rebuilt the expander, and until handlers overlap again, it is
\* right whenever no handler has changed a file or the switch and not yet rebuilt it.
RebuiltInv ==
    overlap = "none" /\ up /\ (\A h \in Handlers : pc[h] \in {"idle", "unlink"}) => Follows

IInv == TypeOK /\ LocalsInv /\ AloneInv /\ RebuiltInv

-----------------------------------------------------------------------------
(* The steps of a rebuild. *)

\* The first of the files a rebuild has to read.
LEMMA MinIsMember ==
    ASSUME NEW S \in SUBSET Names, S # {}
    PROVE  Min(S) \in S
<1>1. S \subseteq Nat
  BY NameCountAssumption DEF Names
<1>2. \E x \in S : \A y \in S : ~ (<<y, x>> \in OpToRel(<, Nat))
  BY <1>1, NatLessThanWellFounded, WFMin
<1>3. PICK x \in S : \A y \in S : ~ (y < x)
  BY <1>1, <1>2 DEF OpToRel
<1>4. \A y \in S : x =< y
  BY <1>1, <1>3
<1> QED
  BY <1>4 DEF Min

LEMMA ExpanderType ==
    ASSUME NEW fs, NEW on \in BOOLEAN
    PROVE  Expander(fs, on) \in Merge
BY DEF Expander, Merge

LEMMA InitIInv == Init => IInv
<1> SUFFICES ASSUME Init PROVE IInv
  OBVIOUS
<1>1. expander \in Merge
  BY ExpanderType, ConfiguredAssumption DEF Init
<1>2. TypeOK
  <2>1. files \in [Names -> FileStates]
    BY DEF Init, FileStates, Uploads
  <2>2. target \in [Handlers -> 0 .. NameCount]
    BY NameCountAssumption DEF Init
  <2>3. /\ todo \in [Handlers -> SUBSET Names]
        /\ merged \in [Handlers -> Merge]
    BY DEF Init, Merge
  <2>4. answer \in [by : Handlers, code : {"none", "200", "400", "404", "500"}]
    BY DEF Init, Unanswered, Handlers
  <2> QED
    BY <1>1, <2>1, <2>2, <2>3, <2>4, ConfiguredAssumption DEF Init, TypeOK, Overlaps
<1>3. LocalsInv
  BY DEF Init, LocalsInv
<1>4. AloneInv /\ RebuiltInv
  BY DEF Init, AloneInv, RebuiltInv, Follows
<1> QED
  BY <1>2, <1>3, <1>4 DEF IInv

-----------------------------------------------------------------------------
(* Types and locals. *)

LEMMA TypeStep == TypeOK /\ LocalsInv /\ [Next]_vars => TypeOK'
<1> SUFFICES ASSUME TypeOK, LocalsInv, [Next]_vars PROVE TypeOK'
  OBVIOUS
<1> USE DEF TypeOK, Overlaps, disk, state, locals
<1>a. Loop \in Handlers /\ Threads \subseteq Handlers
  BY DEF Handlers
<1>b. Names \subseteq 0 .. NameCount /\ 0 \in 0 .. NameCount
  BY NameCountAssumption DEF Names
<1>c. Uploads \subseteq FileStates /\ {"absent", "empty"} \subseteq FileStates
  BY DEF FileStates
<1>d. {} \in Merge
  BY DEF Merge
<1>1. ASSUME NEW n \in Names, NEW bytes \in Uploads, Upload(n, bytes) PROVE TypeOK'
  BY <1>1, <1>a, <1>b, <1>c DEF Upload, Call, Goto
<1>2. ASSUME Write PROVE TypeOK'
  BY <1>2, <1>a, <1>c DEF Write, At, Goto, LocalsInv
<1>3. ASSUME RejectUpload PROVE TypeOK'
  BY <1>3, <1>a, <1>b, <1>d DEF RejectUpload, Call, Answer, Goto
<1>4. ASSUME NEW t \in Threads, NEW n \in Names, Remove(t, n) PROVE TypeOK'
  <2>1. CASE Answer(t, "404")
    BY <1>4, <2>1, <1>a, <1>b, <1>d DEF Remove, Call, Answer, Goto
  <2>2. CASE ~ Answer(t, "404")
    BY <1>4, <2>2, <1>a, <1>b DEF Remove, Call, Goto
  <2> QED
    BY <2>1, <2>2
<1>5. ASSUME NEW t \in Threads, Unlink(t) PROVE TypeOK'
  <2>1. CASE files[target[t]] = "absent"
    <3>1. Answer(t, "500") /\ UNCHANGED <<files, enabled, expander, searchExpander, up, overlap>>
      BY <1>5, <2>1 DEF Unlink
    <3> QED
      BY <3>1, <1>a, <1>b, <1>d DEF Answer, Goto
  <2>2. CASE files[target[t]] # "absent"
    BY <1>5, <2>2, <1>a, <1>c DEF Unlink, At, Goto
  <2> QED
    BY <2>1, <2>2
<1>6. ASSUME NEW t \in Threads, NEW on \in BOOLEAN, Toggle(t, on) PROVE TypeOK'
  BY <1>6, <1>a DEF Toggle, Call, Goto
<1>7. ASSUME NEW h \in Handlers, Rebuild(h) PROVE TypeOK'
  BY <1>7 DEF Rebuild, At, Goto
<1>8. ASSUME NEW h \in Handlers, Load(h) PROVE TypeOK'
  <2> DEFINE n == Min(todo[h])
  <2>1. CASE files[n] = "undecodable" /\ Answer(h, "500")
    BY <1>8, <2>1, <1>b, <1>d DEF Load, At, Answer, Goto
  <2>2. CASE ~ (files[n] = "undecodable" /\ Answer(h, "500"))
    <3>1. merged[h] \cup ({<<n, files[n]>>} \cap (Names \X Entries)) \in Merge
      BY DEF Merge
    <3>2. /\ todo' = [todo EXCEPT ![h] = @ \ {n}]
          /\ merged' = [merged EXCEPT ![h] =
                            @ \cup ({<<n, files[n]>>} \cap (Names \X Entries))]
          /\ UNCHANGED <<pc, target, content, answer, files, enabled, expander,
                         searchExpander, up, overlap>>
      BY <1>8, <2>2 DEF Load
    <3> HIDE DEF n
    <3> QED
      BY <3>1, <3>2
  <2> QED
    BY <2>1, <2>2
<1>9. ASSUME NEW h \in Handlers, Loaded(h) PROVE TypeOK'
  BY <1>9 DEF Loaded, At, Goto
<1>10. ASSUME NEW h \in Handlers, Assign(h) PROVE TypeOK'
  BY <1>10, <1>b, <1>d DEF Assign, At, Answer, Goto
<1>11. ASSUME Stop PROVE TypeOK'
  BY <1>11, <1>a, <1>b, <1>d DEF Stop, Unanswered
<1>12. ASSUME Start PROVE TypeOK'
  BY <1>12, ConfiguredAssumption, ExpanderType DEF Start
<1>13. ASSUME UNCHANGED vars PROVE TypeOK'
  BY <1>13 DEF vars
<1> QED
  BY <1>1, <1>2, <1>3, <1>4, <1>5, <1>6, <1>7, <1>8, <1>9, <1>10, <1>11, <1>12, <1>13
     DEF Next

LEMMA LocalsStep == TypeOK /\ LocalsInv /\ [Next]_vars => LocalsInv'
<1> SUFFICES ASSUME TypeOK, LocalsInv, [Next]_vars PROVE LocalsInv'
  OBVIOUS
<1> USE DEF TypeOK, LocalsInv, disk, state, locals
<1>a. Loop \in Handlers /\ Threads \subseteq Handlers
  BY DEF Handlers
<1>1. ASSUME NEW n \in Names, NEW bytes \in Uploads, Upload(n, bytes) PROVE LocalsInv'
  BY <1>1, <1>a DEF Upload, Call, At, Goto
<1>2. ASSUME Write PROVE LocalsInv'
  BY <1>2, <1>a DEF Write, At, Goto
<1>3. ASSUME RejectUpload PROVE LocalsInv'
  BY <1>3, <1>a DEF RejectUpload, Call, At, Answer, Goto
<1>4. ASSUME NEW t \in Threads, NEW n \in Names, Remove(t, n) PROVE LocalsInv'
  BY <1>4, <1>a DEF Remove, Call, At, Answer, Goto
<1>5. ASSUME NEW t \in Threads, Unlink(t) PROVE LocalsInv'
  BY <1>5, <1>a DEF Unlink, At, Answer, Goto
<1>6. ASSUME NEW t \in Threads, NEW on \in BOOLEAN, Toggle(t, on) PROVE LocalsInv'
  BY <1>6, <1>a DEF Toggle, Call, At, Goto
<1>7. ASSUME NEW h \in Handlers, Rebuild(h) PROVE LocalsInv'
  BY <1>7 DEF Rebuild, At, Goto
<1>8. ASSUME NEW h \in Handlers, Load(h) PROVE LocalsInv'
  BY <1>8 DEF Load, At, Answer, Goto
<1>9. ASSUME NEW h \in Handlers, Loaded(h) PROVE LocalsInv'
  BY <1>9 DEF Loaded, At, Goto
<1>10. ASSUME NEW h \in Handlers, Assign(h) PROVE LocalsInv'
  BY <1>10 DEF Assign, At, Answer, Goto
<1>11. ASSUME Stop PROVE LocalsInv'
  BY <1>11 DEF Stop
<1>12. ASSUME Start PROVE LocalsInv'
  BY <1>12 DEF Start
<1>13. ASSUME UNCHANGED vars PROVE LocalsInv'
  BY <1>13 DEF vars
<1> QED
  BY <1>1, <1>2, <1>3, <1>4, <1>5, <1>6, <1>7, <1>8, <1>9, <1>10, <1>11, <1>12, <1>13
     DEF Next

-----------------------------------------------------------------------------
(* Without overlap. *)

\* A call that overlaps nothing finds every handler idle; and the expander right, unless
\* an overlap has not been made up for.
LEMMA CallAlone ==
    ASSUME IInv, NEW h \in Handlers, Call(h), overlap' # "now"
    PROVE  /\ \A g \in Handlers : pc[g] = "idle"
           /\ overlap' = "none" => overlap = "none" /\ Follows
BY DEF IInv, RebuiltInv, Call, Running, At, TypeOK

LEMMA AloneStep == IInv /\ [Next]_vars => AloneInv'
<1> SUFFICES ASSUME IInv, [Next]_vars, overlap' # "now" PROVE AloneInv'
  BY DEF AloneInv
<1> USE DEF disk, state, locals
<1>a. Loop \in Handlers /\ Threads \subseteq Handlers
  BY DEF Handlers
<1>t. TypeOK /\ LocalsInv
  BY DEF IInv
<1>1. ASSUME NEW n \in Names, NEW bytes \in Uploads, Upload(n, bytes) PROVE AloneInv'
  <2>1. \A g \in Handlers : pc[g] = "idle"
    BY <1>1, <1>a, CallAlone DEF Upload
  <2>2. pc' = [g \in Handlers |-> IF g = Loop THEN "write" ELSE "idle"]
    BY <1>1, <1>t, <2>1 DEF Upload, Goto, TypeOK
  <2> QED
    BY <2>2, <1>a DEF AloneInv
<1>2. ASSUME Write PROVE AloneInv'
  <2>1. overlap # "now" /\ \A g \in Handlers : g # Loop => pc[g] = "idle"
    BY <1>2, <1>a DEF Write, IInv, AloneInv, At
  <2>2. pc' = [g \in Handlers |-> IF g = Loop THEN "rebuild" ELSE "idle"]
    BY <1>2, <1>t, <2>1 DEF Write, Goto, TypeOK
  <2> QED
    BY <2>2, <1>a DEF AloneInv
<1>3. ASSUME RejectUpload PROVE AloneInv'
  <2>1. \A g \in Handlers : pc[g] = "idle"
    BY <1>3, <1>a, CallAlone DEF RejectUpload
  <2>2. \A g \in Handlers : pc'[g] = "idle"
    BY <1>3, <1>t, <2>1 DEF RejectUpload, Answer, Goto, TypeOK
  <2> QED
    BY <2>2 DEF AloneInv
<1>4. ASSUME NEW t \in Threads, NEW n \in Names, Remove(t, n) PROVE AloneInv'
  <2>1. \A g \in Handlers : pc[g] = "idle"
    BY <1>4, <1>a, CallAlone DEF Remove
  <2>2. \A g \in Handlers : pc'[g] \in {"idle", "unlink"} /\ (g # t => pc'[g] = "idle")
    BY <1>4, <1>t, <2>1 DEF Remove, Answer, Goto, TypeOK
  <2> QED
    BY <2>2 DEF AloneInv
<1>5. ASSUME NEW t \in Threads, Unlink(t) PROVE AloneInv'
  <2>1. overlap # "now" /\ t \in Handlers /\ pc[t] = "unlink"
    BY <1>5, <1>a DEF Unlink, At
  <2>2. \A g \in Handlers : g # t => pc[g] = "idle"
    BY <2>1 DEF IInv, AloneInv
  <2>3. CASE files[target[t]] = "absent"
    <3>1. \A g \in Handlers : pc'[g] = "idle"
      BY <1>5, <1>t, <2>2, <2>3 DEF Unlink, Answer, Goto, TypeOK
    <3> QED
      BY <3>1 DEF AloneInv
  <2>4. CASE files[target[t]] # "absent"
    <3>1. pc' = [g \in Handlers |-> IF g = t THEN "rebuild" ELSE "idle"]
      BY <1>5, <1>t, <2>2, <2>4 DEF Unlink, Goto, TypeOK
    <3> QED
      BY <3>1, <2>1 DEF AloneInv
  <2> QED
    BY <2>3, <2>4
<1>6. ASSUME NEW t \in Threads, NEW on \in BOOLEAN, Toggle(t, on) PROVE AloneInv'
  <2>1. \A g \in Handlers : pc[g] = "idle"
    BY <1>6, <1>a, CallAlone DEF Toggle
  <2>2. pc' = [g \in Handlers |-> IF g = t THEN "rebuild" ELSE "idle"]
    BY <1>6, <1>t, <2>1 DEF Toggle, Goto, TypeOK
  <2> QED
    BY <2>2, <1>a DEF AloneInv
<1>7. ASSUME NEW h \in Handlers, Rebuild(h) PROVE AloneInv'
  <2>1. overlap # "now" /\ pc[h] = "rebuild"
    BY <1>7 DEF Rebuild, At
  <2>2. \A g \in Handlers : g # h => pc[g] = "idle"
    BY <2>1 DEF IInv, AloneInv
  <2>3. merged'[h] = {} /\ UNCHANGED <<files, enabled, expander>>
    BY <1>7, <1>t, <2>1 DEF Rebuild, LocalsInv
  <2>4. CASE enabled
    <3>1. pc' = [g \in Handlers |-> IF g = h THEN "read" ELSE "idle"]
      BY <1>7, <1>t, <2>2, <2>4 DEF Rebuild, Goto, TypeOK
    <3>2. todo'[h] = {n \in Names : files[n] # "absent"}
      BY <1>7, <1>t, <2>4 DEF Rebuild, TypeOK
    <3>3. \A e \in Names \X Entries : e[1] \notin todo'[h] => files[e[1]] # e[2]
      BY <3>2, EntriesAssumption
    <3>4. ReadSoFar(h)'
      BY <2>3, <2>4, <3>2, <3>3 DEF ReadSoFar
    <3> QED
      BY <3>1, <3>4 DEF AloneInv
  <2>5. CASE ~ enabled
    <3>1. pc' = [g \in Handlers |-> IF g = h THEN "assign" ELSE "idle"]
      BY <1>7, <1>t, <2>2, <2>5 DEF Rebuild, Goto, TypeOK
    <3>2. merged'[h] = Expander(files', enabled')
      BY <2>3, <2>5 DEF Expander
    <3> QED
      BY <3>1, <3>2 DEF AloneInv
  <2> QED
    BY <2>4, <2>5
<1>8. ASSUME NEW h \in Handlers, Load(h) PROVE AloneInv'
  <2> DEFINE n == Min(todo[h])
  <2>1. overlap # "now" /\ pc[h] = "read"
    BY <1>8 DEF Load, At
  <2>2. \A g \in Handlers : g # h => pc[g] = "idle"
    BY <2>1 DEF IInv, AloneInv
  <2>3. ReadSoFar(h)
    BY <2>1 DEF IInv, AloneInv
  <2>4. n \in todo[h] /\ n \in Names
    BY <1>8, <1>t, MinIsMember DEF Load, TypeOK
  <2>5. UNCHANGED <<files, enabled, expander>>
    BY <1>8 DEF Load
  <2>6. CASE files[n] = "undecodable"
    <3>1. \A g \in Handlers : pc'[g] = "idle"
      BY <1>8, <1>t, <2>2, <2>6 DEF Load, Answer, Goto, TypeOK
    <3> QED
      BY <3>1 DEF AloneInv
  <2>7. CASE files[n] # "undecodable"
    <3>1. /\ todo' = [todo EXCEPT ![h] = @ \ {n}]
          /\ merged' = [merged EXCEPT ![h] =
                            @ \cup ({<<n, files[n]>>} \cap (Names \X Entries))]
          /\ pc' = pc
      BY <1>8, <2>7 DEF Load
    <3> HIDE DEF n
    <3>2. /\ todo'[h] = todo[h] \ {n}
          /\ merged'[h] = merged[h] \cup ({<<n, files[n]>>} \cap (Names \X Entries))
      BY <1>t, <3>1 DEF TypeOK
    <3>3. merged'[h] = {e \in Names \X Entries : e[1] \notin todo'[h] /\ files[e[1]] = e[2]}
      <4>1. ASSUME NEW e \in Names \X Entries
            PROVE  e \in merged'[h] <=> e[1] \notin todo'[h] /\ files[e[1]] = e[2]
        <5>1. e \in merged[h] <=> e[1] \notin todo[h] /\ files[e[1]] = e[2]
          BY <2>3, <4>1 DEF ReadSoFar
        <5>2. e = <<n, files[n]>> <=> e[1] = n /\ files[e[1]] = e[2]
          BY <4>1
        <5> QED
          BY <2>4, <3>2, <4>1, <5>1, <5>2
      <4>2. merged'[h] \subseteq Names \X Entries
        BY <2>3, <3>2 DEF ReadSoFar
      <4> QED
        BY <4>1, <4>2
    <3>4. ReadSoFar(h)'
      BY <2>3, <2>5, <2>7, <3>2, <3>3 DEF ReadSoFar
    <3> QED
      BY <2>1, <2>2, <3>1, <3>4 DEF AloneInv
  <2> QED
    BY <2>6, <2>7
<1>9. ASSUME NEW h \in Handlers, Loaded(h) PROVE AloneInv'
  <2>1. overlap # "now" /\ pc[h] = "read" /\ todo[h] = {}
    BY <1>9 DEF Loaded, At
  <2>2. \A g \in Handlers : g # h => pc[g] = "idle"
    BY <2>1 DEF IInv, AloneInv
  <2>3. merged[h] = Expander(files, enabled)
    BY <2>1 DEF IInv, AloneInv, ReadSoFar, Expander
  <2>4. pc' = [g \in Handlers |-> IF g = h THEN "assign" ELSE "idle"]
    BY <1>9, <1>t, <2>2 DEF Loaded, Goto, TypeOK
  <2>5. UNCHANGED <<files, enabled, merged>>
    BY <1>9 DEF Loaded
  <2> QED
    BY <2>3, <2>4, <2>5 DEF AloneInv, Expander
<1>10. ASSUME NEW h \in Handlers, Assign(h) PROVE AloneInv'
  <2>1. overlap # "now" /\ pc[h] = "assign"
    BY <1>10 DEF Assign, At
  <2>2. \A g \in Handlers : g # h => pc[g] = "idle"
    BY <2>1 DEF IInv, AloneInv
  <2>3. \A g \in Handlers : pc'[g] = "idle"
    BY <1>10, <1>t, <2>2 DEF Assign, Answer, Goto, TypeOK
  <2> QED
    BY <2>3 DEF AloneInv
<1>11. ASSUME Stop PROVE AloneInv'
  BY <1>11 DEF Stop, AloneInv
<1>12. ASSUME Start PROVE AloneInv'
  <2>1. \A g \in Handlers : pc'[g] = "idle"
    BY <1>12, <1>t DEF Start, LocalsInv
  <2> QED
    BY <2>1 DEF AloneInv
<1>13. ASSUME UNCHANGED vars PROVE AloneInv'
  BY <1>13 DEF vars, IInv, AloneInv, ReadSoFar, Expander
<1> QED
  BY <1>1, <1>2, <1>3, <1>4, <1>5, <1>6, <1>7, <1>8, <1>9, <1>10, <1>11, <1>12, <1>13
     DEF Next

\* From a rebuild by a handler that is alone to the next overlap: what changes a file or
\* the switch goes on to rebuild, and only an undecodable file makes that fail.
LEMMA RebuiltStep == IInv /\ [Next]_vars => RebuiltInv'
<1> SUFFICES ASSUME IInv, [Next]_vars, overlap' = "none", up',
                    \A g \in Handlers : pc'[g] \in {"idle", "unlink"}
             PROVE  Follows'
  BY DEF RebuiltInv
<1> USE DEF disk, state, locals
<1>a. Loop \in Handlers /\ Threads \subseteq Handlers
  BY DEF Handlers
<1>t. TypeOK /\ LocalsInv
  BY DEF IInv
<1>1. ASSUME Follows, UNCHANGED <<files, enabled, expander>> PROVE Follows'
  BY <1>1 DEF Follows, Expander, Undecodable
\* The steps that leave a handler on its way to a rebuild do not end here.
<1>2. ASSUME NEW h \in Handlers, NEW label \in {"write", "rebuild", "read", "assign"},
             Goto(h, label)
      PROVE  FALSE
  BY <1>2, <1>t DEF Goto, TypeOK
<1>3. ASSUME NEW n \in Names, NEW bytes \in Uploads, Upload(n, bytes) PROVE Follows'
  BY <1>2, <1>3, <1>a DEF Upload
<1>4. ASSUME Write PROVE Follows'
  BY <1>2, <1>4, <1>a DEF Write
<1>5. ASSUME RejectUpload PROVE Follows'
  BY <1>1, <1>5, <1>a, CallAlone DEF RejectUpload
<1>6. ASSUME NEW t \in Threads, NEW n \in Names, Remove(t, n) PROVE Follows'
  BY <1>1, <1>6, <1>a, CallAlone DEF Remove
<1>7. ASSUME NEW t \in Threads, Unlink(t) PROVE Follows'
  <2>1. CASE files[target[t]] = "absent"
    <3>1. t \in Handlers /\ pc[t] = "unlink" /\ overlap = "none"
          /\ UNCHANGED <<files, enabled, expander>>
      BY <1>7, <1>a, <2>1 DEF Unlink, At
    <3>2. up /\ \A g \in Handlers : pc[g] \in {"idle", "unlink"}
      BY <1>t, <3>1 DEF LocalsInv, IInv, AloneInv
    <3> QED
      BY <1>1, <3>1, <3>2 DEF IInv, RebuiltInv
  <2>2. CASE files[target[t]] # "absent"
    BY <1>2, <1>7, <1>a, <2>2 DEF Unlink
  <2> QED
    BY <2>1, <2>2
<1>8. ASSUME NEW t \in Threads, NEW on \in BOOLEAN, Toggle(t, on) PROVE Follows'
  BY <1>2, <1>8, <1>a DEF Toggle
<1>9. ASSUME NEW h \in Handlers, Rebuild(h) \/ Loaded(h) PROVE Follows'
  BY <1>2, <1>9 DEF Rebuild, Loaded
<1>10. ASSUME NEW h \in Handlers, Load(h) PROVE Follows'
  <2> DEFINE n == Min(todo[h])
  <2>1. overlap = "none" /\ pc[h] = "read" /\ UNCHANGED <<files, enabled>>
    BY <1>10 DEF Load, At
  <2>2. n \in Names
    BY <1>10, <1>t, MinIsMember DEF Load, TypeOK
  <2>3. files[n] = "undecodable"
    <3>1. SUFFICES ASSUME files[n] # "undecodable" PROVE pc' = pc
      BY <1>a, <2>1
    <3> QED
      BY <1>10, <3>1 DEF Load
  <2>4. enabled
    BY <2>1 DEF IInv, AloneInv, ReadSoFar
  <2> QED
    BY <2>1, <2>2, <2>3, <2>4 DEF Follows, Undecodable
<1>11. ASSUME NEW h \in Handlers, Assign(h) PROVE Follows'
  <2>1. overlap # "now" /\ pc[h] = "assign" /\ expander' = merged[h]
        /\ UNCHANGED <<files, enabled>>
    BY <1>11 DEF Assign, At
  <2> QED
    BY <2>1 DEF IInv, AloneInv, Follows, Expander
<1>12. ASSUME Stop PROVE Follows'
  BY <1>12 DEF Stop
<1>13. ASSUME Start PROVE Follows'
  BY <1>13 DEF Start, Follows, Expander
<1>14. ASSUME UNCHANGED vars PROVE Follows'
  BY <1>1, <1>14 DEF vars, IInv, RebuiltInv
<1> QED
  BY <1>3, <1>4, <1>5, <1>6, <1>7, <1>8, <1>9, <1>10, <1>11, <1>12, <1>13, <1>14 DEF Next

-----------------------------------------------------------------------------
(* Theorems. *)

LEMMA SpecIInv == Spec => []IInv
<1>1. IInv /\ [Next]_vars => IInv'
  BY TypeStep, LocalsStep, AloneStep, RebuiltStep DEF IInv
<1> QED
  BY InitIInv, <1>1, PTL DEF Spec

\* Files, switch, expanders and the handlers' locals keep their types.
THEOREM TypeCorrect == Spec => []TypeOK
<1>1. IInv => TypeOK
  BY DEF IInv
<1> QED
  BY SpecIInv, <1>1, PTL

\* Once no handler runs, the expander on app.state is what build_query_expander would
\* make of the files and the switch, whatever was uploaded, removed, toggled, stopped or
\* failed before, unless an undecodable file prevents every rebuild: until handlers
\* overlap, and again from the next rebuild of one that is alone.
THEOREM ExpanderUpToDate == Spec => []ExpanderFollowsFiles
<1>1. IInv => ExpanderFollowsFiles
  <2> SUFFICES ASSUME IInv, AtRest, overlap = "none", ~ (enabled /\ Undecodable(files))
               PROVE  expander = Expander(files, enabled)
    BY DEF ExpanderFollowsFiles
  <2>1. \A h \in Handlers : pc[h] = "idle"
    BY DEF AtRest, Running, At
  <2> QED
    BY <2>1 DEF IInv, RebuiltInv, AtRest, Follows
<1> QED
  BY SpecIInv, <1>1, PTL
===============================================================================
