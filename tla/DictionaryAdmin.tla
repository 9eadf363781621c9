---------------------------- MODULE DictionaryAdmin ----------------------------
(***************************************************************************)
(* Query-expansion dictionaries: the files of dictionaries_dir, the        *)
(* handlers that upload, delete and toggle them (src/app/api/              *)
(* routes_admin.py), the expander they rebuild on app.state and the one    *)
(* SearchService was given at start-up (src/app/main.py).                  *)
(*                                                                         *)
(* upload_dictionary is `async def` and does not await between its write   *)
(* and its answer, so uploads run one at a time on the event loop;         *)
(* remove_dictionary and toggle_dictionaries run in worker threads.        *)
(***************************************************************************)
EXTENDS Naturals, FiniteSets, FiniteSetsExt

CONSTANTS
    NameCount,      \* dictionary file names, numbered in sorted order
    Entries,        \* what a well-formed dictionary may say
    Loop,           \* the event loop
    Threads,        \* the worker threads
    MaxInFlight,    \* bound: handlers running at the same time
    Configured      \* dictionaries_enabled in the configuration file

ASSUME NameCountAssumption == NameCount \in Nat
ASSUME MaxInFlightAssumption == MaxInFlight \in Nat
ASSUME ConfiguredAssumption == Configured \in BOOLEAN
ASSUME EntriesAssumption == Entries \cap {"absent", "empty", "malformed", "undecodable"} = {}

Names == 1 .. NameCount

VARIABLES
    files,          \* dictionaries_dir
    enabled,        \* settings.query_processing.dictionaries_enabled
    expander,       \* app.state.term_expander: (name, entries) pairs; {} is None
    searchExpander, \* search_service._term_expander
    up,             \* the process serves requests
    pc,             \* where each handler is
    target,         \* the file an upload or a deletion is about, or 0
    content,        \* what the upload in progress writes
    todo,           \* the files a rebuild has listed and not read
    merged,         \* what a rebuild has merged
    answer,         \* the last answer, and whose it was
    overlap         \* history: have handlers run together?

disk == files
state == <<enabled, expander, searchExpander, up>>
locals == <<target, content, todo, merged>>
vars == <<disk, state, pc, locals, answer, overlap>>

Handlers == {Loop} \cup Threads

\* "now" until the handlers that ran together are through, "past" until one that runs
\* alone has rebuilt the expander.
Overlaps == {"none", "now", "past"}

\* Malformed is any content load_dictionary turns into {}; undecodable content
\* is not UTF-8, an error it does not catch.
Uploads == Entries \cup {"malformed", "undecodable"}
FileStates == Uploads \cup {"absent", "empty"}
Merge == SUBSET (Names \X Entries)

TypeOK ==
    /\ files \in [Names -> FileStates]
    /\ enabled \in BOOLEAN
    /\ expander \in Merge /\ searchExpander \in Merge
    /\ up \in BOOLEAN
    /\ pc \in [Handlers -> {"idle", "write", "unlink", "rebuild", "read", "assign"}]
    /\ target \in [Handlers -> 0 .. NameCount]
    /\ content \in Uploads \cup {"none"}
    /\ todo \in [Handlers -> SUBSET Names]
    /\ merged \in [Handlers -> Merge]
    /\ answer \in [by : Handlers, code : {"none", "200", "400", "404", "500"}]
    /\ overlap \in Overlaps

\* The expander build_query_expander would return, none of the files being
\* undecodable.
Expander(fs, on) ==
    IF on THEN {e \in Names \X Entries : fs[e[1]] = e[2]} ELSE {}

Undecodable(fs) == \E n \in Names : fs[n] = "undecodable"

Unanswered == [by |-> Loop, code |-> "none"]

\* The service is installed with its dictionaries in place.
Init ==
    /\ files \in [Names -> {"absent"} \cup Entries]
    /\ enabled = Configured
    /\ expander = Expander(files, enabled)
    /\ searchExpander = expander
    /\ up = TRUE
    /\ pc = [h \in Handlers |-> "idle"]
    /\ target = [h \in Handlers |-> 0]
    /\ content = "none"
    /\ todo = [h \in Handlers |-> {}]
    /\ merged = [h \in Handlers |-> {}]
    /\ answer = Unanswered
    /\ overlap = "none"

-----------------------------------------------------------------------------

At(h, label) == pc[h] = label
Goto(h, label) == pc' = [pc EXCEPT ![h] = label]

Answer(h, code) ==
    /\ Goto(h, "idle")
    /\ answer' = [by |-> h, code |-> code]
    /\ target' = [target EXCEPT ![h] = 0]
    /\ content' = IF h = Loop THEN "none" ELSE content
    /\ todo' = [todo EXCEPT ![h] = {}]
    /\ merged' = [merged EXCEPT ![h] = {}]

\* A handler is called.
Running == {h \in Handlers : ~ At(h, "idle")}
Call(h) ==
    /\ up
    /\ At(h, "idle")
    /\ Cardinality(Running) < MaxInFlight
    /\ overlap' = IF Running # {} THEN "now"
                  ELSE IF overlap = "now" THEN "past" ELSE overlap

\* POST /admin/dictionaries/upload: open(dest, "wb") truncates ...
Upload(n, bytes) ==
    /\ Call(Loop)
    /\ files' = [files EXCEPT ![n] = "empty"]
    /\ target' = [target EXCEPT ![Loop] = n]
    /\ content' = bytes
    /\ Goto(Loop, "write")
    /\ UNCHANGED <<state, todo, merged, answer>>

\* ... and the bytes follow.
Write ==
    /\ At(Loop, "write")
    /\ files' = [files EXCEPT ![target[Loop]] = content]
    /\ Goto(Loop, "rebuild")
    /\ UNCHANGED <<state, locals, answer, overlap>>

\* A file name without a dictionary's suffix.
RejectUpload ==
    /\ Call(Loop)
    /\ Answer(Loop, "400")
    /\ UNCHANGED <<disk, state>>

\* DELETE /admin/dictionaries/{filename}: is_file() ...
Remove(t, n) ==
    /\ Call(t)
    /\ \/ /\ files[n] = "absent"
          /\ Answer(t, "404")
       \/ /\ files[n] # "absent"
          /\ target' = [target EXCEPT ![t] = n]
          /\ Goto(t, "unlink")
          /\ UNCHANGED <<content, todo, merged, answer>>
    /\ UNCHANGED <<disk, state>>

\* ... and unlink(), which raises if another thread was faster.
MutantUnlink(t) ==
    /\ At(t, "unlink")
    /\ files' = [files EXCEPT ![target[t]] = "absent"]
    /\ Answer(t, "200")
    /\ UNCHANGED <<state, overlap>>
Unlink(t) ==
    /\ At(t, "unlink")
    /\ \/ /\ files[target[t]] = "absent"
          /\ Answer(t, "500")
          /\ UNCHANGED disk
       \/ /\ files[target[t]] # "absent"
          /\ files' = [files EXCEPT ![target[t]] = "absent"]
          /\ Goto(t, "rebuild")
          /\ UNCHANGED <<locals, answer>>
    /\ UNCHANGED <<state, overlap>>

\* POST /admin/dictionaries/toggle
Toggle(t, on) ==
    /\ Call(t)
    /\ enabled' = on
    /\ Goto(t, "rebuild")
    /\ UNCHANGED <<disk, expander, searchExpander, up, locals, answer>>

\* _rebuild_expander(), build_query_expander(): list the directory, unless
\* dictionaries are off, ...
Rebuild(h) ==
    /\ At(h, "rebuild")
    /\ IF enabled
       THEN /\ todo' = [todo EXCEPT ![h] = {n \in Names : files[n] # "absent"}]
            /\ Goto(h, "read")
       ELSE /\ Goto(h, "assign")
            /\ UNCHANGED todo
    /\ UNCHANGED <<disk, state, target, content, merged, answer, overlap>>

\* ... load one file after the other, ...
MutantLoad(h) ==
    /\ At(h, "read")
    /\ todo[h] # {}
    /\ LET n == Min(todo[h])
       IN  /\ todo' = [todo EXCEPT ![h] = @ \ {n}]
           /\ merged' = [merged EXCEPT ![h] = @ \cup {<<n, files[n]>>}]
    /\ UNCHANGED <<disk, state, pc, target, content, answer, overlap>>
Load(h) ==
    /\ At(h, "read")
    /\ todo[h] # {}
    /\ LET n == Min(todo[h])
       IN  \/ /\ files[n] = "undecodable"
              /\ Answer(h, "500")
           \/ /\ files[n] # "undecodable"
              /\ todo' = [todo EXCEPT ![h] = @ \ {n}]
              /\ merged' = [merged EXCEPT ![h] =
                              @ \cup ({<<n, files[n]>>} \cap (Names \X Entries))]
              /\ UNCHANGED <<pc, target, content, answer>>
    /\ UNCHANGED <<disk, state, overlap>>

Loaded(h) ==
    /\ At(h, "read")
    /\ todo[h] = {}
    /\ Goto(h, "assign")
    /\ UNCHANGED <<disk, state, locals, answer, overlap>>

\* ... and put the result on app.state.
Assign(h) ==
    /\ At(h, "assign")
    /\ expander' = merged[h]
    /\ overlap' = IF overlap = "past" THEN "none" ELSE overlap
    /\ Answer(h, "200")
    /\ UNCHANGED <<disk, enabled, searchExpander, up>>

\* The process stops, whatever its handlers are doing.
Stop ==
    /\ up
    /\ up' = FALSE
    /\ pc' = [h \in Handlers |-> "idle"]
    /\ target' = [h \in Handlers |-> 0]
    /\ content' = "none"
    /\ todo' = [h \in Handlers |-> {}]
    /\ merged' = [h \in Handlers |-> {}]
    /\ answer' = Unanswered
    /\ UNCHANGED <<disk, enabled, expander, searchExpander, overlap>>

\* lifespan(): one expander for app.state and for SearchService.  With
\* dictionaries enabled in the configuration and an undecodable file, it raises.
Start ==
    /\ ~ up
    /\ ~ (Configured /\ Undecodable(files))
    /\ up' = TRUE
    /\ enabled' = Configured
    /\ expander' = Expander(files, Configured)
    /\ searchExpander' = Expander(files, Configured)
    /\ overlap' = "none"
    /\ UNCHANGED <<disk, pc, locals, answer>>

Next ==
    \/ \E n \in Names, bytes \in Uploads : Upload(n, bytes)
    \/ Write \/ RejectUpload
    \/ \E t \in Threads : \/ \E n \in Names : Remove(t, n)
                          \/ Unlink(t)
                          \/ \E on \in BOOLEAN : Toggle(t, on)
    \/ \E h \in Handlers : Rebuild(h) \/ Load(h) \/ Loaded(h) \/ Assign(h)
    \/ Stop \/ Start

Spec == Init /\ [][Next]_vars

-----------------------------------------------------------------------------
(* Properties. *)

AtRest == up /\ Running = {}

\* The expander on app.state says what the files and the switch say, once no
\* handler runs: whatever was uploaded, rebuilt in vain because of an undecodable
\* file, deleted, toggled or interrupted before, unless handlers overlapped; and
\* after they did, from the next rebuild of a handler that is alone.
ExpanderFollowsFiles ==
    AtRest /\ overlap = "none" /\ ~ (enabled /\ Undecodable(files))
        => expander = Expander(files, enabled)

\* "takes effect immediately (no restart needed)": once no handler runs, searches
\* expand with the expander that the handlers maintain.
SearchesUseExpander == AtRest => searchExpander = expander

\* "a broken dictionary is skipped, not fatal": no upload fails.
BrokenSkipped == answer # [by |-> Loop, code |-> "500"]
===============================================================================
