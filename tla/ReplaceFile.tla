------------------------------ MODULE ReplaceFile ------------------------------
(***************************************************************************)
(* The way the program writes its JSON files (the manifest and each corpus *)
(* file): open one temporary path, fixed per file, with mode "w"; json.dump*)
(* into it; os.replace it over the real path.  The temporary path is shared*)
(* by every request that saves the file, so what matters is which inode a  *)
(* path names, which inode a descriptor writes to, and what each holds.    *)
(*                                                                         *)
(* A file is a record:                                                     *)
(*   path  the inode the real path names, or NoRequest                     *)
(*   tmp   the inode the temporary path names, or NoRequest                *)
(*   data  the content of each inode                                       *)
(***************************************************************************)
CONSTANTS
    Requests,       \* an inode is named after the request that created it
    NoRequest       \* no inode

\* Truncated, or only a prefix written: not JSON yet.
Partial == [state |-> "partial"]
\* Overwritten by two descriptors, or abandoned by a failed write: not JSON.
Torn == [state |-> "torn"]
\* A complete JSON document.
Json(v) == [state |-> "json", value |-> v]

Contents(Values) ==
    [state : {"partial", "torn"}] \cup [state : {"json"}, value : Values]

Files(Values) ==
    [path : Requests \cup {NoRequest},
     tmp  : Requests \cup {NoRequest},
     data : [Requests -> Contents(Values)]]

\* Neither the file nor its temporary exists.
NoFile == [path |-> NoRequest, tmp |-> NoRequest, data |-> [i \in Requests |-> Partial]]

Exists(f) == f.path # NoRequest

\* open(path, "r") and json.load succeed.
Parses(f) == Exists(f) /\ f.data[f.path].state = "json"
Content(f) == f.data[f.path].value

\* The load fails with JSONDecodeError: the path is there, JSON is not.
Unreadable(f) == Exists(f) /\ f.data[f.path].state # "json"

\* open(tmp, "w") by request r: truncate the inode the temporary path names, or
\* create one.  The descriptor of r then points at OpenTmp(f, r).tmp.
MutantOpenTmpInPlace(f, r) ==
    LET i == IF f.path = NoRequest THEN r ELSE f.path
    IN  [path |-> f.path, tmp |-> i, data |-> [f.data EXCEPT ![i] = Partial]]
OpenTmp(f, r) ==
    LET i == IF f.tmp = NoRequest THEN r ELSE f.tmp
    IN  [path |-> f.path, tmp |-> i, data |-> [f.data EXCEPT ![i] = Partial]]

\* json.dump and close through a descriptor on inode i.  A descriptor keeps its
\* own offset: when another one is open on i (shared), or has written to i since
\* it was truncated, the bytes may interleave.
Dump(f, i, v, shared) ==
    {[f EXCEPT !.data[i] = Json(v)]}
      \cup IF shared \/ f.data[i] # Partial
           THEN {[f EXCEPT !.data[i] = Torn]}
           ELSE {}

\* json.dump raises part-way (a full disk): close leaves what was written.
DumpFails(f, i) == [f EXCEPT !.data[i] = Torn]

\* os.replace(tmp, path): atomic; FileNotFoundError when there is no tmp.
TmpMissing(f) == f.tmp = NoRequest
Replace(f) == [f EXCEPT !.path = f.tmp, !.tmp = NoRequest]
================================================================================
