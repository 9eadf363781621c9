---------------------------- MODULE VersionedIndex ----------------------------
(***************************************************************************)
(* What index versioning promises (README, "index versions and rollback"): *)
(* a history of published versions that only grows, and one active version *)
(* that is the newest one published or one an operator went back to.       *)
(***************************************************************************)
EXTENDS Sequences

CONSTANTS
    Versions,
    NoVersion

VARIABLES
    published,      \* the versions, oldest first
    active          \* the version searches use

vars == <<published, active>>

\* The ids in a history.
Ids(history) == {history[i] : i \in DOMAIN history}

TypeOK ==
    /\ published \in Seq(Versions)
    /\ active \in Versions \cup {NoVersion}

Init ==
    /\ published = <<>>
    /\ active = NoVersion

\* A finished indexing run adds its version and makes it active.
Publish(v) ==
    /\ v \notin Ids(published)
    /\ published' = Append(published, v)
    /\ active' = v

\* A rollback activates a version that was published before.
Reactivate(v) ==
    /\ v \in Ids(published)
    /\ active' = v
    /\ UNCHANGED published

Next == \E v \in Versions : Publish(v) \/ Reactivate(v)

Spec == Init /\ [][Next]_vars
===============================================================================
