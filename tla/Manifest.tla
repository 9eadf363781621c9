------------------------------- MODULE Manifest -------------------------------
(***************************************************************************)
(* The index manifest (src/app/admin/manifest.py): the JSON value that     *)
(* lists every recorded index version and names the active one, and the    *)
(* two in-memory edits the code makes to it.  A version entry keeps only   *)
(* the fields that steer the program: its id, the corpus it was built from *)
(* and its status.                                                         *)
(***************************************************************************)
EXTENDS Naturals, Sequences

CONSTANTS
    NoVersion       \* Python's None as `active_version`

\* A version entry of `versions`, over the ids and corpora in use.
Entries(Versions, Corpora) ==
    [index_version : Versions,
     source_corpus : Corpora,
     status        : {"active", "superseded"}]

\* Every value an IndexManifest may have.
Manifests(Versions, Corpora) ==
    [active_version : Versions \cup {NoVersion},
     versions       : Seq(Entries(Versions, Corpora))]

\* IndexManifest(): what load() returns when there is no file yet.
EmptyManifest == [active_version |-> NoVersion, versions |-> <<>>]

\* The ids a manifest records.
Recorded(m) == {m.versions[i].index_version : i \in DOMAIN m.versions}

\* version["status"] = status
WithStatus(e, status) == [e EXCEPT !.status = status]

\* The loop both edits start with: whatever was active is superseded.
MutantSupersedeStatus(versions) ==
    [i \in DOMAIN versions |-> WithStatus(versions[i], "inactive")]
Supersede(versions) ==
    [i \in DOMAIN versions |-> WithStatus(versions[i], "superseded")]

\* record_new(): append the entry of a finished run and make it active.
MutantRecordNewKeepsActive(m, v, c) ==
    [active_version |-> v,
     versions |-> Append(m.versions, [index_version |-> v,
                                      source_corpus |-> c,
                                      status        |-> "active"])]
MutantRecordNewNotActive(m, v, c) ==
    [active_version |-> IF m.versions = <<>> THEN v ELSE m.active_version,
     versions |-> Append(m.versions,
                         [index_version |-> v,
                          source_corpus |-> c,
                          status |-> IF m.versions = <<>> THEN "active"
                                                          ELSE "superseded"])]
MutantRecordNewFresh(m, v, c) ==
    [active_version |-> v,
     versions |-> <<[index_version |-> v, source_corpus |-> c, status |-> "active"]>>]
RecordNew(m, v, c) ==
    [active_version |-> v,
     versions |-> Append(Supersede(m.versions), [index_version |-> v,
                                                 source_corpus |-> c,
                                                 status        |-> "active"])]

\* AdminService.rollback()'s edit: reactivate an entry that is already there.
MutantActivateDropsNewer(m, v) ==
    LET last == CHOOSE i \in DOMAIN m.versions : m.versions[i].index_version = v
    IN  [active_version |-> v,
         versions |-> [i \in 1 .. last |->
                         WithStatus(m.versions[i],
                                    IF i = last THEN "active" ELSE "superseded")]]
Activate(m, v) ==
    [active_version |-> v,
     versions |-> [i \in DOMAIN m.versions |->
                     WithStatus(m.versions[i],
                                IF m.versions[i].index_version = v
                                THEN "active" ELSE "superseded")]]

\* get_active() is not None: active_version names an entry of the list.
HasActive(m) == m.active_version \in Recorded(m)

\* What every manifest the program writes should look like: no id twice, the
\* active entry and only it carries the status "active", and a manifest that
\* records anything has an active version.
Coherent(m) ==
    /\ \A i, j \in DOMAIN m.versions :
          m.versions[i].index_version = m.versions[j].index_version => i = j
    /\ \A i \in DOMAIN m.versions :
          m.versions[i].status = "active"
             <=> m.versions[i].index_version = m.active_version
    /\ m.versions # <<>> => HasActive(m)
    /\ m.versions = <<>> => m.active_version = NoVersion
===============================================================================
