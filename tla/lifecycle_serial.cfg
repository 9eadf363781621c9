\* Handlers one after the other, with failures and a crash between any two steps.
SPECIFICATION Spec
CONSTANTS
    r1 = r1
    r2 = r2
    r3 = r3
    r4 = r4
    c1 = c1
    c2 = c2
    d1 = d1
    d2 = d2
    Requests <- ThreeRequests
    Corpora <- OneCorpus
    DocIds <- TwoDocs
    NoRequest = NoRequest
    NoVersion = NoVersion
    NoCorpus = NoCorpus
    NoDoc = NoDoc
    MaxInFlight = 1
    MaxRestarts = 1
    Handlers <- SerialHandlers
    Faults <- AllFaults
SYMMETRY SymmetryOfAll
INVARIANTS
    FilesReadable
    ReportedVersionsRecorded
    ResponseDescribesOwnVersion
    DeletedStaysDeleted
    CorpusIsIndexed
PROPERTIES
    AppendKeepsDocuments
    AnsweredIndexMatchesCorpus
    ImplementsVersionedIndex
CHECK_DEADLOCK FALSE
