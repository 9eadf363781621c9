\* Three handlers overlapping two at a time, with failing stages and a crash.
SPECIFICATION Spec
CONSTANTS
    r1 = r1
    r2 = r2
    r3 = r3
    r4 = r4
    c1 = c1
    c2 = c2
    d1 = d1
    d2 = d2
    Requests <- ThreeRequests
    Corpora <- OneCorpus
    DocIds <- OneDoc
    NoRequest = NoRequest
    NoVersion = NoVersion
    NoCorpus = NoCorpus
    NoDoc = NoDoc
    MaxInFlight = 2
    MaxRestarts = 1
    Handlers <- OverlappingHandlers
    Faults <- StageFaults
SYMMETRY SymmetryOfRequests
INVARIANTS
    TypeOK
    RecordedAssetsComplete
    ManifestCoherent
CHECK_DEADLOCK FALSE
