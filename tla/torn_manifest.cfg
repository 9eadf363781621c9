\* Two indexing requests that overlap share manifest.tmp.
SPECIFICATION Spec
CONSTANTS
    r1 = r1
    r2 = r2
    r3 = r3
    r4 = r4
    c1 = c1
    c2 = c2
    d1 = d1
    d2 = d2
    Requests <- TwoRequests
    Corpora <- OneCorpus
    DocIds <- OneDoc
    NoRequest = NoRequest
    NoVersion = NoVersion
    NoCorpus = NoCorpus
    NoDoc = NoDoc
    MaxInFlight = 2
    MaxRestarts = 0
    Handlers <- OverlappingHandlers
    Faults <- NoFaults
SYMMETRY SymmetryOfRequests
INVARIANT
    ManifestReadable
CHECK_DEADLOCK FALSE
