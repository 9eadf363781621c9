\* Three chunks, one of them listed twice, pools of two, every ranking, mode and top_k.
SPECIFICATION Spec
CONSTANTS
    Chunks <- ThreeChunks
    MaxEntries = 4
    Filters <- SomeFilters
    TopKs <- AnyTopK
    CandidateK = 2
    RrfK = 2
    TopN = 2
    Scale = 60
INVARIANTS
    TypeOK
    HitsAllowed
    FusedOnce
    PageFull
    HigherRankedFirst
