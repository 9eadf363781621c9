\* Every pair of lists over three chunks, both normalizations, four weightings.
SPECIFICATION Spec
CONSTANTS
    Chunks <- ThreeChunks
    Scores <- SomeScores
    Weights <- SomeWeights
    Factors <- SomeFactors
    Offsets <- SomeOffsets
INVARIANTS
    TypeOK
    OneOrder
    BetterFirst
    ScaleFree
