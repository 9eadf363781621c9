\* Three search threads while versions are published, rolled back to and deleted.
SPECIFICATION Spec
CONSTANTS
    t1 = t1
    t2 = t2
    t3 = t3
    v1 = v1
    v2 = v2
    v3 = v3
    Threads <- ThreeThreads
    Versions <- ThreeVersions
    NoVersion = NoVersion
SYMMETRY Symmetry
INVARIANTS
    TypeOK
    ContextComplete
    PairedUntilOverlap
