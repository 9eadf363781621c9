\* Two files; an upload beside a deletion or toggle; restarts.
SPECIFICATION Spec
CONSTANTS
    t1 = t1
    t2 = t2
    NameCount = 2
    Entries <- OneContent
    Loop = Loop
    Threads <- TwoThreads
    MaxInFlight = 2
    Configured = TRUE
SYMMETRY SymmetryOfThreads
INVARIANTS
    TypeOK
    ExpanderFollowsFiles
CHECK_DEADLOCK FALSE
