\* An upload of bytes that are not UTF-8.
SPECIFICATION Spec
CONSTANTS
    t1 = t1
    t2 = t2
    NameCount = 2
    Entries <- OneContent
    Loop = Loop
    Threads <- TwoThreads
    MaxInFlight = 2
    Configured = TRUE
SYMMETRY SymmetryOfThreads
INVARIANT
    BrokenSkipped
CHECK_DEADLOCK FALSE
