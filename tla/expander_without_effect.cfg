\* One handler at a time, and the searches after it.
SPECIFICATION Spec
CONSTANTS
    t1 = t1
    t2 = t2
    NameCount = 2
    Entries <- OneContent
    Loop = Loop
    Threads <- TwoThreads
    MaxInFlight = 2
    Configured = TRUE
SYMMETRY SymmetryOfThreads
INVARIANT
    SearchesUseExpander
CHECK_DEADLOCK FALSE
