\* The user run, built with NDEBUG: does a failed allocation leave the
\* page tables mapping only what is live?
CONSTANTS
    KThreads = {}
    UProcs = {u1, u2}
    KFrames = 3
    UFrames = 3
    UVPages = 3
    PagesPerTable = 2
    PageCounts = {1, 2}
    NoThread = NoThread
    NDEBUG = TRUE
SYMMETRY Symmetry
SPECIFICATION Spec
INVARIANT MappingsConsistent
