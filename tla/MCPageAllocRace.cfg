\* A kernel thread and a user process: is every kernel frame handed out once?
CONSTANTS
    KThreads = {k1}
    UProcs = {u1}
    KFrames = 3
    UFrames = 2
    UVPages = 3
    PagesPerTable = 2
    PageCounts = {1, 2}
    NoThread = NoThread
    NDEBUG = FALSE
SPECIFICATION Spec
INVARIANT KernelFramesExclusive
