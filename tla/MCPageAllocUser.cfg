\* Two user processes sharing user_pool.lock and user_pool; their page
\* tables come from kernel_pool.  Built with NDEBUG: a full pool makes
\* palloc return NULL instead of halting, and both pools run out.
\* No symmetry: the run checks a liveness property.
CONSTANTS
    KThreads = {}
    UProcs = {u1, u2}
    KFrames = 3
    UFrames = 3
    UVPages = 3
    PagesPerTable = 2
    PageCounts = {1, 2}
    NoThread = NoThread
    NDEBUG = TRUE
SPECIFICATION FairSpec
INVARIANT TypeOK
INVARIANT KernelFramesExclusive
INVARIANT UserFramesExclusive
INVARIANT FrameAccounting
INVARIANT AssertionsHold
PROPERTY PoolLocksReleased
