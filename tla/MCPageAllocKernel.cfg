\* Two kernel threads sharing kernel_pool.lock, kernel_vaddr and kernel_pool.
CONSTANTS
    KThreads = {k1, k2}
    UProcs = {}
    KFrames = 3
    UFrames = 1
    UVPages = 2
    PagesPerTable = 1
    PageCounts = {1, 2}
    NoThread = NoThread
    NDEBUG = FALSE
SYMMETRY Symmetry
SPECIFICATION Spec
INVARIANT FrameAccounting
INVARIANT VirtualAccounting
INVARIANT MappingsConsistent
