\* One kernel thread on k_block_descs and two processes, each with its own
\* u_block_desc, sharing two pages of user_pool.
CONSTANTS
    KThreads = {k1}
    UProcs = {u1, u2}
    KPages = {1}
    UPages = {2, 3}
    PG_SIZE <- MCPageSize
    ARENA_SIZE = 12
    DESC_CNT = 2
    Sizes = {16, 20}
SYMMETRY Symmetry
SPECIFICATION Spec
INVARIANT TypeOK
INVARIANT FreeListsExact
INVARIANT NoEmptyArenaRetained
INVARIANT BlockFits
