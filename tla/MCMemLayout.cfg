\* Does mem_pool_init manage all free memory for every size the kernel
\* claims to support?
CONSTANTS
    MemSizes <- MCMemSizes
SPECIFICATION Spec
INVARIANT PoolsCoverFreeMemory
