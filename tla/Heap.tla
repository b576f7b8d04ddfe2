-------------------------------- MODULE Heap --------------------------------
(***************************************************************************)
(* The small-block heap of src/kernel/memory.c: the size-class            *)
(* descriptors set up by block_desc_init, and the paths of sys_malloc and  *)
(* sys_free for requests of at most 1024 bytes, which carve one-page       *)
(* arenas into blocks kept on the free list of their class.               *)
(*                                                                         *)
(* Kernel threads share k_block_descs and kernel_pool; every user process  *)
(* has its own u_block_desc array (process_execute, block_desc_init) and   *)
(* all of them take arena pages from user_pool.  Every statement that      *)
(* touches a descriptor or an arena runs between lock_acquire and          *)
(* lock_release of that pool's lock (memory.c 705-787, 965-987), so one    *)
(* call is one step.  malloc_page(PF, 1) and mfree_page(PF, a, 1), whose   *)
(* interleavings module PageAlloc checks, are the taking and the giving   *)
(* back of one page of the pool: the lowest free page, as bitmap_scan's    *)
(* first fit gives, and a halt when none is free (bitmap.c 48: a one-page  *)
(* scan only fails when every byte is full, and then the ASSERT fires, so  *)
(* the NULL branch at 757 is never taken in this build).                  *)
(*                                                                         *)
(* A block is <<page, index>>: arena2block and block2arena are the address *)
(* arithmetic of memory.c 668-675 on that pair.  PG_SIZE is a constant so  *)
(* that an arena holds a few blocks instead of 255.                       *)
(***************************************************************************)
EXTENDS Integers, Sequences, FiniteSetsExt, Functions

CONSTANTS
    KThreads,       \* kernel threads (pgdir == NULL)
    UProcs,         \* user processes, each with its own u_block_desc
    KPages,         \* pages of kernel_pool the heap may take
    UPages,         \* pages of user_pool the heap may take
    PG_SIZE,        \* bytes of a page
    ARENA_SIZE,     \* sizeof(struct arena): desc, cnt, large = 12 bytes
    DESC_CNT,       \* number of size classes
    Sizes           \* byte counts of sys_malloc requests

ASSUME KPages \cap UPages = {}
\* Only the small path: every request is at most the largest class, which
\* stands for the 1024-byte threshold of memory.c 708.
ASSUME \A s \in Sizes : 0 < s /\ s <= 16 * 2^(DESC_CNT - 1)

Threads == KThreads \cup UProcs
Pages   == KPages \cup UPages
Classes == 0 .. DESC_CNT - 1

\* block_desc_init (memory.c 61-75): class i has blocks of 16 * 2^i bytes,
\* and an arena of class i holds (PG_SIZE - sizeof(struct arena)) / size.
block_size(i) == 16 * 2^i
blocks_per_arena(i) == (PG_SIZE - ARENA_SIZE) \div block_size(i)
MaxBlocks == blocks_per_arena(0)

Blocks == Pages \X (0 .. MaxBlocks - 1)

\* arena2block and block2arena (memory.c 668-675).
arena2block(a, idx) == <<a, idx>>
block2arena(b) == b[1]

\* The descriptor array a thread's sys_malloc uses (memory.c 686-697).
HeapOf(t) == IF t \in KThreads THEN "k_block_descs" ELSE t
Heaps == {HeapOf(t) : t \in Threads}
PoolOf(h) == IF h = "k_block_descs" THEN KPages ELSE UPages

NoArena == [desc |-> <<"none", 0>>, cnt |-> 0, large |-> FALSE]
Running == "running"

VARIABLES
    free_list,  \* free_list[h][i]: the free list of class i of array h
    arena,      \* arena[p]: the header of page p, or NoArena
    inuse,      \* <<block, size>> pairs handed out and not yet freed
    halt        \* Running, or why the kernel stopped

vars == <<free_list, arena, inuse, halt>>

Init ==
    /\ free_list = [h \in Heaps |-> [i \in Classes |-> <<>>]]
    /\ arena = [p \in Pages |-> NoArena]
    /\ inuse = {}
    /\ halt = Running

-----------------------------------------------------------------------------
(* sys_malloc, small path (memory.c 732-789).                             *)

\* The class loop of memory.c 736-740: the first class whose blocks are at
\* least size bytes.
RECURSIVE desc_idx_from_lt(_, _)
desc_idx_from_lt(size, i) ==
    IF i = DESC_CNT \/ size < block_size(i) THEN i
    ELSE desc_idx_from_lt(size, i + 1)

RECURSIVE desc_idx_from(_, _)
desc_idx_from(size, i) ==
    IF i = DESC_CNT \/ size <= block_size(i) THEN i
    ELSE desc_idx_from(size, i + 1)

desc_idx(size) == desc_idx_from(size, 0)

\* malloc_page(PF, 1): the first free page of the pool.
FreePages(h) == {p \in PoolOf(h) : arena[p] = NoArena}

\* The header written at memory.c 765-767.
NewArenaBpa0(h, i) ==
    [desc |-> <<h, i>>, large |-> FALSE, cnt |-> blocks_per_arena(0)]

NewArena(h, i) ==
    [desc |-> <<h, i>>, large |-> FALSE, cnt |-> blocks_per_arena(i)]

\* The append loop of memory.c 773-777: the blocks of page p in order.
ArenaBlocks(p, i) ==
    [k \in 1 .. blocks_per_arena(i) |-> arena2block(p, k - 1)]

\* list_pop, block2arena and a->cnt-- (memory.c 782-786), given the free
\* lists fl and headers ar after the arena, if any, was made.
Pop(t, size, fl, ar) ==
    LET h == HeapOf(t)
        i == desc_idx(size)
        b == Head(fl[h][i])
    IN  /\ free_list' = [fl EXCEPT ![h][i] = Tail(@)]
        /\ arena' = [ar EXCEPT ![block2arena(b)].cnt = @ - 1]
        /\ inuse' = inuse \cup {<<b, size>>}

\* The class has a free block: pop it.
MallocFromList(t, size) ==
    LET h == HeapOf(t) IN
    /\ halt = Running
    /\ free_list[h][desc_idx(size)] # <<>>
    /\ Pop(t, size, free_list, arena)
    /\ UNCHANGED halt

\* The class free list is empty: take a page, make it an arena of the
\* class, append its blocks, then pop the first of them.
MallocNewArena(t, size) ==
    LET h == HeapOf(t)
        i == desc_idx(size)
    IN
    /\ halt = Running
    /\ free_list[h][i] = <<>>
    /\ FreePages(h) # {}
    /\ LET p == Min(FreePages(h)) IN
       Pop(t, size,
           [free_list EXCEPT ![h][i] = @ \o ArenaBlocks(p, i)],
           [arena EXCEPT ![p] = NewArena(h, i)])
    /\ UNCHANGED halt

\* The class free list is empty and the pool has no free page: the
\* one-page bitmap_scan meets a full bitmap and its ASSERT halts the kernel.
MallocPanic(t, size) ==
    LET h == HeapOf(t) IN
    /\ halt = Running
    /\ free_list[h][desc_idx(size)] = <<>>
    /\ FreePages(h) = {}
    /\ halt' = "bitmap_scan full"
    /\ UNCHANGED <<free_list, arena, inuse>>

-----------------------------------------------------------------------------
(* sys_free of a small block (memory.c 948-989).                          *)

\* A thread frees a block handed out from its own descriptor array: kernel
\* threads may free one another's blocks, a process only its own.
Freeable(t) == {e \in inuse : arena[block2arena(e[1])].desc[1] = HeapOf(t)}

\* The test of memory.c 977, ++a->cnt == a->desc->blocks_per_arena.
IsLastFreeLate(a) == a.cnt = blocks_per_arena(a.desc[2])

IsLastFree(a) == a.cnt + 1 = blocks_per_arena(a.desc[2])

\* The loop of memory.c 979-983: every block of arena p leaves the list.
UnlinkArenaKeep(fl, p) == fl

UnlinkArena(fl, p) == SelectSeq(fl, LAMBDA b : block2arena(b) # p)

\* The block goes back on its class list and its arena has a block more.
SysFreeKeep(t) ==
    /\ halt = Running
    /\ \E e \in Freeable(t) :
         LET p == block2arena(e[1])
             d == arena[p].desc
         IN  /\ ~IsLastFree(arena[p])
             /\ free_list' = [free_list EXCEPT ![d[1]][d[2]] = Append(@, e[1])]
             /\ arena' = [arena EXCEPT ![p].cnt = @ + 1]
             /\ inuse' = inuse \ {e}
    /\ UNCHANGED halt

\* The block was the arena's last one out: after the append, all of the
\* arena's blocks leave the list and mfree_page gives the page back.
SysFreeRelease(t) ==
    /\ halt = Running
    /\ \E e \in Freeable(t) :
         LET p == block2arena(e[1])
             d == arena[p].desc
         IN  /\ IsLastFree(arena[p])
             /\ free_list' = [free_list EXCEPT ![d[1]][d[2]] =
                                 UnlinkArena(Append(@, e[1]), p)]
             /\ arena' = [arena EXCEPT ![p] = NoArena]
             /\ inuse' = inuse \ {e}
    /\ UNCHANGED halt

\* panic_spin: a halted kernel takes no further step.
PanicSpin == halt # Running /\ UNCHANGED vars

Next ==
    \/ \E t \in Threads, s \in Sizes :
         \/ MallocFromList(t, s)
         \/ MallocNewArena(t, s)
         \/ MallocPanic(t, s)
    \/ \E t \in Threads : SysFreeKeep(t) \/ SysFreeRelease(t)
    \/ PanicSpin

Spec == Init /\ [][Next]_vars

-----------------------------------------------------------------------------
(* Properties.                                                           *)

Live == {p \in Pages : arena[p] # NoArena}
Out  == {e[1] : e \in inuse}
Mine(p) == {arena2block(p, k) : k \in 0 .. blocks_per_arena(arena[p].desc[2]) - 1}
OnList(p) == Mine(p) \cap Range(free_list[arena[p].desc[1]][arena[p].desc[2]])

TypeOK ==
    /\ free_list \in [Heaps -> [Classes -> Seq(Blocks)]]
    /\ arena \in [Pages -> {NoArena} \cup
                  [desc : Heaps \X Classes, cnt : 0 .. MaxBlocks, large : {FALSE}]]
    /\ \A p \in Live : arena[p].cnt <= blocks_per_arena(arena[p].desc[2])
    /\ inuse \subseteq Blocks \X Sizes
    /\ halt \in {Running, "bitmap_scan full"}

\* The free lists, the arena counters and the blocks handed out agree, over
\* every sequence of sys_malloc and sys_free calls of every thread: a list
\* holds no block twice (the ASSERT of memory.c 775) and only blocks of a
\* live arena of its own array and class (so no page given back by
\* memory.c 984 is still reachable from a list); each block of a live
\* arena is either on its list or handed out, never both; a->cnt is the
\* number of its blocks on the list (what memory.c 786 and 977 keep); and
\* a block is handed out once.
FreeListsExact ==
    /\ \A h \in Heaps, i \in Classes :
         LET fl == free_list[h][i] IN
         /\ IsInjective(fl)
         /\ \A b \in Range(fl) : /\ block2arena(b) \in Live
                                 /\ arena[block2arena(b)].desc = <<h, i>>
                                 /\ b \in Mine(block2arena(b))
    /\ \A e \in inuse : block2arena(e[1]) \in Live /\ e[1] \in Mine(block2arena(e[1]))
    /\ \A e, f \in inuse : e[1] = f[1] => e = f
    /\ \A p \in Live : /\ OnList(p) \cap Out = {}
                       /\ OnList(p) \cup (Out \cap Mine(p)) = Mine(p)
                       /\ arena[p].cnt = Cardinality(OnList(p))

\* An arena whose blocks are all free is given back at once (memory.c 977,
\* spec: arenas are destroyed when their last block is returned): no live
\* arena has every block on the free list.
NoEmptyArenaRetained ==
    \A p \in Live : arena[p].cnt < blocks_per_arena(arena[p].desc[2])

\* Every handed-out block comes from the smallest class that holds the
\* request (memory.c 736-740), so it is large enough and no larger class
\* was used while a smaller one fits.
BlockFits ==
    \A e \in inuse :
        LET i == arena[block2arena(e[1])].desc[2] IN
        /\ e[2] <= block_size(i)
        /\ i = 0 \/ e[2] > block_size(i - 1)
=============================================================================
