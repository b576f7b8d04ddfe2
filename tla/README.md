# TLA+ models of the toyOS kernel

These modules model the kernel in `src/`:
- the memory manager: the bitmap engine, the physical pools, the virtual space trackers, the page tables, the page allocator that combines them, and the small-block heap;
- the sleeping locks and semaphores, together with the scheduler steps they use;
- the keyboard input queue, with the interrupt flag that each of its critical sections saves and restores.

They cover preemptible kernel threads and user processes. Each definition is translated from the C source.
`PROJECT.json` maps every modelling definition to the lines it stands for.

## The system

| Part | Code | State | Operations |
|---|---|---|---|
| Bitmap engine | `lib/kernel/bitmap.c` | a byte array and its length | `bitmap_init`, `bitmap_scan_test`, `bitmap_scan`, `bitmap_set` |
| Physical pools | `kernel/memory.c` | `kernel_pool` and `user_pool`: bitmap, `phy_addr_start`, lock | `palloc`, `pfree`, `mem_pool_init` |
| Virtual trackers | `kernel/memory.c` | `kernel_vaddr`; `userprog_vaddr` of each process | `vaddr_get`, `vaddr_remove` |
| Page tables | `kernel/memory.c` | page directory and tables, reached through the self-mapping | `page_table_add`, `page_table_pte_remove`, `addr_v2p` |
| Page allocator | `kernel/memory.c`, `userprog/process.c` | none of its own | `malloc_page`, `mfree_page`, `get_kernel_pages`, `get_user_pages`, `get_a_page` |
| Heap allocator | `kernel/memory.c` | `k_block_descs` and each process's `u_block_desc` (free lists), arena headers | `block_desc_init`, `sys_malloc`, `sys_free` |
| Locks | `thread/sync.c` | semaphore value and waiters; lock holder and repeat count | `sema_down`, `sema_up`, `lock_acquire`, `lock_release` |
| Scheduler | `thread/thread.c` | ready list, all-threads list, thread status | `schedule`, `thread_block`, `thread_unblock`, `thread_yield`, `allocate_pid` |
| Processes | `userprog/process.c` | each process's page directory and tracker | `start_process`, `process_execute` |
| Keyboard queue | `device/ioqueue.c` | ring buffer of 64 bytes, producer and consumer | `ioq_getchar`, `ioq_putchar` |
| Interrupts, TSS | `kernel/interrupt.c`, `userprog/tss.c` | IDT, PIC, TSS, EFLAGS.IF | set-up, and `intr_enable`/`intr_disable`/`intr_set_status` around every critical section |

### How the parts interact

`sys_malloc` picks a pool from `running_thread()->pgdir`:
- a kernel thread (pgdir == NULL) uses `kernel_pool`;
- a user process uses `user_pool`.

`sys_malloc` then takes that pool's lock. A request above 1024 bytes goes to `malloc_page`, which does three things:
1. `vaddr_get` runs `bitmap_scan` on the tracker and then sets the run's bits.
2. For each page, `palloc` runs `bitmap_scan` on the pool and then `bitmap_set`.
3. `page_table_add` maps the page. When the page directory entry is absent, it takes a frame for the new page table with `palloc(&kernel_pool)`. That happens whatever lock the caller holds.

`sys_free` of a large block calls `mfree_page` under the same kind of lock. For each page, `mfree_page`:
- translates the page with `addr_v2p`;
- ASSERTs that the frame lies in the pool chosen from the first page;
- calls `pfree`;
- calls `page_table_pte_remove`.

Then it calls `vaddr_remove`. `start_process` maps the user stack with `get_a_page` under `user_pool.lock`.

The threads are preemptible; a timer interrupt may switch them between any two statements. The locks are sleeping locks built on semaphores (`sync.c`). They are the only thing that orders the scans and sets of different threads.

### The hard behaviours

- **Scan-then-set.** Every bitmap allocation is two steps. Only a lock held across both keeps two threads from taking the same bit.
- **Cross-pool table frames.** User mappings take page-table frames from `kernel_pool` under `user_pool.lock`.
- **Multi-step frees.** Frees run frame by frame. A tracker, pool bit or pte updated in the wrong order lets another thread reuse a page that is still in use.
- **The bitmap scan at its boundaries.** A full bitmap trips an ASSERT. A run at the end reads one bit past the array.
- **Contract checks.** The ASSERTs of `page_table_add` ("pte repeat") and `mfree_page` (pool range) halt the kernel if the bookkeeping of all threads ever disagrees.

## Modules

### `Bitmap` (pure operators)

`bitmap_scan` is translated loop by loop. `SkipFull` is the byte loop and `FirstZero` is the bit loop in the first free byte. `Walk` is the `bit_left` loop, which tests bit `len*8`.

The byte after the array is the parameter `beyond`. In the kernel that byte is real memory: `kernel_pool`'s bitmap is followed by `user_pool`'s (memory.c 576-580). debug.h does not define NDEBUG, so the ASSERT at bitmap.c 48 is live in the kernel as built. The model's result `Panic` stands for the halt. `PageAlloc` takes the build as the constant `NDEBUG`: with it, the ASSERT is compiled out, the byte loop stops at the end of the bitmap, and the scan returns -1 (`NotFound`).

`FirstFit` is the reference from spec 4.1: the lowest start of `cnt` zero bits inside the bitmap.

### `Tracker` (one virtual tracker, sequential)

State: `bits`, `beyond`, and the history variable `runs` (the runs handed out and not yet released). Actions: `vaddr_get(cnt)` and `vaddr_remove(r)`. `vaddr_get` sets the bit past the end when the scan returns a run that reaches it, as `bitmap_set` does in the code.

`ScanIsFirstFit` checks the scan on the tracker's bitmap and on every bitmap one byte longer that begins with it (`Extended`). Because `vaddr_get(1)` and `vaddr_remove` reach every bitmap of `Len` bytes, this covers every bitmap of `Len + 1` bytes.

### `PageAlloc` (preemptible threads on the shared pools)

Constants:
- `KThreads` are kernel threads; `UProcs` are user processes.
- `KFrames` and `UFrames` are the pool sizes.
- `UVPages` is a process's user virtual pages; the last of them is the stack.
- `PagesPerTable` is the number of pages one page table maps.
- `PageCounts` is the set of page counts of large `sys_malloc` requests.
- `NDEBUG` is the build: FALSE for debug.h as shipped (a full bitmap halts), TRUE for a build that compiles the ASSERTs out (a full bitmap scans to -1, `palloc` returns NULL).

Variables:
- `pool_bitmap` and `vaddr_bitmap`.
- `pte` for every space and `pde` for each process's user half.
- `holder`, the holder of each pool lock.
- `st`, each thread's program counter and the locals of the call in progress.
- `owned`, the blocks each thread got from `sys_malloc` and may pass to `sys_free`.
- `halt`, whether the kernel has stopped in `panic_spin`.

One step is one statement that touches shared state, as the code runs with interrupts on. That is:
- a bitmap scan;
- the set loop of `vaddr_get`;
- a `bitmap_set`;
- one page-table write;
- a lock operation.

| Code | Actions |
|---|---|
| `sys_malloc` (size > 1024) | `SysMallocLarge` → `MallocLock` → `VaddrScan` → `VaddrSet` → per page `PallocScan`, `PallocSet`, `PageTableAdd` or `PtAllocScan`/`PtAllocSet`/`PtWrite` → `MallocDone` (or `MallocFail` when `vaddr_get` returns NULL; with NDEBUG, `MallocPageNull` when `palloc` returns NULL mid-loop, which returns NULL with nothing undone, and `PtAllocNull` when the table's `palloc` returns NULL and the pde is written with physical page 0, `PhysPage0`) |
| `start_process` → `get_a_page` | `StartProcess` → `GetAPageSet` → the palloc / page_table_add steps → `GetAPageDone` |
| `sys_free` (large block) → `mfree_page` | `SysFreeLarge` → `FreeLock` (reads the first page's frame) → per page `Pfree`, `PteRemove` → `FreeDone` (`vaddr_remove`, `lock_release`) |
| `panic_spin` | `PanicSpin` (the halted kernel stutters) |

Kernel page directory entries all exist from boot, so a kernel mapping never takes the table-allocation branch. A process's user directory entries start absent.

Both ASSERTs the code can reach are stated as the invariant `AssertionsHold` rather than as halting steps:
- the "pte repeat" check of `page_table_add`;
- the range check of `mfree_page`.

The full-bitmap ASSERT stays a step in the debug build, because it is reachable in a correct run whenever a pool fills up.

`MappingsConsistent` says the page tables map only what is live: every owned page maps a frame of its pool, every present pte lies in some reservation (a block owned or being set up or freed), and every user pde is absent or a `kernel_pool` frame.

The lock is the contract of `lock_acquire`/`lock_release`: wait while another thread holds it, and release only by the holder. Module `ReentrantLock` states that contract, and `Sync` shows that the code implements it.

### `Heap` (small blocks: `sys_malloc` ≤ 1024, `sys_free`)

Constants:
- `KThreads` and `UProcs`. Kernel threads share `k_block_descs`; each process has its own `u_block_desc`.
- `KPages` and `UPages` are the pool pages the heap may take.
- `PG_SIZE`, `ARENA_SIZE` and `DESC_CNT`, so that an arena holds a few blocks.
- `Sizes` are the request sizes.

Variables:
- `free_list[h][i]`, the free list of class `i` of descriptor array `h`, as a sequence of blocks;
- `arena[p]`, the header of page `p` (descriptor, `cnt`, `large`);
- `inuse`, the blocks handed out with their request sizes;
- `halt`.

A block is `<<page, index>>`: `arena2block` and `block2arena` are the address arithmetic on that pair. Every statement of the small paths runs under the pool lock, so one call is one step:

| Code | Action |
|---|---|
| `sys_malloc`, free list not empty | `MallocFromList` |
| `sys_malloc`, free list empty: `malloc_page(PF,1)` takes the lowest free page, then the arena is carved (memory.c 761-778) | `MallocNewArena` |
| `sys_malloc`, no page free: the one-page `bitmap_scan` hits its ASSERT | `MallocPanic` |
| `sys_free` of a small block; the arena stays | `SysFreeKeep` |
| `sys_free` of the arena's last block: its blocks are unlinked and the page freed | `SysFreeRelease` |

`desc_idx` is the class-search loop (memory.c 733-740), written as a RECURSIVE operator.

### `Sync` and `ReentrantLock` (one lock under the scheduler)

`Sync` models kernel threads on one CPU. Variables:
- `cur` is `running_thread()`; `status` is each thread's status; `ready` is `thread_ready_list`.
- `value` and `waiters` are the semaphore.
- `holder` and `holder_repeat_nr` are the lock.
- `pc` is each thread's place in its loop: outside the lock, `lock_acquire` (nested up to `MaxNest` deep), in the critical section, `lock_release`.

`sema_down` and `sema_up` run with interrupts off, so each is one step. The steps are one iteration of the `sema_down` loop, which may `thread_block` and switch to the head of the ready list, and the whole of `sema_up`, which `thread_unblock`s the first waiter to the front of the ready list. The statements of `lock_acquire` and `lock_release` outside the semaphore (`holder = ...`, `holder_repeat_nr = ...`) are steps of their own. The timer (`Tick`) may preempt a running thread between any two of them. `release_order` is the statement order of `lock_release` (sync.c 125-127).

`ReentrantLock` is the abstract lock: an owner and a depth. `Sync` maps to it by:
- owner: the thread between its successful `sema_down` and its `sema_up`;
- depth: `holder_repeat_nr`, read as 1 in the two places where it is 0 while the semaphore is held (just after `sema_down` and just before `sema_up`).

The property `LockContract` (`Contract!Spec`, with `Contract == INSTANCE ReentrantLock WITH ...`) checks the refinement.

### `IOQueue` (the keyboard ring buffer)

Variables:
- `buf`, `head`, `tail` and `consumer` of `struct ioqueue`;
- `value`, `lwaiters` and `holder` of its lock;
- `pc`, `cur` and `ready` of the consumer threads;
- `keys` (keys pressed) and `log` (bytes returned), as history;
- `intr`, the CPU's interrupt flag (EFLAGS.IF), and `saved[t]`, the statuses thread `t` has saved on its stack: the `old_status` locals of its open sections, and the eflags a timer interrupt pushed.

Its steps:
- `ioq_getchar` runs with interrupts off. So a consumer runs from one blocking point to the next in one step: `GetChar`, `LockRetry` (woken in `sema_down`) and `WaitDone` (woken in `ioq_wait`: `lock_release` and the loop test).
- The keyboard handler is not under `src/`. It is the `Keyboard` action: when the buffer is not full it calls `ioq_putchar`, and otherwise it drops the key, so the producer never waits. It fires only while interrupts are on.
- `Tick` preempts the running consumer and `IdleSwitch` is the idle thread giving way once a consumer is ready.

The timer and the keyboard interrupt fire only when `intr` is on. Nothing in the model says where that is; the flag changes only as the code changes it:
- Each action applies the sections of the code it runs, in order. The caller disables interrupts around `ioq_getchar`: its ASSERT requires this, though the caller itself is not under `src/`. Inside it, `sema_down` and `thread_block` save the status, and `sema_up` and `thread_unblock` save and restore it (`Save`, `Restore`, `Section` of module `Interrupt`).
- A switch (`SwitchTo`, `schedule`) happens with the flag off. The thread switched to then sets it (`Resumed`). On its first run, `kernel_thread` calls `intr_enable`. Otherwise it returns into `thread_block`, which restores its `old_status`, or into the timer handler, whose `iretd` restores the eflags it saved (the comment at sync.c 46-55).

`InterruptsMatchContext` then checks that the flag is off exactly inside `ioq_getchar`, and that each saved status is the one its section must restore.

### `Interrupt` (the interrupt flag)

`intr_get_status`, `intr_enable`, `intr_disable` and `intr_set_status` of interrupt.c 248-293, as operators on the flag. Each returns the status before the call together with the new flag. `Save` is `old_status = intr_disable()`, `Restore` is `intr_set_status(old_status)` of the innermost saved status, and `Section` is one followed by the other with no switch in between.

### `MemLayout` (the boot-time pool layout)

`mem_pool_init` is the operator of the same name. It keeps the C types that matter: each assignment to a `uint16_t` page count is taken `% 2^16`. The byte counts are `uint32_t`, but no byte count wraps for the sizes checked, and the `ASSUME` states that range. `Init` picks `mem_bytes_total` from `MemSizes` and computes the layout, as `mem_init` does. The layout never changes after boot. The bitmap addresses are kept as offsets from `MEM_BITMAP_BASE`.

### `Pid` (`allocate_pid`)

Variables:
- `next_pid`: the static counter;
- `owner` and `depth`: `pid_lock`, used through `ReentrantLock` (`PidLock == INSTANCE ReentrantLock WITH ...`). `Sync` shows that the real lock implements that contract;
- `pc` and `reg`: each caller's place and the value its increment left;
- `returned`: the pids returned, in order.

The actions are the four statements: `lock_pid`, `inc_pid`, `unlock_pid` and `return_pid`. The timer may fall between any two of them. `build` is the compiler's choice of how `return next_pid` is read.

## Runs

| Run | Config | Expect | What it shows |
|---|---|---|---|
| `tracker_runs` | `MCTracker.cfg` | pass | On a 1-byte tracker, every sequence of `vaddr_get(1..3)` and `vaddr_remove` keeps the bitmap equal to the union of the runs handed out (`RunsMatchBitmap`), and each scan is first fit (`ScanIsFirstFit`), also on every 2-byte bitmap that extends a reachable one, for `cnt` 1 to 3, where runs cross the byte boundary and the byte-skip loop advances. The byte after the bitmap reads as full. |
| `tracker_overrun` | `MCTrackerOverrun.cfg` | violation | `ScanStaysInBitmap`: with bits 0..5 set and `cnt = 3`, the scan returns 6, a run over bits 6..8 that ends past the bitmap. |
| `pagealloc_kernel` | `MCPageAllocKernel.cfg` | pass | Two kernel threads: the pool bits match the frames in use (`FrameAccounting`), the tracker bits match the reservations (`VirtualAccounting`), and owned pages map frames of the right pool (`MappingsConsistent`). |
| `pagealloc_user` | `MCPageAllocUser.cfg` | pass | Two processes built with NDEBUG, including page-table creation and both pools running out so that `palloc` returns NULL: no frame of either pool is shared, and the pool bitmaps match the frames in use (`FrameAccounting`). The conditions of the ASSERTs of `page_table_add` and `mfree_page` always hold. Under `FairSpec`, every pool lock a thread takes is released again, on the NULL paths too (`PoolLocksReleased`). |
| `pagealloc_ndebug` | `MCPageAllocNdebug.cfg` | violation | `MappingsConsistent`, NDEBUG build: a `sys_malloc` of 2 pages whose second `palloc` fails leaves its first page mapped outside any reservation (finding 8). |
| `pt_frame_race` | `MCPageAllocRace.cfg` | violation | `KernelFramesExclusive`: a process's `page_table_add` and a kernel thread's `palloc` take the same kernel frame, because the first does not hold `kernel_pool.lock`. |
| `heap` | `MCHeap.cfg` | pass | One kernel thread and two processes. Every free list holds exactly the free blocks of the live arenas of its class (`FreeListsExact`). No arena with all its blocks free stays allocated (`NoEmptyArenaRetained`). Every block handed out is at least as large as the request (`BlockFits`). |
| `sync` | `MCSync.cfg` | pass | Three threads, nesting up to 2, under the timer and the fairness below. The lock has one holder, and `holder_repeat_nr` matches the thread's nesting (`LockExclusive`). The ready list, `status` and `cur` agree (`SchedulerConsistent`). Every blocked thread is on the semaphore's waiters, and a waiter is woken when the lock is free (`NoLostWakeup`). The implementation refines `ReentrantLock` (`LockContract`). Whenever a thread waits in `sema_down`, some thread later takes the lock (`WaitersMakeProgress`). Every READY thread eventually runs, although `thread_unblock` pushes woken threads to the front (`ReadyEventuallyRuns`). Progress of each single waiter does not hold (finding 5). |
| `ioqueue` | `MCIOQueue.cfg` | pass | Two consumers, a 3-byte buffer and 5 keys. Bytes are consumed in the order pressed, none twice (`FifoDelivery`). Every sleeping consumer is recorded in `ioq->consumer` or waits on the lock (`NoLostWakeup`). The interrupt flag, saved and restored by each section across switches, is off exactly inside `ioq_getchar`, and every saved status is the one to be restored (`InterruptsMatchContext`). |
| `consumer_waits_with_data` | `MCIOQueueWait.cfg` | violation | `ConsumerWaitsOnlyWhenEmpty`: a consumer sleeps in `ioq_wait` while a byte is in the buffer. |
| `mem_layout_wrap` | `MCMemLayout.cfg` | violation | `PoolsCoverFreeMemory`: for every memory size from 3 to 512 MiB, the pools cover all free pages but fewer than 16. The check fails at 258 MiB, where the `uint16_t` page count wraps to 0 and both pools are empty (finding 6). |
| `pid_reuse` | `MCPid.cfg` | violation | `PidsUnique`: two calls of `allocate_pid` return the same pid, 2, when `return next_pid` reads memory after `lock_release` (finding 7). |

### Findings

1. **memory.c 173 (code bug).** A frame for a new user page table is taken from `kernel_pool` without `kernel_pool.lock`. Here is the 13-state trace:
   - u1 runs `start_process` and finds its stack's directory entry absent. It scans `kernel_pool` and finds frame 0.
   - k1 is inside `sys_malloc` under `kernel_pool.lock`. It scans too and also finds frame 0.
   - Both set the bit, and both use the frame: one as a page table, one as a kernel page.

   Spec 5 says table edits are protected by the kernel pool's lock.
2. **bitmap.c 66 (code bug).** The walk tests bit `len*8`. For `kernel_vaddr`, whose bitmap is followed by other memory, `vaddr_get` can return a run ending one page past the tracked region and set a bit outside the bitmap.
3. **bitmap.c 48 (divergence from spec 4.1/7; noted, not a run).** In the build as shipped, a full bitmap halts the kernel at `ASSERT(idx_byte < btmp_bytes_len)` instead of returning -1. `Bitmap`'s `Scan` and `PageAlloc`'s `Halt("bitmap_scan full")` model this, and `pagealloc_kernel` reaches the halt. So the NULL paths of `palloc` and `malloc_page` are dead in this build. With NDEBUG they are live, and finding 8 shows what they lead to.

4. **ioqueue.c 61-63 (divergence from the comment at 58-60).** The `while (ioq_empty)` test runs before `lock_acquire`, and nothing tests the buffer again after it. Here is the trace:
   - c1 finds the buffer empty, takes the lock and sleeps in `ioq_wait`.
   - c2 finds the buffer empty and blocks on the lock.
   - A key wakes c1. c1 releases the lock (which readies c2) and takes the byte.
   - A second key arrives. c2 gets the lock and sleeps in `ioq_wait` with that byte in the buffer.

   The byte is delivered only when another key arrives. With one consumer this cannot happen, and no byte is ever lost or reordered (`FifoDelivery` holds).
5. **Lock starvation (noted, not a run).** `sema_up` readies the first waiter, but the releasing thread may run on and take the lock again before the waiter runs. The waiter then goes back to the end of `waiters`. So the lock is not FIFO, and under fairness of the timer alone a waiter can be bypassed forever. The comment at sync.c 36 hopes otherwise. `WaitersMakeProgress` therefore assumes strong fairness of each thread's steps (see Fairness).
6. **memory.c 508-517 (divergence from the comments at 14-16 and 522-523).** `all_free_pages`, `kernel_free_pages` and `user_free_pages` are `uint16_t`. Above 258 MiB the page count, 65536 or more, wraps modulo 2^16. At exactly 258 MiB both pools get 0 pages. From 258 to 512 MiB the pools manage only the wrapped count, and the rest of memory is lost. The comment says the four bitmap pages support 512 MiB, and that only the remainder below one bitmap byte is lost.
7. **thread.c 116 (code bug).** `allocate_pid` increments `next_pid` under `pid_lock`, then releases the lock, then `return next_pid`. A build that reads `next_pid` again after `lock_release` returns the pid of whichever thread incremented last. The trace: t1 increments to 1 and releases; t2 increments to 2 and releases; both return 2. The comment at 100-113 says the lock is there so that pids are unique. `Pid` chooses the build in `Init`: `reload` reads memory again, and `register` returns the value the increment left in a register. Only `reload` fails.
8. **memory.c 210 and 175, NDEBUG build (code bug, spec 7 known gap).** `malloc_page` returns NULL from the middle of its loop when `palloc` fails and undoes nothing. The 27-state trace:
   - u1 and u2 start and map their stacks (user frames 3 and 4);
   - u1 calls `sys_malloc` for 2 pages, reserves virtual pages 0 and 1, and maps page 0 to user frame 5 (creating a table in kernel frame 2);
   - `palloc` for page 1 finds `user_pool` full and returns NULL; `sys_malloc` returns NULL.

   `pte[u1][0] = 5` is left with no reservation that `sys_free` could ever be given. The comment at line 210 says the rollback is owed. With one-page requests and two kernel frames, the same property fails through line 175 instead: a table `palloc` returns NULL and the pde is written with physical page 0.

## Bounds and why they are enough

- **Tracker.** One byte with run lengths 1 to 3 covers runs that start anywhere, fill the byte and reach its end. All sequences of up to 8 reservations are explored. Extending each reachable byte by every second byte covers every 2-byte bitmap, where the byte boundary matters.
- **PageAlloc, kernel run.** 3 kernel frames and 3 kernel virtual pages with requests of 1 and 2 pages. Two threads can each hold a block, fill the pool, fragment the tracker so a scan returns NotFound, and fill a bitmap so a scan panics.
- **PageAlloc, user run.** `PagesPerTable = 2` with 3 user pages gives two directories per process, so a table is created on a first mapping and reused on a second. 3 kernel frames against 4 possible tables make `kernel_pool` run out during table creation, and 3 user frames against two stacks and requests of 2 pages make `user_pool` run out in the middle of a `malloc_page`. The NDEBUG violation run uses the same instance.
- **PageAlloc, race run.** A kernel thread and a process contend for `kernel_pool` through the two locks.
- **Heap.** `PG_SIZE = 60` with `ARENA_SIZE = 12` gives 3 blocks of 16 bytes or 1 block of 32 per arena. With sizes 16 and 20, both classes are used, and the class search steps past class 0. One kernel page and two user pages let the two processes compete for `user_pool`. They also let an arena be emptied and released, and a pool run out, which leads to the halt.
- **Sync.** Three threads is the least number where a waiter, a woken waiter and a running holder coexist. `MaxNest = 2` covers the nested acquire and release paths. The same run checks liveness. A holder that nests and un-nests forever would never release, so fairness includes the last `lock_release` of a hold (see Fairness).
- **MemLayout.** Every whole number of MiB from 3 to 512 is checked, which is every size the comment claims to support. `used_mem` is 2 MiB, so 3 MiB is the least size that leaves free pages. The layout is a pure function of the size, so one state per size is enough.
- **Pid.** Two callers with two calls in all is the least instance where a second increment can fall between the first caller's `lock_release` and its `return`. Deadlock checking is off for this run, because the model stops once both calls have returned.
- **IOQueue.** With a 3-byte buffer and 5 keys the buffer fills, wraps and drops keys. Two consumers are needed for the lock and the `ioq_wait` paths to interleave. Deadlock checking is off because, once all keys have been pressed, every consumer legitimately sleeps and the idle thread waits for an interrupt that never comes.
- **Coverage.** Across the passing runs, every action and every disjunct of `Next` fires.
- **Symmetry.** Symmetry over threads of one kind is sound: no definition tells two kernel threads, or two processes, apart. `pagealloc_user` does without it because it checks liveness.

## Fairness

Two runs check liveness.

`pagealloc_user` assumes weak fairness of each busy thread's steps (`FairSpec`). Inside `sys_malloc`, `get_a_page` or `sys_free`, a thread blocks only in `lock_acquire`, and it holds no pool lock there. A thread that is not blocked is READY, and `sync` shows that every READY thread runs (`ReadyEventuallyRuns`). An idle thread is not required to call again. No strong fairness is assumed, so the run claims only that a lock holder finishes, not that a waiter gets the lock (finding 5). The run has no symmetry, because TLC's symmetry reduction is not sound for liveness.

`sync` assumes:
- weak fairness of `Tick`, the timer interrupt, which preempts a running thread with interrupts on and round-robins the ready list;
- strong fairness of each thread's steps inside `lock_acquire` and `lock_release` (`Busy`). A fresh `lock_acquire` and a nested one are left out, since a thread outside the lock may decide never to take it again;
- strong fairness of `OuterRelease`, the last `lock_release` of a hold. Every caller in `src/` (`memory.c`, `ioqueue.c`) holds a lock for a bounded piece of work, so a thread that keeps getting the CPU eventually leaves the lock.

Strong rather than weak fairness is needed because a woken waiter is repeatedly enabled and disabled as the holder takes the lock back. Even so, `WaitersMakeProgress` only says that the lock keeps moving. Finding 5 shows that a particular waiter may still be bypassed. The other properties are safety properties, and their runs assume no fairness.

## What is not modelled, and the plan for later work

In order of importance:

1. **Heap large blocks.** These are modelled in `PageAlloc`, as `malloc_page`/`mfree_page` of several pages. `Heap` takes and gives back single pages atomically, which is justified by `PageAlloc`'s checks of those paths under the pool lock.
3. **`get_kernel_pages` and `get_user_pages`.** `get_user_pages` has no caller in `src/`. `get_kernel_pages` is used by `thread_start` and `process_execute`.
4. **Thread creation and the other scheduler parts not used by the locks.** These are `thread_start`, `make_main_thread`, `thread_init`, `thread_yield`, `sys_ps` and the all-threads list. In `src/`, threads are created only by `thread_init`, at boot, before the timer runs. So the append to the ready list and the append to the all-threads list in `thread_start` never interleave with other threads. `thread_yield` makes the same change as `Tick`, so its states are already covered.
5. **The producer's wait path of `ioq_putchar`** (ioqueue.c 111-115). The keyboard handler never calls `ioq_putchar` on a full buffer, so that path is unreachable.
7. **Not planned:**
   - The contents of physical page 0 after `page_table_add` writes it as a table (memory.c 175, NDEBUG). `pte` is per address space, so a table shared by two directories is not modelled; the model stops at the wrong pde.
   - `pte_ptr`/`pde_ptr` address arithmetic and the entry bit format. These are pure address computation; entries are abstract frames here.
   - Interrupt and TSS set-up: `pic_init`, the IDT (`idt_desc_init`, `make_idt_desc`, `exception_init`, `register_handler`, `idt_init`), `general_intr_handler`, and tss.c. These are boot-time writes of hardware registers and descriptors, which no operation of the kernel reads back as state. `general_intr_handler` prints and halts.
   - The interrupt flag in `Sync` and `PageAlloc`. Every `lock_acquire` there is called with interrupts on, so each section restores INTR_ON, and the step granularity already encodes that. The flag is modelled in `IOQueue`, where `ioq_getchar` nests the lock's sections inside one its caller opened with interrupts off.
   - `get_a_page_without_opvaddrbitmap` and the low-address branch of `get_a_page`, which have no caller.
