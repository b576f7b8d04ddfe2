------------------------------ MODULE PageAlloc -----------------------------
(***************************************************************************)
(* The page allocator of src/kernel/memory.c under preemptive threads:     *)
(* the two physical pools (kernel_pool, user_pool), the kernel virtual     *)
(* tracker kernel_vaddr and each process's userprog_vaddr, the page tables *)
(* written by page_table_add, and the whole-page paths that use them:      *)
(* sys_malloc of more than 1024 bytes (malloc_page under the pool lock),   *)
(* sys_free of such a block (mfree_page under the pool lock), and the      *)
(* get_a_page of start_process that maps a process's user stack.           *)
(*                                                                         *)
(* Kernel threads (pgdir == NULL) use kernel_pool.lock, kernel_vaddr and   *)
(* kernel frames; user processes use user_pool.lock, their own tracker and *)
(* user frames.  The page tables of a process's user half are allocated    *)
(* from kernel_pool by page_table_add; those of the kernel half all exist  *)
(* from boot (loader), so a kernel mapping never allocates a table.        *)
(*                                                                         *)
(* A thread may be preempted between any two steps.  One step is a bitmap *)
(* scan, a bitmap set (or the set loop of vaddr_get), one page table       *)
(* write, or a lock operation: the places where another thread's step     *)
(* can fall between two statements of the code.                           *)
(*                                                                         *)
(* Frames are physical page numbers: kernel_pool holds 0..KFrames-1,       *)
(* user_pool starts right after it (mem_pool_init, up_start).  The pools   *)
(* modelled are the frames left free after boot.  Bitmap scans are the     *)
(* first fit of module Bitmap (run tracker_runs shows bitmap_scan is this *)
(* first fit when the bit past the end reads set).  On a full bitmap,      *)
(* ASSERT(idx_byte < len) halts the kernel (bitmap.c 48); in a build with  *)
(* NDEBUG the scan returns -1 and palloc returns NULL instead.             *)
(***************************************************************************)
EXTENDS Integers, FiniteSets, Bitmap

CONSTANTS
    KThreads,       \* kernel threads (pgdir == NULL)
    UProcs,         \* user processes (pgdir != NULL)
    KFrames,        \* frames of kernel_pool
    UFrames,        \* frames of user_pool
    UVPages,        \* pages of a process's user virtual space
    PagesPerTable,  \* virtual pages mapped by one page table (1024 in the code)
    PageCounts,     \* page counts of sys_malloc requests above 1024 bytes
    NoThread,       \* lock holder NULL
    NDEBUG          \* TRUE when the kernel is built with NDEBUG (debug.h)

ASSUME /\ KThreads \cap UProcs = {}
       /\ KFrames \in Nat \ {0} /\ UFrames \in Nat \ {0}
       /\ UVPages \in Nat \ {0, 1} /\ PagesPerTable \in Nat \ {0}
       /\ PageCounts \subseteq Nat \ {0}
       /\ NDEBUG \in BOOLEAN

Threads == KThreads \cup UProcs
Pools   == {"kernel_pool", "user_pool"}
Spaces  == {"kernel"} \cup UProcs

\* mem_pool_init: user_pool starts where kernel_pool ends.
phy_addr_start == [kernel_pool |-> 0, user_pool |-> KFrames]
PoolFrames(pl) == IF pl = "kernel_pool" THEN KFrames ELSE UFrames
Frames  == 0 .. KFrames + UFrames - 1
NoFrame == -1
\* Physical page 0, below the pools: the frame of a NULL palloc result.
PhysPage0 == -2
FrameOf(pl, bit_idx) == phy_addr_start[pl] + bit_idx

\* kernel_vaddr.vaddr_bitmap has the length of kernel_pool's bitmap (memory.c 636).
KVPages == KFrames
VPages(s) == IF s = "kernel" THEN 0 .. KVPages - 1 ELSE 0 .. UVPages - 1
\* USER_STACK3_VADDR is the last user page below 0xc0000000.
StackPage == UVPages - 1
Dirs == 0 .. (UVPages - 1) \div PagesPerTable
DirOf(v) == v \div PagesPerTable

\* running_thread()->pgdir == NULL selects the kernel side.
SpaceOf(t) == IF t \in KThreads THEN "kernel" ELSE t
PoolOf(t)  == IF t \in KThreads THEN "kernel_pool" ELSE "user_pool"

\* Outcomes of a halted kernel (PANIC or a failed ASSERT: panic_spin).
Running == "running"
Halts == {"bitmap_scan full"}

VARIABLES
    pool_bitmap,   \* pool_bitmap of kernel_pool and user_pool
    vaddr_bitmap,  \* kernel_vaddr and each process's userprog_vaddr bitmap
    pte,           \* present leaf entries: frame, or NoFrame when P = 0
    pde,           \* page table frame of each user directory entry, or NoFrame
    holder,        \* lock holder of kernel_pool.lock and user_pool.lock
    st,            \* program counter and locals of each thread
    owned,         \* blocks <<vaddr, pg_cnt>> a thread got from sys_malloc
    halt           \* Running, or why the kernel stopped

vars == <<pool_bitmap, vaddr_bitmap, pte, pde, holder, st, owned, halt>>

Idle == [pc |-> "idle", op |-> "none", cnt |-> 0, vaddr |-> 0, left |-> 0, frame |-> NoFrame]

Init ==
    /\ pool_bitmap  = [pl \in Pools |-> [i \in 0 .. PoolFrames(pl) - 1 |-> 0]]
    /\ vaddr_bitmap = [s \in Spaces |-> [v \in VPages(s) |-> 0]]
    /\ pte   = [s \in Spaces |-> [v \in VPages(s) |-> NoFrame]]
    /\ pde   = [p \in UProcs |-> [d \in Dirs |-> NoFrame]]
    /\ holder = [pl \in Pools |-> NoThread]
    \* a process is created with start_process as its first function
    /\ st = [t \in Threads |-> IF t \in UProcs THEN [Idle EXCEPT !.pc = "start"] ELSE Idle]
    /\ owned = [t \in Threads |-> {}]
    /\ halt = Running

-----------------------------------------------------------------------------
(* Helpers *)

\* bitmap_scan as first fit, NotFound, or Panic on a full bitmap; with
\* NDEBUG the ASSERT is gone and a full bitmap gives NotFound.
Scan(b, cnt) ==
    IF \A i \in DOMAIN b : b[i] = 1 THEN (IF NDEBUG THEN NotFound ELSE Panic)
    ELSE FirstFitBits(b, Cardinality(DOMAIN b), cnt)

At(t, pc) == halt = Running /\ st[t].pc = pc
Goto(t, pc) == st' = [st EXCEPT ![t].pc = pc]
Halt(why) == /\ halt' = why
             /\ UNCHANGED <<pool_bitmap, vaddr_bitmap, pte, pde, holder, st, owned>>

\* The virtual page being mapped or unmapped by t.
CurPage(t) == st[t].vaddr + st[t].cnt - st[t].left

-----------------------------------------------------------------------------
(* Locks of the pools, as their lock_acquire / lock_release contract      *)
(* (sync.c): a waiter blocks until the holder releases.                   *)

\* Mutant: acquire without waiting for the holder to release.
lock_acquire_nowait(t, pl) == holder' = [holder EXCEPT ![pl] = t]

lock_acquire(t, pl) ==
    /\ holder[pl] = NoThread
    /\ holder' = [holder EXCEPT ![pl] = t]

lock_release(t, pl) ==
    /\ holder[pl] = t
    /\ holder' = [holder EXCEPT ![pl] = NoThread]

-----------------------------------------------------------------------------
(* sys_malloc(size) with 1024 < size < pool_size, memory.c 678-730 *)

\* Entry: pool chosen from pgdir, size check passed, page_cnt computed.
SysMallocLarge(t, n) ==
    /\ At(t, "idle")
    /\ st' = [st EXCEPT ![t] = [Idle EXCEPT !.pc = "lock", !.op = "malloc", !.cnt = n]]
    /\ UNCHANGED <<pool_bitmap, vaddr_bitmap, pte, pde, holder, owned, halt>>

MallocLock(t) ==
    /\ At(t, "lock")
    /\ lock_acquire(t, PoolOf(t))
    /\ Goto(t, "vscan")
    /\ UNCHANGED <<pool_bitmap, vaddr_bitmap, pte, pde, owned, halt>>

\* Mutant: the -1 of bitmap_scan is not turned into NULL.
VaddrScanNullOk(t) ==
    /\ At(t, "vscan")
    /\ LET r == Scan(vaddr_bitmap[SpaceOf(t)], st[t].cnt) IN
       \/ r = Panic /\ Halt("bitmap_scan full")
       \/ /\ r >= NotFound
          /\ st' = [st EXCEPT ![t].vaddr = r, ![t].pc = "vset"]
          /\ UNCHANGED <<pool_bitmap, vaddr_bitmap, pte, pde, holder, owned, halt>>

\* vaddr_get: bitmap_scan of the tracker (memory.c 84-87 / 96-99).
VaddrScan(t) ==
    /\ At(t, "vscan")
    /\ LET r == Scan(vaddr_bitmap[SpaceOf(t)], st[t].cnt) IN
       \/ r = Panic /\ Halt("bitmap_scan full")
       \/ /\ r = NotFound
          /\ Goto(t, "fail")
          /\ UNCHANGED <<pool_bitmap, vaddr_bitmap, pte, pde, holder, owned, halt>>
       \/ /\ r >= 0
          /\ st' = [st EXCEPT ![t].vaddr = r, ![t].pc = "vset"]
          /\ UNCHANGED <<pool_bitmap, vaddr_bitmap, pte, pde, holder, owned, halt>>

\* vaddr_get: the bitmap_set loop (memory.c 88-90 / 100-102).
VaddrSet(t) ==
    /\ At(t, "vset")
    /\ vaddr_bitmap' = [vaddr_bitmap EXCEPT ![SpaceOf(t)] =
           [v \in VPages(SpaceOf(t)) |->
               IF v \in st[t].vaddr .. st[t].vaddr + st[t].cnt - 1 THEN 1 ELSE @[v]]]
    /\ st' = [st EXCEPT ![t].left = st[t].cnt, ![t].pc = "palloc"]
    /\ UNCHANGED <<pool_bitmap, pte, pde, holder, owned, halt>>

\* Mutant: the NULL return of sys_malloc forgets lock_release.
MallocFailNoRelease(t) ==
    /\ At(t, "fail")
    /\ st' = [st EXCEPT ![t] = Idle]
    /\ UNCHANGED <<pool_bitmap, vaddr_bitmap, pte, pde, holder, owned, halt>>

\* sys_malloc: malloc_page returned NULL, release the lock (memory.c 726-728).
MallocFail(t) ==
    /\ At(t, "fail")
    /\ lock_release(t, PoolOf(t))
    /\ st' = [st EXCEPT ![t] = Idle]
    /\ UNCHANGED <<pool_bitmap, vaddr_bitmap, pte, pde, owned, halt>>

\* Mutant: malloc_page's pool flag test is inverted.
PallocScanOtherPool(t) ==
    LET pl == IF PoolOf(t) = "kernel_pool" THEN "user_pool" ELSE "kernel_pool" IN
    /\ At(t, "palloc")
    /\ st[t].left > 0
    /\ LET r == Scan(pool_bitmap[pl], 1) IN
       \/ r = Panic /\ Halt("bitmap_scan full")
       \/ /\ r >= 0
          /\ st' = [st EXCEPT ![t].frame = FrameOf(pl, r), ![t].pc = "pset"]
          /\ UNCHANGED <<pool_bitmap, vaddr_bitmap, pte, pde, holder, owned, halt>>

(***************************************************************************)
(* The loop of malloc_page (memory.c 208-215): palloc then page_table_add *)
(* for each page.  palloc (136-145) is a scan and a set of the pool; its   *)
(* NULL return is reachable only with NDEBUG, where a full pool's scan     *)
(* returns -1 instead of halting.                                          *)
(***************************************************************************)
PallocScan(t) ==
    /\ At(t, "palloc")
    /\ st[t].left > 0
    /\ LET r == Scan(pool_bitmap[PoolOf(t)], 1) IN
       \/ r = Panic /\ Halt("bitmap_scan full")
       \/ /\ r >= 0
          /\ st' = [st EXCEPT ![t].frame = FrameOf(PoolOf(t), r), ![t].pc = "pset"]
          /\ UNCHANGED <<pool_bitmap, vaddr_bitmap, pte, pde, holder, owned, halt>>

(***************************************************************************)
(* palloc returned NULL in malloc_page's loop (memory.c 209-211):          *)
(* malloc_page returns NULL at once, keeping the run it reserved in the    *)
(* tracker and the pages it already mapped; its caller releases the lock   *)
(* and returns NULL (sys_malloc 724-728, get_a_page 308-310).             *)
(***************************************************************************)
MallocPageNull(t) ==
    /\ At(t, "palloc")
    /\ st[t].left > 0
    /\ Scan(pool_bitmap[PoolOf(t)], 1) = NotFound
    /\ Goto(t, IF st[t].op = "getapage" THEN "getapage" ELSE "fail")
    /\ UNCHANGED <<pool_bitmap, vaddr_bitmap, pte, pde, holder, owned, halt>>

\* Set the bit of frame f in its pool's bitmap to value (pfree, palloc).
SetFrameBit(f, value) ==
    LET pl == IF f >= phy_addr_start.user_pool THEN "user_pool" ELSE "kernel_pool"
    IN  pool_bitmap' = [pool_bitmap EXCEPT ![pl] = bitmap_set(@, f - phy_addr_start[pl], value)]

\* Mutant: palloc forgets the bitmap_set of the frame it found.
PallocSet(t, next) ==
    /\ SetFrameBit(st[t].frame, 1)
    /\ Goto(t, next)
    /\ UNCHANGED <<vaddr_bitmap, pte, pde, holder, owned, halt>>

(***************************************************************************)
(* page_table_add(vaddr, frame), memory.c 150-187, when the directory     *)
(* entry is present (every kernel one is): write the leaf entry.  Its     *)
(* ASSERT / PANIC("pte repeat") on a present entry is AssertionsHold.     *)
(***************************************************************************)
PdePresent(t, v) == IF t \in KThreads THEN TRUE ELSE pde[t][DirOf(v)] # NoFrame

PteWrite(t) ==
    LET s == SpaceOf(t)
        v == CurPage(t)
    IN  /\ pte[s][v] = NoFrame
        /\ pte' = [pte EXCEPT ![s][v] = st[t].frame]

\* Mapping one page is done: next iteration, or the caller's return step.
PageMapped(t) ==
    st' = [st EXCEPT ![t].left = @ - 1, ![t].frame = NoFrame,
                     ![t].pc = IF st[t].left = 1 THEN st[t].op ELSE "palloc"]

PageTableAdd(t) ==
    /\ At(t, "ptadd")
    /\ PdePresent(t, CurPage(t))
    /\ PteWrite(t)
    /\ PageMapped(t)
    /\ UNCHANGED <<pool_bitmap, vaddr_bitmap, pde, holder, owned, halt>>

(***************************************************************************)
(* page_table_add when the directory entry is absent (memory.c 171-186):  *)
(* palloc(&kernel_pool) for the table, whatever lock the caller holds,    *)
(* then write the pde, zero the table and write the pte.                  *)
(***************************************************************************)
PtAllocScan(t) ==
    /\ At(t, "ptadd")
    /\ ~PdePresent(t, CurPage(t))
    /\ LET r == Scan(pool_bitmap["kernel_pool"], 1) IN
       \/ r = Panic /\ Halt("bitmap_scan full")
       \/ /\ r >= 0
          /\ st' = [st EXCEPT ![t].pc = "ptset",
                              ![t].op = <<st[t].op, FrameOf("kernel_pool", r)>>]
          /\ UNCHANGED <<pool_bitmap, vaddr_bitmap, pte, pde, holder, owned, halt>>

\* palloc(&kernel_pool) of the table returned NULL (NDEBUG only): the
\* directory entry is written with frame 0 and memset zeroes physical page 0
\* (memory.c 173-183); nothing is set in the pool.
PtAllocNull(t) ==
    /\ At(t, "ptadd")
    /\ ~PdePresent(t, CurPage(t))
    /\ Scan(pool_bitmap["kernel_pool"], 1) = NotFound
    /\ st' = [st EXCEPT ![t].pc = "ptwrite", ![t].op = <<st[t].op, PhysPage0>>]
    /\ UNCHANGED <<pool_bitmap, vaddr_bitmap, pte, pde, holder, owned, halt>>

\* Mutant: the palloc of the page table forgets its bitmap_set.
PtAllocSetNoBit(t) ==
    /\ At(t, "ptset")
    /\ Goto(t, "ptwrite")
    /\ UNCHANGED <<pool_bitmap, vaddr_bitmap, pte, pde, holder, owned, halt>>

\* The table frame travels in op as <<caller op, table frame>>.
PtAllocSet(t) ==
    /\ At(t, "ptset")
    /\ SetFrameBit(st[t].op[2], 1)
    /\ Goto(t, "ptwrite")
    /\ UNCHANGED <<vaddr_bitmap, pte, pde, holder, owned, halt>>

PtWrite(t) ==
    LET v == CurPage(t)
        d == DirOf(v)
    IN  /\ At(t, "ptwrite")
        /\ pde' = [pde EXCEPT ![t][d] = st[t].op[2]]
        \* memset of the new table, then the leaf entry
        /\ pte' = [pte EXCEPT ![t] = [u \in VPages(t) |->
                      IF u = v THEN st[t].frame
                      ELSE IF DirOf(u) = d THEN NoFrame ELSE @[u]]]
        /\ st' = [st EXCEPT ![t].op = st[t].op[1], ![t].left = @ - 1, ![t].frame = NoFrame,
                            ![t].pc = IF st[t].left = 1 THEN st[t].op[1] ELSE "palloc"]
        /\ UNCHANGED <<pool_bitmap, vaddr_bitmap, holder, owned, halt>>

\* sys_malloc: header written, lock released, block returned (memory.c 713-722).
MallocDone(t) ==
    /\ At(t, "malloc")
    /\ lock_release(t, PoolOf(t))
    /\ owned' = [owned EXCEPT ![t] = @ \cup {<<st[t].vaddr, st[t].cnt>>}]
    /\ st' = [st EXCEPT ![t] = Idle]
    /\ UNCHANGED <<pool_bitmap, vaddr_bitmap, pte, pde, halt>>

-----------------------------------------------------------------------------
(***************************************************************************)
(* start_process -> get_a_page(PF_USER, USER_STACK3_VADDR), memory.c      *)
(* 281-315: under user_pool.lock mark the page in the process's tracker,  *)
(* palloc a user frame and page_table_add it, then release.               *)
(***************************************************************************)
StartProcess(t) ==
    /\ At(t, "start")
    /\ lock_acquire(t, "user_pool")
    /\ st' = [st EXCEPT ![t] = [Idle EXCEPT !.pc = "gaset", !.op = "getapage",
                                            !.vaddr = StackPage, !.cnt = 1]]
    /\ UNCHANGED <<pool_bitmap, vaddr_bitmap, pte, pde, owned, halt>>

GetAPageSet(t) ==
    /\ At(t, "gaset")
    /\ vaddr_bitmap' = [vaddr_bitmap EXCEPT ![t][StackPage] = 1]
    /\ st' = [st EXCEPT ![t].left = 1, ![t].pc = "palloc"]
    /\ UNCHANGED <<pool_bitmap, pte, pde, holder, owned, halt>>

GetAPageDone(t) ==
    /\ At(t, "getapage")
    /\ lock_release(t, "user_pool")
    /\ st' = [st EXCEPT ![t] = Idle]
    /\ UNCHANGED <<pool_bitmap, vaddr_bitmap, pte, pde, owned, halt>>

-----------------------------------------------------------------------------
(***************************************************************************)
(* sys_free(ptr) of a large block, memory.c 948-971 and 987, with          *)
(* mfree_page (856-925): per page addr_v2p, ASSERT the frame is in the     *)
(* pool of the first page, pfree (815-827) and page_table_pte_remove       *)
(* (830-834); then vaddr_remove (837-853).                                 *)
(***************************************************************************)
SysFreeLarge(t, blk) ==
    /\ At(t, "idle")
    /\ owned' = [owned EXCEPT ![t] = @ \ {blk}]
    /\ st' = [st EXCEPT ![t] = [Idle EXCEPT !.pc = "flock", !.op = "free",
                                            !.vaddr = blk[1], !.cnt = blk[2]]]
    /\ UNCHANGED <<pool_bitmap, vaddr_bitmap, pte, pde, holder, halt>>

\* Mutant: the first page's frame is not read, so the pool test sees 0.
FreeLockNoV2p(t) ==
    /\ At(t, "flock")
    /\ lock_acquire(t, PoolOf(t))
    /\ st' = [st EXCEPT ![t].left = st[t].cnt, ![t].pc = "pfree"]
    /\ UNCHANGED <<pool_bitmap, vaddr_bitmap, pte, pde, owned, halt>>

FreeLock(t) ==
    /\ At(t, "flock")
    /\ lock_acquire(t, PoolOf(t))
    \* mfree_page: pg_phy_addr = addr_v2p(vaddr) of the first page (memory.c 859)
    /\ st' = [st EXCEPT ![t].left = st[t].cnt, ![t].pc = "pfree",
                        ![t].frame = pte[SpaceOf(t)][st[t].vaddr]]
    /\ UNCHANGED <<pool_bitmap, vaddr_bitmap, pte, pde, owned, halt>>

\* The pool mfree_page checks against, chosen by the first page's frame (865).
FreePool(t) == IF st[t].frame >= phy_addr_start.user_pool
               THEN "user_pool" ELSE "kernel_pool"

InPool(f, pl) == f \in phy_addr_start[pl] .. phy_addr_start[pl] + PoolFrames(pl) - 1

\* Mutant: pfree does not clear the frame's bit.
PfreeNoClear(t) ==
    LET f == pte[SpaceOf(t)][CurPage(t)] IN
    /\ At(t, "pfree")
    /\ st[t].left > 0
    /\ InPool(f, FreePool(t))
    /\ Goto(t, "unmap")
    /\ UNCHANGED <<pool_bitmap, vaddr_bitmap, pte, pde, holder, owned, halt>>

Pfree(t) ==
    LET f == pte[SpaceOf(t)][CurPage(t)] IN
    /\ At(t, "pfree")
    /\ st[t].left > 0
    \* the ASSERT of memory.c 873 / 889-891 (AssertionsHold)
    /\ InPool(f, FreePool(t))
    /\ SetFrameBit(f, 0)
    /\ Goto(t, "unmap")
    /\ UNCHANGED <<vaddr_bitmap, pte, pde, holder, owned, halt>>

\* Mutant: the leaf entry is left present (page_table_pte_remove skipped).
PteRemove(t) ==
    /\ At(t, "unmap")
    /\ pte' = [pte EXCEPT ![SpaceOf(t)][CurPage(t)] = NoFrame]
    /\ st' = [st EXCEPT ![t].left = @ - 1, ![t].pc = "pfree"]
    /\ UNCHANGED <<pool_bitmap, vaddr_bitmap, pde, holder, owned, halt>>

\* Mutant: vaddr_remove clears one page too few.
FreeDoneShort(t) ==
    /\ At(t, "pfree")
    /\ st[t].left = 0
    /\ vaddr_bitmap' = [vaddr_bitmap EXCEPT ![SpaceOf(t)] =
           [v \in VPages(SpaceOf(t)) |->
               IF v \in st[t].vaddr .. st[t].vaddr + st[t].cnt - 2 THEN 0 ELSE @[v]]]
    /\ lock_release(t, PoolOf(t))
    /\ st' = [st EXCEPT ![t] = Idle]
    /\ UNCHANGED <<pool_bitmap, pte, pde, owned, halt>>

\* vaddr_remove (memory.c 837-853), with sys_free's lock_release (987)
\* in the same step: mfree_page returns straight to it.
FreeDone(t) ==
    /\ At(t, "pfree")
    /\ st[t].left = 0
    /\ vaddr_bitmap' = [vaddr_bitmap EXCEPT ![SpaceOf(t)] =
           [v \in VPages(SpaceOf(t)) |->
               IF v \in st[t].vaddr .. st[t].vaddr + st[t].cnt - 1 THEN 0 ELSE @[v]]]
    /\ lock_release(t, PoolOf(t))
    /\ st' = [st EXCEPT ![t] = Idle]
    /\ UNCHANGED <<pool_bitmap, pte, pde, owned, halt>>

-----------------------------------------------------------------------------
\* panic_spin: the halted kernel loops for ever.
PanicSpin ==
    /\ halt # Running
    /\ UNCHANGED vars

Step(t) ==
    \/ \E n \in PageCounts : SysMallocLarge(t, n)
    \/ MallocLock(t) \/ VaddrScan(t) \/ VaddrSet(t) \/ MallocFail(t)
    \/ PallocScan(t) \/ MallocPageNull(t) \/ (At(t, "pset") /\ PallocSet(t, "ptadd"))
    \/ PageTableAdd(t) \/ PtAllocScan(t) \/ PtAllocNull(t) \/ PtAllocSet(t) \/ PtWrite(t)
    \/ MallocDone(t)
    \/ StartProcess(t) \/ GetAPageSet(t) \/ GetAPageDone(t)
    \/ \E blk \in owned[t] : SysFreeLarge(t, blk)
    \/ FreeLock(t) \/ Pfree(t) \/ PteRemove(t) \/ FreeDone(t)

Next == (\E t \in Threads : Step(t)) \/ PanicSpin

Spec == Init /\ [][Next]_vars

(***************************************************************************)
(* A thread inside a call is never blocked except in lock_acquire, and it *)
(* holds no lock there; the timer's round robin (schedule, module Sync,   *)
(* ReadyEventuallyRuns) gives every READY thread the CPU.  So each busy   *)
(* thread's steps are weakly fair.  An idle thread need not call again.   *)
(***************************************************************************)
Busy(t) == st[t].pc # "idle" /\ Step(t)

FairSpec == Spec /\ \A t \in Threads : WF_vars(Busy(t))

-----------------------------------------------------------------------------
PCs == {"idle", "start", "gaset", "lock", "vscan", "vset", "fail", "palloc", "pset",
        "ptadd", "ptset", "ptwrite", "malloc", "getapage", "flock", "pfree", "unmap"}
Ops == {"none", "malloc", "getapage", "free"}

TypeOK ==
    /\ pool_bitmap \in [Pools -> UNION {[0 .. n - 1 -> {0, 1}] : n \in {KFrames, UFrames}}]
    /\ \A s \in Spaces : vaddr_bitmap[s] \in [VPages(s) -> {0, 1}]
    /\ \A s \in Spaces : pte[s] \in [VPages(s) -> Frames \cup {NoFrame}]
    /\ pde \in [UProcs -> [Dirs -> Frames \cup {NoFrame, PhysPage0}]]
    /\ holder \in [Pools -> Threads \cup {NoThread}]
    /\ \A t \in Threads :
         /\ st[t].pc \in PCs
         /\ st[t].op \in Ops \cup (Ops \X (Frames \cup {PhysPage0}))
         /\ st[t].vaddr \in VPages(SpaceOf(t))
         /\ st[t].cnt \in 0 .. Cardinality(VPages(SpaceOf(t)))
         /\ st[t].left \in 0 .. st[t].cnt
         /\ st[t].frame \in Frames \cup {NoFrame}
    /\ \A t \in Threads : owned[t] \subseteq VPages(SpaceOf(t)) \X PageCounts
    /\ halt \in {Running} \cup Halts

FrameBit(f) ==
    IF f >= phy_addr_start.user_pool
    THEN pool_bitmap.user_pool[f - phy_addr_start.user_pool]
    ELSE pool_bitmap.kernel_pool[f]

\* Everything that refers to frame f: leaf entries, user page tables, and
\* frames a thread has claimed in the bitmap and not yet written to a table.
Users(f) ==
    UNION {{<<"pte", s, v>> : v \in {u \in VPages(s) : pte[s][u] = f}} : s \in Spaces}
    \cup UNION {{<<"pde", p, d>> : d \in {e \in Dirs : pde[p][e] = f}} : p \in UProcs}
    \cup {<<"claim", t, "data">> : t \in {x \in Threads : st[x].pc \in {"ptadd", "ptset", "ptwrite"}
                                                     /\ st[x].frame = f}}
    \cup {<<"claim", t, "table">> : t \in {x \in Threads : st[x].pc = "ptwrite" /\ st[x].op[2] = f}}

\* The leaf entry a thread between pfree and page_table_pte_remove still holds.
Releasing ==
    {<<"pte", SpaceOf(t), CurPage(t)>> : t \in {x \in Threads : st[x].pc = "unmap"}}

PoolFrameSet(pl) == phy_addr_start[pl] .. phy_addr_start[pl] + PoolFrames(pl) - 1

(***************************************************************************)
(* No frame of kernel_pool is handed out twice: at most one leaf entry,    *)
(* user page table or in-flight claim refers to it.  Kernel threads claim  *)
(* kernel frames under kernel_pool.lock; page_table_add claims them for    *)
(* user page tables under whatever lock its caller holds.                  *)
(***************************************************************************)
KernelFramesExclusive ==
    \A f \in PoolFrameSet("kernel_pool") : Cardinality(Users(f)) <= 1

\* The same for user_pool, whose frames are claimed under user_pool.lock.
UserFramesExclusive ==
    \A f \in PoolFrameSet("user_pool") : Cardinality(Users(f)) <= 1

(***************************************************************************)
(* The pool bitmaps account exactly for the frames in use: a bit is set    *)
(* iff something refers to the frame (apart from the entry mfree_page is   *)
(* about to remove after pfree), so no frame leaks and none is freed while *)
(* still in use, across palloc, page_table_add, pfree and pte_remove of    *)
(* interleaved threads.                                                    *)
(***************************************************************************)
FrameAccounting ==
    \A f \in Frames : FrameBit(f) = 1 <=> Users(f) \ Releasing # {}

Block(b) == b[1] .. b[1] + b[2] - 1

\* The virtual pages thread t has reserved and not yet returned.
CallOp(t) == IF st[t].op \in Ops THEN st[t].op ELSE st[t].op[1]

\* (get_a_page's page is the stack reservation below.)
InFlight(t) ==
    IF CallOp(t) # "getapage" /\ st[t].pc \in {"palloc", "pset", "ptadd", "ptset", "ptwrite", "malloc",
                     "getapage", "flock", "pfree", "unmap"}
    THEN {<<t, "call", st[t].vaddr, st[t].cnt>>} ELSE {}

\* Every reservation in space s: blocks owned, calls in flight, user stacks.
Reservations(s) ==
    UNION {{<<t, "block", b[1], b[2]>> : b \in owned[t]} \cup InFlight(t) :
              t \in {x \in Threads : SpaceOf(x) = s}}
    \cup (IF s \in UProcs /\ st[s].pc \notin {"start", "gaset"}
          THEN {<<s, "stack", StackPage, 1>>} ELSE {})

(***************************************************************************)
(* The virtual trackers account exactly for reservations: reservations in *)
(* one space never overlap, and a tracker bit is set iff its page belongs *)
(* to one (vaddr_get, get_a_page and vaddr_remove across threads).         *)
(***************************************************************************)
VirtualAccounting ==
    \A s \in Spaces :
        /\ \A r1, r2 \in Reservations(s) :
              r1 # r2 => Block(<<r1[3], r1[4]>>) \cap Block(<<r2[3], r2[4]>>) = {}
        /\ \A v \in VPages(s) :
              vaddr_bitmap[s][v] = 1 <=> \E r \in Reservations(s) : v \in Block(<<r[3], r[4]>>)

(***************************************************************************)
(* The page tables map only what is live: every page of a block sys_malloc *)
(* returned translates (addr_v2p) to a frame of the caller's pool, every   *)
(* present leaf entry lies in a reservation of its space (a block owned,   *)
(* a call in progress, the user stack), and every directory entry of a     *)
(* user half names a frame of kernel_pool.  A failed call that leaves its  *)
(* mappings behind, or a table placed outside the pool, breaks it.         *)
(***************************************************************************)
MappingsConsistent ==
    /\ \A t \in Threads : \A b \in owned[t] : \A v \in Block(b) :
          pte[SpaceOf(t)][v] \in PoolFrameSet(PoolOf(t))
    /\ \A s \in Spaces : \A v \in VPages(s) :
          pte[s][v] # NoFrame => \E r \in Reservations(s) : v \in Block(<<r[3], r[4]>>)
    /\ \A p \in UProcs : \A d \in Dirs :
          pde[p][d] \in PoolFrameSet("kernel_pool") \cup {NoFrame}
(***************************************************************************)
(* The ASSERTs of the page paths never fire: page_table_add never finds   *)
(* the leaf entry of the page it maps already present (memory.c 161 and   *)
(* PANIC "pte repeat"), and each page mfree_page frees maps a frame of    *)
(* the pool its first page selected (memory.c 873, 889-891).  Both depend *)
(* on vaddr_get, get_a_page and vaddr_remove of all threads agreeing.     *)
(***************************************************************************)
AssertionsHold ==
    \A t \in Threads :
        /\ st[t].pc = "ptadd" /\ PdePresent(t, CurPage(t))
              => pte[SpaceOf(t)][CurPage(t)] = NoFrame
        /\ st[t].pc = "pfree" /\ st[t].left > 0
              => InPool(pte[SpaceOf(t)][CurPage(t)], FreePool(t))

(***************************************************************************)
(* Every pool lock a thread takes is released again: each path of         *)
(* sys_malloc, get_a_page and sys_free, the NULL returns of vaddr_get and *)
(* palloc included (memory.c 726-728, 308-310), ends in lock_release.  A  *)
(* path that returned with the lock held would block every other thread  *)
(* of that pool for ever.                                                 *)
(***************************************************************************)
PoolLocksReleased ==
    \A pl \in Pools, t \in Threads : holder[pl] = t ~> holder[pl] # t
=============================================================================
