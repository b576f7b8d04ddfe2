------------------------------ MODULE MemLayout ------------------------------
(***************************************************************************)
(* The boot-time layout of physical memory (mem_init and mem_pool_init of  *)
(* src/kernel/memory.c): from the memory size the loader leaves at 0xb00,  *)
(* the kernel reserves the low 1 MiB and 256 pages of page tables, splits  *)
(* the remaining pages between kernel_pool and user_pool, and places the   *)
(* two pool bitmaps and the kernel_vaddr bitmap from MEM_BITMAP_BASE on.   *)
(*                                                                         *)
(* The arithmetic keeps the C types where they bite: the page counts are  *)
(* uint16_t, so every assignment to them is taken modulo 2^16.  The byte   *)
(* counts are uint32_t; for the sizes of MemSizes (from used_mem up to     *)
(* 2 GiB, the ASSUME) no byte count wraps, and TLC's integers hold them.   *)
(* Bitmap addresses are kept as offsets from MEM_BITMAP_BASE.  The layout  *)
(* is computed once and never changes.                                    *)
(***************************************************************************)
EXTENDS Integers

CONSTANT MemSizes   \* the values mem_bytes_total can have

PG_SIZE == 4096

uint16(x) == x % 2^16

\* The page-table area and the low 1 MiB (memory.c 497-505).
used_mem == PG_SIZE * 256 + 1048576

ASSUME MemSizes \subseteq used_mem .. 2147483647

\* mem_pool_init (memory.c 494-659) without its put_str/put_int output:
\* the pools and the three bitmaps it fills in.
mem_pool_init(all_mem) ==
    LET free_mem          == all_mem - used_mem
        all_free_pages    == uint16(free_mem \div PG_SIZE)
        kernel_free_pages == all_free_pages \div 2
        user_free_pages   == uint16(all_free_pages - kernel_free_pages)
        kbm_length        == kernel_free_pages \div 8
        ubm_length        == user_free_pages \div 8
    IN [k_start  |-> used_mem,
        u_start  |-> used_mem + kernel_free_pages * PG_SIZE,
        k_size   |-> kernel_free_pages * PG_SIZE,
        u_size   |-> user_free_pages * PG_SIZE,
        k_bits   |-> 0,
        k_len    |-> kbm_length,
        u_bits   |-> kbm_length,
        u_len    |-> ubm_length,
        v_bits   |-> kbm_length + ubm_length,
        v_len    |-> kbm_length]

VARIABLES
    mem_bytes_total,    \* *(uint32_t*)0xb00
    layout              \* kernel_pool, user_pool and kernel_vaddr after mem_init

vars == <<mem_bytes_total, layout>>

\* mem_init (memory.c 1006-1018) reads the size and lays the pools out.
Init ==
    /\ mem_bytes_total \in MemSizes
    /\ layout = mem_pool_init(mem_bytes_total)

\* After boot the layout is fixed.
Next == UNCHANGED vars

Spec == Init /\ [][Next]_vars

-----------------------------------------------------------------------------
(* Properties.                                                           *)

\* The pages each pool's bitmap manages: one bit per page.
Managed(len) == len * 8

\* The free pages of the machine, counted without the C types.
FreePagesExact == (mem_bytes_total - used_mem) \div PG_SIZE

\* The pools manage all free memory but the remainder the comment at
\* memory.c 522-523 accepts (pages past the last whole bitmap byte, fewer
\* than 8 per pool), for every size up to the 512 MiB the comment at
\* memory.c 14-16 says the four bitmap pages support.
PoolsCoverFreeMemory ==
    Managed(layout.k_len) + Managed(layout.u_len) > FreePagesExact - 16

=============================================================================
