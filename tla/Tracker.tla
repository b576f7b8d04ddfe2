------------------------------- MODULE Tracker ------------------------------
(***************************************************************************)
(* One virtual space tracker (struct virtual_addr) of src/kernel/memory.c: *)
(* vaddr_get reserves pg_cnt consecutive pages by bitmap_scan followed by  *)
(* a bitmap_set loop, vaddr_remove releases them.  The caller's lock makes *)
(* each of them one step here (the concurrent composition is PageAlloc).   *)
(*                                                                         *)
(* runs is a history variable: the <<start, cnt>> ranges handed out and    *)
(* not yet released, i.e. what the callers of vaddr_get own.               *)
(***************************************************************************)
EXTENDS Integers, FiniteSets, Bitmap

CONSTANTS
    Len,      \* btmp_bytes_len of the bitmap
    Counts,   \* the pg_cnt values callers request
    Beyond    \* the possible values of the bit just past the bitmap

ASSUME Len \in Nat \ {0} /\ Counts \subseteq Nat \ {0} /\ Beyond \subseteq {0, 1}

VARIABLES bits, beyond, runs

vars == <<bits, beyond, runs>>

Bits == 0 .. Len * BitsPerByte - 1

RunPages(r) == r[1] .. r[1] + r[2] - 1

Init ==
    /\ bits = bitmap_init(Len)
    /\ beyond \in Beyond
    /\ runs = {}

\* Mutant: the NULL (-1) result of the scan is not checked.
vaddr_get_unchecked(cnt) ==
    LET bit_idx_start == bitmap_scan(bits, Len, beyond, cnt)
    IN  /\ bits' = [i \in Bits |->
                      IF i \in bit_idx_start .. bit_idx_start + cnt - 1
                      THEN 1 ELSE bits[i]]
        /\ beyond' = IF Len * BitsPerByte \in RunPages(<<bit_idx_start, cnt>>)
                     THEN 1 ELSE beyond
        /\ runs' = runs \cup {<<bit_idx_start, cnt>>}

(***************************************************************************)
(* vaddr_get(PF_KERNEL, pg_cnt), memory.c 79-92 and 109: a scan that       *)
(* returns -1 gives NULL and changes nothing; otherwise the run is set.    *)
(***************************************************************************)
vaddr_get(cnt) ==
    LET bit_idx_start == bitmap_scan(bits, Len, beyond, cnt)
    IN  /\ bit_idx_start >= 0
        /\ bits' = [i \in Bits |->
                      IF i \in bit_idx_start .. bit_idx_start + cnt - 1
                      THEN 1 ELSE bits[i]]
        /\ beyond' = IF Len * BitsPerByte \in RunPages(<<bit_idx_start, cnt>>)
                     THEN 1 ELSE beyond
        /\ runs' = runs \cup {<<bit_idx_start, cnt>>}

\* Mutant: the clearing loop stops one bit early (cnt < pg_cnt - 1).
vaddr_remove_short(r) ==
    /\ bits' = [i \in Bits |-> IF i \in r[1] .. r[1] + r[2] - 2 THEN 0 ELSE bits[i]]
    /\ runs' = runs \ {r}
    /\ UNCHANGED beyond

\* vaddr_remove(PF_KERNEL, vaddr, pg_cnt), memory.c 837-845, of a run the caller owns.
vaddr_remove(r) ==
    /\ bits' = [i \in Bits |-> IF i \in RunPages(r) THEN 0 ELSE bits[i]]
    /\ runs' = runs \ {r}
    /\ UNCHANGED beyond

Next ==
    \/ \E cnt \in Counts : vaddr_get(cnt)
    \/ \E r \in runs : vaddr_remove(r)

Spec == Init /\ [][Next]_vars

-----------------------------------------------------------------------------
TypeOK ==
    /\ bits \in [Bits -> {0, 1}]
    /\ beyond \in {0, 1}
    /\ runs \subseteq (Nat \X Counts)

\* bitmap_scan of a bitmap b of len bytes agrees with first fit.
ScanAgrees(b, len, bey) ==
    \A cnt \in Counts :
        LET r == bitmap_scan(b, len, bey, cnt)
        IN  /\ r >= 0 => r = FirstFit(b, len, cnt)
            /\ r = NotFound => FirstFit(b, len, cnt) = NotFound

\* The tracker's bitmap followed by one more byte, next.
Extended(next) ==
    [i \in 0 .. (Len + 1) * BitsPerByte - 1 |-> IF i \in Bits THEN bits[i] ELSE next[i]]

(***************************************************************************)
(* bitmap_scan is first fit: whatever the bitmap, when it returns an index *)
(* that index is the lowest start of a free run of cnt bits, and when it   *)
(* returns NotFound no such run exists (bitmap.c 39-86 against spec 4.1).  *)
(* Checked on the tracker's bitmap, and on every bitmap one byte longer    *)
(* that starts with it: runs then cross the byte boundary and the          *)
(* byte-skip loop advances.  vaddr_get(1) and vaddr_remove reach every     *)
(* bitmap of Len bytes, so every bitmap of Len + 1 bytes is checked.       *)
(***************************************************************************)
ScanIsFirstFit ==
    /\ ScanAgrees(bits, Len, beyond)
    /\ \A next \in [Len * BitsPerByte .. (Len + 1) * BitsPerByte - 1 -> {0, 1}] :
          ScanAgrees(Extended(next), Len + 1, 1)

(***************************************************************************)
(* A run returned by bitmap_scan lies inside the bitmap.  The walk of      *)
(* bitmap.c 66-84 runs bit_left = len*8 - start times from start+1, so its *)
(* last test is of bit len*8, one past the end.                            *)
(***************************************************************************)
ScanStaysInBitmap ==
    \A cnt \in Counts :
        LET r == bitmap_scan(bits, Len, beyond, cnt)
        IN  r >= 0 => r + cnt <= Len * BitsPerByte

(***************************************************************************)
(* The bitmap accounts exactly for what callers own: reserved runs are     *)
(* pairwise disjoint and a bit is set iff it belongs to one of them, so    *)
(* vaddr_remove(vaddr_get(n)) restores the bitmap (spec 8, first and       *)
(* third properties) after any sequence of reservations and releases.     *)
(***************************************************************************)
RunsMatchBitmap ==
    /\ \A r1, r2 \in runs : r1 # r2 => RunPages(r1) \cap RunPages(r2) = {}
    /\ \A i \in Bits : bits[i] = 1 <=> \E r \in runs : i \in RunPages(r)
=============================================================================
