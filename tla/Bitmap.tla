------------------------------- MODULE Bitmap -------------------------------
(***************************************************************************)
(* The bitmap engine of src/lib/kernel/bitmap.c as pure operators.         *)
(*                                                                         *)
(* A bitmap of len bytes is a function from 0 .. len*8-1 to {0,1}; bit i   *)
(* lives in byte i \div 8 at position i % 8 (BITMAP_MASK << bit_odd).      *)
(* bitmap_scan reads one bit past the end of the array (bit len*8, the     *)
(* first bit of the byte after the bitmap); that byte is not part of the   *)
(* bitmap, so its value is the parameter "beyond".                         *)
(*                                                                         *)
(* ASSERT is active (debug.h without NDEBUG), so a failed ASSERT is the    *)
(* outcome Panic.                                                          *)
(***************************************************************************)
EXTENDS Integers, FiniteSetsExt

BITMAP_MASK == 1
BitsPerByte == 8

\* Results of bitmap_scan other than a bit index.
NotFound == -1
Panic    == -2

\* bitmap_init: all bits zero.
bitmap_init(len) == [i \in 0 .. len * BitsPerByte - 1 |-> 0]

\* bitmap_scan_test: the bit, where a read past the bitmap sees "beyond".
bitmap_scan_test(bits, len, beyond, bit_idx) ==
    IF bit_idx < len * BitsPerByte THEN bits[bit_idx] = BITMAP_MASK
                                   ELSE beyond = BITMAP_MASK

ByteFull(bits, b) == \A k \in 0 .. BitsPerByte - 1 : bits[b * BitsPerByte + k] = 1

\* Mutant: a set bit does not reset the count of consecutive zeros.
bitmap_scan_noreset(bits, len, beyond, cnt) ==
    LET RECURSIVE SkipFull(_), FirstZero(_, _), Walk(_, _, _)
        SkipFull(b) == IF b < len /\ ByteFull(bits, b) THEN SkipFull(b + 1) ELSE b
        FirstZero(b, k) == IF bits[b * BitsPerByte + k] = 1 THEN FirstZero(b, k + 1) ELSE k
        Walk(bit_left, next_bit, count) ==
            IF bit_left = 0 THEN NotFound
            ELSE LET c == IF bitmap_scan_test(bits, len, beyond, next_bit)
                          THEN count ELSE count + 1
                 IN  IF c = cnt THEN next_bit - cnt + 1
                                ELSE Walk(bit_left - 1, next_bit + 1, c)
        idx_byte == SkipFull(0)
    IN  IF idx_byte = len THEN Panic
        ELSE LET start == idx_byte * BitsPerByte + FirstZero(idx_byte, 0)
             IN  IF cnt = 1 THEN start
                 ELSE Walk(len * BitsPerByte - start, start + 1, 1)

(***************************************************************************)
(* bitmap_scan(btmp, cnt): skip bytes equal to 0xff; ASSERT that one was   *)
(* found; take the first zero bit of that byte; for cnt = 1 return it;     *)
(* otherwise walk bit_left = len*8 - start more bits from start+1,         *)
(* counting consecutive zeros and resetting the count on a one.            *)
(***************************************************************************)
bitmap_scan(bits, len, beyond, cnt) ==
    LET RECURSIVE SkipFull(_), FirstZero(_, _), Walk(_, _, _)
        SkipFull(b) == IF b < len /\ ByteFull(bits, b) THEN SkipFull(b + 1) ELSE b
        FirstZero(b, k) == IF bits[b * BitsPerByte + k] = 1 THEN FirstZero(b, k + 1) ELSE k
        Walk(bit_left, next_bit, count) ==
            IF bit_left = 0 THEN NotFound
            ELSE LET c == IF bitmap_scan_test(bits, len, beyond, next_bit)
                          THEN 0 ELSE count + 1
                 IN  IF c = cnt THEN next_bit - cnt + 1
                                ELSE Walk(bit_left - 1, next_bit + 1, c)
        idx_byte == SkipFull(0)
    IN  IF idx_byte = len THEN Panic
        ELSE LET start == idx_byte * BitsPerByte + FirstZero(idx_byte, 0)
             IN  IF cnt = 1 THEN start
                 ELSE Walk(len * BitsPerByte - start, start + 1, 1)

\* bitmap_set(btmp, bit_idx, value) for value in {0,1}.
bitmap_set(bits, bit_idx, value) == [bits EXCEPT ![bit_idx] = value]

(***************************************************************************)
(* Reference: the first-fit run the spec promises (lowest start of cnt     *)
(* consecutive zero bits inside the bitmap), or NotFound.                  *)
(***************************************************************************)
FirstFitBits(bits, nbits, cnt) ==
    LET fits == {s \in 0 .. nbits - cnt : \A i \in s .. s + cnt - 1 : bits[i] = 0}
    IN  IF fits = {} THEN NotFound ELSE Min(fits)

FirstFit(bits, len, cnt) == FirstFitBits(bits, len * BitsPerByte, cnt)
=============================================================================
