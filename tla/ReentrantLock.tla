---------------------------- MODULE ReentrantLock ----------------------------
(***************************************************************************)
(* The contract of struct lock that memory.c relies on (lock_acquire and  *)
(* lock_release of src/thread/sync.c): a lock has one owner at a time, the *)
(* owner may acquire it again, and it is free once the owner has released  *)
(* it as many times as it acquired it.  Each operation is one atomic step; *)
(* module PageAlloc uses the lock in this form, and module Sync shows that *)
(* the semaphore-based implementation under the scheduler refines it.     *)
(***************************************************************************)
EXTENDS Naturals

CONSTANTS Threads, NoThread

VARIABLES owner, depth

Init == owner = NoThread /\ depth = 0

\* lock_acquire: taken when free, or again by its owner.
Acquire(t) ==
    /\ owner \in {NoThread, t}
    /\ owner' = t
    /\ depth' = depth + 1

\* lock_release by the owner; the last release frees the lock.
Release(t) ==
    /\ owner = t
    /\ depth' = depth - 1
    /\ owner' = IF depth = 1 THEN NoThread ELSE t

Next == \E t \in Threads : Acquire(t) \/ Release(t)

Spec == Init /\ [][Next]_<<owner, depth>>
=============================================================================
