--------------------------------- MODULE Pid ---------------------------------
(***************************************************************************)
(* allocate_pid of src/thread/thread.c, reached from init_thread (every    *)
(* thread_start) and from fork_pid.  The static next_pid is incremented    *)
(* under pid_lock, and the value returned is read by "return next_pid"     *)
(* after lock_release.                                                    *)
(*                                                                         *)
(* pid_lock is a struct lock; module Sync shows that lock_acquire and      *)
(* lock_release implement ReentrantLock, so the lock is used here in that  *)
(* form (INSTANCE ... WITH).  Callers are preemptible threads: the timer   *)
(* may switch them between any two statements.                            *)
(*                                                                         *)
(* Whether "return next_pid" reads memory again after the call to          *)
(* lock_release, or returns the value the increment left in a register,    *)
(* depends on how the kernel is compiled (without optimisation it reads    *)
(* memory).  Build is chosen once, in Init, among the two outcomes.       *)
(***************************************************************************)
EXTENDS Integers, Sequences, SequencesExt

CONSTANTS
    Callers,    \* threads that call allocate_pid
    NoThread,   \* pid_lock free
    MaxCalls    \* bound on the calls of allocate_pid

ASSUME NoThread \notin Callers /\ MaxCalls \in Nat

Builds == {"reload", "register"}

VARIABLES
    build,      \* how "return next_pid" is compiled
    next_pid,   \* the static next_pid
    owner,      \* pid_lock's owner, as ReentrantLock sees it
    depth,      \* pid_lock's depth
    pc,         \* pc[t]: "idle", "inc", "rel" or "ret"
    reg,        \* reg[t]: next_pid as t's increment left it
    returned    \* the pids allocate_pid has returned, in order

vars == <<build, next_pid, owner, depth, pc, reg, returned>>

PidLock == INSTANCE ReentrantLock
               WITH Threads <- Callers, owner <- owner, depth <- depth

\* thread_init's lock_init(&pid_lock) (thread.c 475) and next_pid = 0.
Init ==
    /\ build \in Builds
    /\ next_pid = 0
    /\ PidLock!Init
    /\ pc = [t \in Callers |-> "idle"]
    /\ reg = [t \in Callers |-> 0]
    /\ returned = <<>>

\* allocate_pid entered: lock_acquire(&pid_lock) (thread.c 95-97); a held
\* lock keeps the caller waiting.
lock_pid(t) ==
    /\ pc[t] = "idle"
    /\ Len(returned) + Cardinality({u \in Callers : pc[u] # "idle"}) < MaxCalls
    /\ PidLock!Acquire(t)
    /\ pc' = [pc EXCEPT ![t] = "inc"]
    /\ UNCHANGED <<build, next_pid, reg, returned>>

\* next_pid++ (thread.c 99).
inc_pid(t) ==
    /\ pc[t] = "inc"
    /\ next_pid' = next_pid + 1
    /\ reg' = [reg EXCEPT ![t] = next_pid + 1]
    /\ pc' = [pc EXCEPT ![t] = "rel"]
    /\ UNCHANGED <<build, owner, depth, returned>>

\* lock_release(&pid_lock) (thread.c 115).
unlock_pid(t) ==
    /\ pc[t] = "rel"
    /\ PidLock!Release(t)
    /\ pc' = [pc EXCEPT ![t] = "ret"]
    /\ UNCHANGED <<build, next_pid, reg, returned>>

\* return next_pid (thread.c 116).
return_pid(t) ==
    /\ pc[t] = "ret"
    /\ returned' = Append(returned,
                          IF build = "reload" THEN next_pid ELSE reg[t])
    /\ pc' = [pc EXCEPT ![t] = "idle"]
    /\ UNCHANGED <<build, next_pid, owner, depth, reg>>

Next ==
    \E t \in Callers :
        lock_pid(t) \/ inc_pid(t) \/ unlock_pid(t) \/ return_pid(t)

Spec == Init /\ [][Next]_vars

-----------------------------------------------------------------------------
(* Properties.                                                           *)

\* Every call of allocate_pid returns a pid no other call returned: the
\* comment at thread.c 100-113 explains that next_pid++ is put under the
\* lock so that two threads never get the same pid.
PidsUnique == IsInjective(returned)
=============================================================================
