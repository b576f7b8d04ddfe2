-------------------------------- MODULE Sync --------------------------------
(***************************************************************************)
(* One struct lock of src/thread/sync.c (the pool locks of memory.c are    *)
(* such locks) used by kernel threads on the single CPU of                 *)
(* src/thread/thread.c: a running thread, the ready list, and the timer    *)
(* interrupt that preempts the running thread whenever interrupts are on.  *)
(*                                                                         *)
(* A thread runs only when it is cur.  sema_down and sema_up run with      *)
(* interrupts off, so one iteration of the sema_down loop, and the whole   *)
(* of sema_up, is one step; thread_block switches to the head of the ready *)
(* list inside that step (schedule), and the blocked thread resumes inside *)
(* the loop with interrupts still off.  The statements of lock_acquire     *)
(* and lock_release outside the semaphore run with interrupts on, so the   *)
(* timer may fall between any two of them.                                *)
(*                                                                         *)
(* Each thread loops: outside the lock ("ncs"), lock_acquire, inside it    *)
(* ("cs") where it may call lock_acquire again (up to MaxNest deep), and   *)
(* lock_release.                                                          *)
(***************************************************************************)
EXTENDS Integers, Sequences, SequencesExt

CONSTANTS
    Threads,    \* kernel threads using the lock
    NoThread,   \* holder == NULL
    MaxNest     \* bound on holder_repeat_nr

ASSUME NoThread \notin Threads /\ MaxNest \in Nat \ {0}

\* The statements of lock_release after its holder_repeat_nr > 1 test, in
\* program order (sync.c 125-127).
release_order_up_first == <<"up", "holder", "nr">>

release_order == <<"holder", "nr", "up">>

RelPc == {"rel2", "rel3"}
Pcs == {"ncs", "sd", "sd_wait", "acq_holder", "acq_nr", "cs"} \cup RelPc
Status == {"RUNNING", "READY", "BLOCKED"}

VARIABLES
    pc,                 \* pc[t]: where thread t is
    cur,                \* running_thread()
    status,             \* status[t]: task_struct status
    ready,              \* thread_ready_list
    value,              \* semaphore.value
    waiters,            \* semaphore.waiters
    holder,             \* lock.holder
    holder_repeat_nr    \* lock.holder_repeat_nr

sched == <<cur, status, ready>>
vars == <<pc, cur, status, ready, value, waiters, holder, holder_repeat_nr>>

\* lock_init (sync.c 15-19) and the threads made by thread_start: one runs,
\* the others wait on the ready list in some order.
Init ==
    /\ pc = [t \in Threads |-> "ncs"]
    /\ cur \in Threads
    /\ ready \in SetToSeqs(Threads \ {cur})
    /\ status = [t \in Threads |-> IF t = cur THEN "RUNNING" ELSE "READY"]
    /\ value = 1
    /\ waiters = <<>>
    /\ holder = NoThread
    /\ holder_repeat_nr = 0

Runs(t) == cur = t

-----------------------------------------------------------------------------
(* The scheduler (thread.c).                                              *)

\* thread_block(TASK_BLOCKED) then schedule (thread.c 340-349, 258-301):
\* the running thread leaves the CPU and the head of the ready list runs.
Block(t) ==
    /\ ready # <<>>
    /\ cur' = Head(ready)
    /\ ready' = Tail(ready)
    /\ status' = [status EXCEPT ![t] = "BLOCKED", ![Head(ready)] = "RUNNING"]

TickPushFront ==
    /\ pc[cur] # "sd_wait"
    /\ ready # <<>>
    /\ cur' = Head(ready)
    /\ ready' = <<cur>> \o Tail(ready)
    /\ status' = [status EXCEPT ![cur] = "READY", ![Head(ready)] = "RUNNING"]
    /\ UNCHANGED <<pc, value, waiters, holder, holder_repeat_nr>>

\* The timer interrupt at the end of a time slice: schedule appends the
\* running thread to the ready list and runs the head.  It cannot fall
\* inside sema_down or sema_up, which run with interrupts off; a thread
\* resumed in "sd_wait" is inside sema_down.
Tick ==
    /\ pc[cur] # "sd_wait"
    /\ ready # <<>>
    /\ cur' = Head(ready)
    /\ ready' = Append(Tail(ready), cur)
    /\ status' = [status EXCEPT ![cur] = "READY", ![Head(ready)] = "RUNNING"]
    /\ UNCHANGED <<pc, value, waiters, holder, holder_repeat_nr>>

thread_unblock_nostatus(w) ==
    /\ ready' = <<w>> \o ready
    /\ UNCHANGED status

\* thread_unblock (thread.c 355-370): the thread goes to the FRONT of the
\* ready list (list_push).
thread_unblock(w) ==
    /\ ready' = <<w>> \o ready
    /\ status' = [status EXCEPT ![w] = "READY"]

-----------------------------------------------------------------------------
(* The semaphore and the lock (sync.c).                                   *)

\* lock_acquire's test (sync.c 90-98): the holder takes the lock again by
\* counting; any other thread goes to sema_down.
lock_acquire(t) ==
    /\ Runs(t)
    /\ pc[t] \in {"ncs", "cs"}
    /\ pc[t] = "cs" => holder_repeat_nr < MaxNest
    /\ IF holder # t
         THEN /\ pc' = [pc EXCEPT ![t] = "sd"]
              /\ UNCHANGED holder_repeat_nr
         ELSE /\ holder_repeat_nr' = holder_repeat_nr + 1
              /\ pc' = [pc EXCEPT ![t] = "cs"]
    /\ UNCHANGED <<sched, value, waiters, holder>>

sema_down_if(t) ==
    /\ Runs(t)
    /\ pc[t] \in {"sd", "sd_wait"}
    /\ IF value = 0 /\ pc[t] = "sd"
         THEN /\ waiters' = Append(waiters, t)
              /\ Block(t)
              /\ pc' = [pc EXCEPT ![t] = "sd_wait"]
              /\ UNCHANGED value
         ELSE /\ value' = value - 1
              /\ pc' = [pc EXCEPT ![t] = "acq_holder"]
              /\ UNCHANGED <<sched, waiters>>
    /\ UNCHANGED <<holder, holder_repeat_nr>>

\* One iteration of sema_down's loop (sync.c 23-41), first or after being
\* woken: value 0 puts the thread at the tail of waiters and blocks it;
\* otherwise it takes the value.
sema_down(t) ==
    /\ Runs(t)
    /\ pc[t] \in {"sd", "sd_wait"}
    /\ IF value = 0
         THEN /\ waiters' = Append(waiters, t)
              /\ Block(t)
              /\ pc' = [pc EXCEPT ![t] = "sd_wait"]
              /\ UNCHANGED value
         ELSE /\ value' = value - 1
              /\ pc' = [pc EXCEPT ![t] = "acq_holder"]
              /\ UNCHANGED <<sched, waiters>>
    /\ UNCHANGED <<holder, holder_repeat_nr>>

\* plock->holder = running_thread() (sync.c 92).
AcqHolder(t) ==
    /\ Runs(t)
    /\ pc[t] = "acq_holder"
    /\ holder' = t
    /\ pc' = [pc EXCEPT ![t] = "acq_nr"]
    /\ UNCHANGED <<sched, value, waiters, holder_repeat_nr>>

\* plock->holder_repeat_nr = 1 (sync.c 94).
AcqNr(t) ==
    /\ Runs(t)
    /\ pc[t] = "acq_nr"
    /\ holder_repeat_nr' = 1
    /\ pc' = [pc EXCEPT ![t] = "cs"]
    /\ UNCHANGED <<sched, value, waiters, holder>>

sema_up_nowake ==
    /\ value' = value + 1
    /\ UNCHANGED <<cur, waiters, ready, status>>

\* sema_up (sync.c 65-77): the first waiter, if any, is unblocked, and the
\* value goes back to 1.
sema_up ==
    /\ IF waiters # <<>>
         THEN /\ waiters' = Tail(waiters)
              /\ thread_unblock(Head(waiters))
         ELSE UNCHANGED <<waiters, ready, status>>
    /\ value' = value + 1
    /\ UNCHANGED cur

\* One statement of lock_release (sync.c 125-127).
ReleaseStmt(s) ==
    CASE s = "holder" -> /\ holder' = NoThread
                         /\ UNCHANGED <<sched, value, waiters, holder_repeat_nr>>
      [] s = "nr"     -> /\ holder_repeat_nr' = 0
                         /\ UNCHANGED <<sched, value, waiters, holder>>
      [] s = "up"     -> /\ sema_up
                         /\ UNCHANGED <<holder, holder_repeat_nr>>

lock_release_ge(t) ==
    /\ Runs(t)
    /\ pc[t] = "cs"
    /\ IF holder_repeat_nr >= 1
         THEN /\ holder_repeat_nr' = holder_repeat_nr - 1
              /\ UNCHANGED <<pc, sched, value, waiters, holder>>
         ELSE /\ ReleaseStmt(release_order[1])
              /\ pc' = [pc EXCEPT ![t] = "rel2"]

\* lock_release entered (sync.c 117-124): a nested hold only counts down;
\* the last one runs the first statement of release_order.
lock_release(t) ==
    /\ Runs(t)
    /\ pc[t] = "cs"
    /\ IF holder_repeat_nr > 1
         THEN /\ holder_repeat_nr' = holder_repeat_nr - 1
              /\ UNCHANGED <<pc, sched, value, waiters, holder>>
         ELSE /\ ReleaseStmt(release_order[1])
              /\ pc' = [pc EXCEPT ![t] = "rel2"]

\* The second and third statements of release_order.
ReleaseRest(t) ==
    /\ Runs(t)
    /\ pc[t] \in RelPc
    /\ IF pc[t] = "rel2"
         THEN /\ ReleaseStmt(release_order[2])
              /\ pc' = [pc EXCEPT ![t] = "rel3"]
         ELSE /\ ReleaseStmt(release_order[3])
              /\ pc' = [pc EXCEPT ![t] = "ncs"]

\* The steps of thread t inside lock_acquire and lock_release: whether and
\* when it calls them is up to the thread.
Busy(t) ==
    \/ sema_down(t) \/ AcqHolder(t) \/ AcqNr(t)
    \/ lock_release(t) \/ ReleaseRest(t)

Next ==
    \/ \E t \in Threads :
         \/ lock_acquire(t) \/ sema_down(t) \/ AcqHolder(t) \/ AcqNr(t)
         \/ lock_release(t) \/ ReleaseRest(t)
    \/ Tick

\* The last lock_release of a hold: the thread leaves the lock.
OuterRelease(t) == lock_release(t) /\ holder_repeat_nr = 1

\* The timer interrupt keeps coming while interrupts are on, and a thread
\* that gets the CPU again and again runs its next statement (a time slice
\* is many instructions long).  Leaving "ncs" is up to the thread, and so
\* is nesting; but every caller in src/ releases the lock after a bounded
\* piece of work (memory.c, ioqueue.c), so a thread that keeps getting the
\* CPU with the lock held once does leave it.
Fairness ==
    /\ WF_vars(Tick)
    /\ \A t \in Threads : SF_vars(Busy(t)) /\ SF_vars(OuterRelease(t))

Spec == Init /\ [][Next]_vars /\ Fairness

-----------------------------------------------------------------------------
(* Properties.                                                           *)

\* The statements of lock_release a thread at pc p has already run.
Done(p) == CASE p = "rel2" -> {release_order[1]}
             [] p = "rel3" -> {release_order[1], release_order[2]}
             [] OTHER      -> {}

\* Thread t owns the lock: it took the semaphore and has not given it back.
Owns(t) ==
    \/ pc[t] \in {"acq_holder", "acq_nr", "cs"}
    \/ pc[t] \in RelPc /\ "up" \notin Done(pc[t])

Owner == IF \E t \in Threads : Owns(t) THEN CHOOSE t \in Threads : Owns(t)
         ELSE NoThread

TypeOK ==
    /\ pc \in [Threads -> Pcs]
    /\ cur \in Threads
    /\ status \in [Threads -> Status]
    /\ ready \in Seq(Threads)
    /\ value \in 0 .. 1
    /\ waiters \in Seq(Threads)
    /\ holder \in Threads \cup {NoThread}
    /\ holder_repeat_nr \in 0 .. MaxNest

\* Mutual exclusion, and the lock fields agree with who owns the semaphore,
\* whatever the timer interleaves: one owner at most; the value is 0
\* exactly while someone owns it (the ASSERTs of sync.c 38, 68, 74); a
\* thread inside the lock is its holder with a positive count (what the
\* holder test of sync.c 90 and the ASSERTs of 93, 118 and 123 rely on);
\* and a holder that is set names the owner.  The comment at sync.c
\* 129-137 says this is why holder = NULL comes before sema_up.
LockExclusive ==
    /\ \A t, u \in Threads : Owns(t) /\ Owns(u) => t = u
    /\ value = IF Owner = NoThread THEN 1 ELSE 0
    /\ \A t \in Threads : pc[t] = "acq_nr" => holder_repeat_nr = 0
    /\ \A t \in Threads : pc[t] = "cs" => holder = t /\ holder_repeat_nr >= 1
    /\ holder # NoThread => Owns(holder)

\* The ready list and the waiters list are what thread_unblock, schedule
\* and sema_down assert: the running thread is on neither; no thread is on
\* a list twice (sync.c 27-31, thread.c 260, 362-366); the ready list holds
\* exactly the READY threads and the waiters exactly the BLOCKED ones; and
\* a thread that blocks always finds a thread to switch to, so idle is
\* never needed for this lock.
SchedulerConsistent ==
    /\ status[cur] = "RUNNING"
    /\ \A t \in Threads : status[t] = "RUNNING" => t = cur
    /\ IsInjective(ready) /\ IsInjective(waiters)
    /\ Range(ready) = {t \in Threads : status[t] = "READY"}
    /\ Range(waiters) = {t \in Threads : status[t] = "BLOCKED"}
    /\ \A t \in Range(waiters) : pc[t] = "sd_wait"
    /\ pc[cur] \in {"sd", "sd_wait"} /\ value = 0 => ready # <<>>

\* No wakeup is lost: while threads wait on the semaphore, either it is
\* taken or a thread woken by sema_up is on its way to retest the value.
NoLostWakeup ==
    waiters # <<>> =>
        \/ value = 0
        \/ \E t \in Threads : pc[t] = "sd_wait" /\ status[t] # "BLOCKED"

\* Whenever a thread waits for the lock, some thread later takes it: the
\* holder's release and sema_up's wakeup keep the lock moving.
WaitersMakeProgress ==
    (\E t \in Threads : pc[t] \in {"sd", "sd_wait"})
        ~> (\E t \in Threads : pc[t] = "acq_holder")

\* The lock implements the reentrant-lock contract that memory.c assumes:
\* the owner is the thread between a successful sema_down and its sema_up,
\* and the depth is holder_repeat_nr, which is 0 only just after the
\* semaphore is taken and just before it is given back.
Contract == INSTANCE ReentrantLock WITH
    owner <- Owner,
    depth <- IF Owner = NoThread THEN 0
             ELSE IF holder_repeat_nr = 0 THEN 1 ELSE holder_repeat_nr

\* A ready thread is not starved: schedule puts a preempted thread at the
\* tail of thread_ready_list (thread.c 263-267) while thread_unblock puts a
\* woken one at the head (thread.c 362), and still every thread on the
\* ready list gets the CPU.
ReadyEventuallyRuns ==
    \A t \in Threads : status[t] = "READY" ~> status[t] = "RUNNING"

\* The implementation's behaviours are behaviours of ReentrantLock.
LockContract == Contract!Spec
=============================================================================
