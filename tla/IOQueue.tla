------------------------------- MODULE IOQueue -------------------------------
(***************************************************************************)
(* The circular input buffer of src/device/ioqueue.c as the keyboard uses  *)
(* it: the keyboard interrupt handler puts a byte when the buffer is not   *)
(* full, and consumer threads take bytes with ioq_getchar, sleeping in     *)
(* ioq_wait while it is empty.  The handler (keyboard.c) is not under      *)
(* src/: it is the Keyboard action, which puts with ioq_putchar only after *)
(* testing !ioq_full, so the producer side never waits.                   *)
(*                                                                         *)
(* ioq_getchar runs with interrupts off (its ASSERT; the caller, not      *)
(* under src/, disables them around the call), so a consumer runs          *)
(* without interruption from one blocking point to the next: a call that   *)
(* finds a byte, a lock_acquire of ioq->lock that blocks on the semaphore, *)
(* an ioq_wait, and the lock_release and loop test after being woken are   *)
(* the steps.  Outside ioq_getchar ("ncs") a consumer runs with interrupts *)
(* on: the timer may switch threads and the keyboard may interrupt.  When  *)
(* every consumer is blocked, schedule runs the idle thread, which waits   *)
(* with interrupts on for the next interrupt.                             *)
(*                                                                         *)
(* The interrupt flag is the variable intr, changed only as the code      *)
(* changes it (module Interrupt): each section's intr_disable and         *)
(* intr_set_status, the timer interrupt's entry, and what a thread does   *)
(* when it is switched to.  The timer and the keyboard interrupt only     *)
(* when it is on; InterruptsMatchContext checks that this is exactly      *)
(* outside ioq_getchar.                                                   *)
(*                                                                         *)
(* Bytes are numbered in the order keys are pressed; log is the sequence  *)
(* of bytes consumed.                                                      *)
(***************************************************************************)
EXTENDS Integers, Sequences, SequencesExt, Interrupt

CONSTANTS
    Consumers,  \* threads calling ioq_getchar
    NoThread,   \* NULL
    bufsize,    \* size of ioq->buf
    MaxKeys     \* bound on the keys pressed

ASSUME NoThread \notin Consumers /\ bufsize \in Nat \ {0, 1}

Idle == "idle"
Pos == 0 .. bufsize - 1

VARIABLES
    pc,         \* pc[c]: "ncs", "lockwait" (in sema_down) or "wait" (in ioq_wait)
    cur,        \* the running thread, or Idle
    ready,      \* thread_ready_list
    buf,        \* ioq->buf
    head,       \* ioq->head, where the producer writes
    tail,       \* ioq->tail, where the consumer reads
    consumer,   \* ioq->consumer
    value,      \* ioq->lock.semaphore.value
    lwaiters,   \* ioq->lock.semaphore.waiters
    holder,     \* ioq->lock.holder
    keys,       \* keys pressed so far
    log,        \* bytes returned by ioq_getchar, in order
    intr,       \* EFLAGS.IF
    saved       \* saved[t]: the old_status locals and eflags on t's stack

sched == <<cur, ready>>
lock  == <<value, lwaiters, holder>>
vars  == <<pc, cur, ready, buf, head, tail, consumer, value,
           lwaiters, holder, keys, log, intr, saved>>
ctx   == <<intr, saved>>

\* ioqueue_init (ioqueue.c 7-11); one consumer runs, the others are ready.
Init ==
    /\ pc = [c \in Consumers |-> "ncs"]
    /\ cur \in Consumers
    /\ ready \in SetToSeqs(Consumers \ {cur})
    /\ buf = [i \in Pos |-> 0]
    /\ head = 0 /\ tail = 0
    /\ consumer = NoThread
    /\ value = 1 /\ lwaiters = <<>> /\ holder = NoThread
    /\ keys = 0 /\ log = <<>>
    /\ intr = INTR_ON
    /\ saved = [t \in Consumers \cup {Idle} |-> <<>>]

-----------------------------------------------------------------------------
next_pos_nomod(pos) == pos + 1

\* next_pos, ioq_full and ioq_empty (ioqueue.c 14-35).
next_pos(pos) == (pos + 1) % bufsize
ioq_full  == next_pos(head) = tail
ioq_empty == head = tail

\* The running thread's context: the flag and its saved statuses.
Ctx(t) == [flag |-> intr, saved |-> saved[t]]

SetCtx(t, c) == intr' = c.flag /\ saved' = [saved EXCEPT ![t] = c.saved]

(***************************************************************************)
(* The thread switched to first sets the flag: on its first run it enters *)
(* kernel_thread, which calls intr_enable (thread.c 84-88); otherwise it  *)
(* returns from switch_to into thread_block, which restores its          *)
(* old_status, or into the timer handler, whose iretd restores eflags     *)
(* (the comment at sync.c 46-55).                                         *)
(***************************************************************************)
Resumed(t, flag) ==
    IF saved[t] = <<>> THEN [flag |-> intr_enable(flag).flag, saved |-> <<>>]
    ELSE Restore([flag |-> flag, saved |-> saved[t]])

\* schedule's switch_to from t, whose context is c, to next.
SwitchTo(t, c, next) ==
    LET r == Resumed(next, c.flag)
    IN  /\ cur' = next
        /\ intr' = r.flag
        /\ saved' = [saved EXCEPT ![t] = c.saved, ![next] = r.saved]

\* thread_block then schedule (thread.c 340-351, 258-301): thread_block
\* saves the flag, and the head of the ready list runs, or the idle thread
\* when the list is empty.
BlockCur(t, c, rdy) ==
    /\ SwitchTo(t, Save(c), IF rdy = <<>> THEN Idle ELSE Head(rdy))
    /\ ready' = IF rdy = <<>> THEN rdy ELSE Tail(rdy)

\* thread_unblock (thread.c 355-367) of w onto the ready list rdy.
Unblocked(w, rdy) == <<w>> \o rdy

TakeByteNoAdvance ==
    /\ UNCHANGED tail
    /\ log' = Append(log, buf[tail])

\* The byte at tail taken and tail advanced (ioqueue.c 94-95).
TakeByte ==
    /\ tail' = next_pos(tail)
    /\ log' = Append(log, buf[tail])

wakeup_keep ==
    /\ ready' = Unblocked(consumer, ready)
    /\ UNCHANGED consumer

\* wakeup(&ioq->consumer) (ioqueue.c 47-51): the recorded consumer is
\* unblocked and the record cleared.
wakeup ==
    /\ ready' = Unblocked(consumer, ready)
    /\ consumer' = NoThread

-----------------------------------------------------------------------------
(* ioq_getchar (ioqueue.c 55-102).                                        *)

\* A call of ioq_getchar.  A byte is there: take it and return.  Otherwise
\* lock_acquire(&ioq->lock): a free lock is taken and ioq_wait records the
\* consumer and blocks; a held lock blocks the thread in sema_down.
GetChar(c) ==
    LET call == Save(Ctx(c))   \* the caller's intr_disable
    IN
    /\ cur = c /\ pc[c] = "ncs"
    /\ IF ~ioq_empty
         THEN /\ TakeByte
              /\ SetCtx(c, Restore(call))
              /\ UNCHANGED <<pc, sched, consumer, lock>>
         ELSE /\ IF value = 1
                   THEN /\ value' = 0 /\ holder' = c
                        /\ consumer' = c
                        /\ pc' = [pc EXCEPT ![c] = "wait"]
                        /\ UNCHANGED lwaiters
                        /\ BlockCur(c, Section(call), ready)
                   ELSE /\ lwaiters' = Append(lwaiters, c)
                        /\ pc' = [pc EXCEPT ![c] = "lockwait"]
                        /\ UNCHANGED <<value, holder, consumer>>
                        /\ BlockCur(c, Save(call), ready)
              /\ UNCHANGED <<tail, log>>
    /\ UNCHANGED <<buf, head, keys>>

\* Back from thread_block in sema_down: test value again; on success the
\* lock is held and ioq_wait follows at once, without testing the buffer.
LockRetry(c) ==
    /\ cur = c /\ pc[c] = "lockwait"
    /\ IF value = 1
         THEN /\ value' = 0 /\ holder' = c
              /\ consumer' = c
              /\ pc' = [pc EXCEPT ![c] = "wait"]
              /\ UNCHANGED lwaiters
              \* sema_down restores its old_status, then ioq_wait blocks
              /\ BlockCur(c, Restore(Ctx(c)), ready)
         ELSE /\ lwaiters' = Append(lwaiters, c)
              /\ UNCHANGED <<pc, value, holder, consumer>>
              /\ BlockCur(c, Ctx(c), ready)
    /\ UNCHANGED <<buf, head, tail, keys, log>>

\* Back from ioq_wait: lock_release (holder NULL, sema_up wakes the first
\* lock waiter) and the loop's empty test.  A byte is taken and returned;
\* an empty buffer means lock_acquire (free again) and ioq_wait once more.
WaitDone(c) ==
    /\ cur = c /\ pc[c] = "wait"
    /\ LET rdy == IF lwaiters = <<>> THEN ready
                  ELSE Unblocked(Head(lwaiters), ready)
           \* sema_up, with thread_unblock inside it when there is a waiter
           rel == IF lwaiters = <<>> THEN Section(Ctx(c))
                  ELSE Restore(Section(Save(Ctx(c))))
       IN
       /\ lwaiters' = IF lwaiters = <<>> THEN <<>> ELSE Tail(lwaiters)
       /\ IF ~ioq_empty
            THEN /\ TakeByte
                 /\ value' = 1 /\ holder' = NoThread
                 /\ pc' = [pc EXCEPT ![c] = "ncs"]
                 /\ ready' = rdy
                 /\ SetCtx(c, Restore(rel))
                 /\ UNCHANGED <<cur, consumer>>
            ELSE /\ consumer' = c
                 \* lock_acquire's sema_down takes the value, ioq_wait blocks
                 /\ BlockCur(c, Section(rel), rdy)
                 /\ UNCHANGED <<pc, value, holder, tail, log>>
    /\ UNCHANGED <<buf, head, keys>>

-----------------------------------------------------------------------------
(* The keyboard interrupt, the timer and the idle thread.                 *)

\* ioq_putchar (ioqueue.c 105-123) called by the keyboard handler when the
\* buffer is not full: the byte goes in at head, and a waiting consumer is
\* woken (wakeup, 47-51).  A key pressed on a full buffer is dropped.
Keyboard ==
    /\ intr = INTR_ON
    /\ keys < MaxKeys
    /\ keys' = keys + 1
    /\ IF ioq_full
         THEN UNCHANGED <<buf, head, consumer, ready>>
         ELSE /\ buf' = [buf EXCEPT ![head] = keys]
              /\ head' = next_pos(head)
              /\ IF consumer # NoThread
                   THEN wakeup
                   ELSE UNCHANGED <<ready, consumer>>
    \* the handler runs with IF clear and its iretd sets it again
    /\ UNCHANGED <<pc, cur, tail, lock, log, ctx>>

\* The timer interrupt, taken only with IF set, saves eflags and switches
\* from the running consumer to the head of the ready list (schedule,
\* thread.c 258-301).
Tick ==
    /\ intr = INTR_ON
    /\ cur # Idle
    /\ ready # <<>>
    /\ SwitchTo(cur, Save(Ctx(cur)), Head(ready))
    /\ ready' = Append(Tail(ready), cur)
    /\ UNCHANGED <<pc, buf, head, tail, consumer, lock, keys, log>>

\* The idle thread blocks itself again once a thread is ready (idle,
\* thread.c 51-59).
IdleSwitch ==
    /\ cur = Idle /\ ready # <<>>
    /\ SwitchTo(Idle, Save(Ctx(Idle)), Head(ready))
    /\ ready' = Tail(ready)
    /\ UNCHANGED <<pc, buf, head, tail, consumer, lock, keys, log>>

Next ==
    \/ \E c \in Consumers : GetChar(c) \/ LockRetry(c) \/ WaitDone(c)
    \/ Keyboard \/ Tick \/ IdleSwitch

Spec == Init /\ [][Next]_vars

-----------------------------------------------------------------------------
(* Properties.                                                           *)

\* Threads that are neither running nor on the ready list.
Asleep == {c \in Consumers : c # cur /\ c \notin Range(ready)}

TypeOK ==
    /\ pc \in [Consumers -> {"ncs", "lockwait", "wait"}]
    /\ cur \in Consumers \cup {Idle}
    /\ ready \in Seq(Consumers)
    /\ buf \in [Pos -> 0 .. MaxKeys]
    /\ head \in Pos /\ tail \in Pos
    /\ consumer \in Consumers \cup {NoThread}
    /\ value \in 0 .. 1
    /\ lwaiters \in Seq(Consumers)
    /\ holder \in Consumers \cup {NoThread}
    /\ keys \in 0 .. MaxKeys
    /\ log \in Seq(0 .. MaxKeys)
    /\ intr \in IntrStatus
    /\ saved \in [Consumers \cup {Idle} -> Seq(IntrStatus)]

\* Bytes come out of ioq_getchar in the order the keys were pressed, none
\* twice, across all consumers and every wrap of head and tail around the
\* buffer.
FifoDelivery ==
    \A i, j \in DOMAIN log : i < j => log[i] < log[j]

\* No sleeping consumer is forgotten: every thread asleep is either the
\* one recorded in ioq->consumer, which holds ioq->lock (so the ASSERT of
\* ioq_wait that no other consumer is recorded holds, ioqueue.c 41), or
\* waits on the lock's semaphore; and the lock is held exactly by the
\* thread sleeping in ioq_wait or by one just woken from it.
NoLostWakeup ==
    /\ \A c \in Asleep : c = consumer \/ c \in Range(lwaiters)
    /\ consumer # NoThread => consumer \in Asleep /\ holder = consumer
    /\ \A c \in Range(lwaiters) : pc[c] = "lockwait" /\ c \in Asleep
    /\ IsInjective(ready) /\ IsInjective(lwaiters)
    /\ value = 0 <=> holder # NoThread
    /\ holder # NoThread => pc[holder] = "wait"
    /\ cur # Idle => cur \notin Range(ready)

\* The statuses a thread's own sections have saved at pc p while it runs:
\* the caller's, then sema_down's while it waits for the lock.
Frames(p) == CASE p = "ncs"      -> <<>>
               [] p = "wait"     -> <<INTR_ON>>
               [] p = "lockwait" -> <<INTR_ON, INTR_OFF>>

(***************************************************************************)
(* Interrupts are on exactly outside ioq_getchar: a consumer inside it    *)
(* runs with them off, as the ASSERTs of ioqueue.c 20, 33 and 56 and      *)
(* schedule's (thread.c 260) require, and a consumer outside it, or idle, *)
(* runs with them on, so the timer and the keyboard can interrupt.  And   *)
(* every status a thread has saved is the one its section must restore:   *)
(* the caller's INTR_ON, sema_down's INTR_OFF, and, while it is off the   *)
(* CPU, thread_block's INTR_OFF or the timer's saved eflags with IF set.  *)
(* This rests on every intr_disable being undone by the matching          *)
(* intr_set_status, across switches to other threads in between.          *)
(***************************************************************************)
InterruptsMatchContext ==
    /\ intr = IF cur = Idle \/ pc[cur] = "ncs" THEN INTR_ON ELSE INTR_OFF
    /\ \A c \in Consumers :
         IF c = cur THEN saved[c] = Frames(pc[c])
         ELSE \/ saved[c] = Append(Frames(pc[c]), IF pc[c] = "ncs" THEN INTR_ON ELSE INTR_OFF)
              \/ pc[c] = "ncs" /\ saved[c] = <<>>
    /\ saved[Idle] \in {<<>>, <<INTR_ON>>}

\* A consumer sleeps in ioq_wait only while the buffer is empty: the
\* comment at ioqueue.c 58-60 says the thread records itself in
\* ioq->consumer because the buffer is empty, so that the producer's next
\* byte wakes it.
ConsumerWaitsOnlyWhenEmpty ==
    consumer # NoThread => ioq_empty
=============================================================================
