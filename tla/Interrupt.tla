------------------------------ MODULE Interrupt ------------------------------
(***************************************************************************)
(* The interrupt flag of src/kernel/interrupt.c: EFLAGS.IF read by         *)
(* intr_get_status and changed by intr_enable (sti), intr_disable (cli)    *)
(* and intr_set_status.  Each returns the status before the call.         *)
(*                                                                         *)
(* The code saves that status in a local old_status and restores it at    *)
(* the end of the section (sema_down, sema_up, thread_block,             *)
(* thread_unblock); an interrupt entry saves eflags on the stack the same *)
(* way, and iretd restores it.  A context is the flag and the statuses   *)
(* saved on the running thread's stack, innermost last.                   *)
(***************************************************************************)
EXTENDS Naturals, Sequences

INTR_OFF == "INTR_OFF"
INTR_ON  == "INTR_ON"
IntrStatus == {INTR_OFF, INTR_ON}

\* intr_get_status: the IF bit of eflags (interrupt.c 286-293).
intr_get_status(flag) == IF flag = INTR_ON THEN INTR_ON ELSE INTR_OFF

\* intr_enable: sti when IF is clear; returns the status before (248-259).
intr_enable(flag) == [old |-> intr_get_status(flag), flag |-> INTR_ON]

\* intr_disable: cli when IF is set; returns the status before (266-277).
intr_disable(flag) == [old |-> intr_get_status(flag), flag |-> INTR_OFF]

\* Mutant: the test of intr_set_status picks the other function.
intr_set_status_inverted(flag, status) ==
    IF status = INTR_ON THEN intr_disable(flag) ELSE intr_enable(flag)

\* intr_set_status: status & INTR_ON ? intr_enable() : intr_disable() (281-283).
intr_set_status(flag, status) ==
    IF status = INTR_ON THEN intr_enable(flag) ELSE intr_disable(flag)

\* old_status = intr_disable(): the status before is kept on the stack.
Save(ctx) ==
    LET r == intr_disable(ctx.flag)
    IN  [flag |-> r.flag, saved |-> Append(ctx.saved, r.old)]

\* intr_set_status(old_status) at the end of the section.
Restore(ctx) ==
    LET r == intr_set_status(ctx.flag, ctx.saved[Len(ctx.saved)])
    IN  [flag |-> r.flag, saved |-> SubSeq(ctx.saved, 1, Len(ctx.saved) - 1)]

\* A section that saves and restores without switching threads: sema_down
\* that finds the value free, sema_up, thread_unblock.
Section(ctx) == Restore(Save(ctx))
=============================================================================
