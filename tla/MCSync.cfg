\* Three kernel threads on one lock, nesting it up to twice, under the
\* timer and the scheduler's fairness.  No symmetry: the run checks
\* temporal properties.
CONSTANTS
    Threads = {t1, t2, t3}
    NoThread = NoThread
    MaxNest = 2
SPECIFICATION Spec
INVARIANT TypeOK
INVARIANT LockExclusive
INVARIANT SchedulerConsistent
INVARIANT NoLostWakeup
PROPERTY WaitersMakeProgress
PROPERTY ReadyEventuallyRuns
PROPERTY LockContract
