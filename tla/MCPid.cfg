\* Two preemptible threads, two calls of allocate_pid between them.
\* Deadlock checking is off: the run stops once MaxCalls calls have returned.
CONSTANTS
    Callers = {t1, t2}
    NoThread = NoThread
    MaxCalls = 2
SPECIFICATION Spec
INVARIANT PidsUnique
CHECK_DEADLOCK FALSE
