\* Two consumer threads on a buffer of 3 slots (2 bytes, so it fills and
\* head and tail wrap) and 5 key presses.  Once the keys are used up and
\* every consumer sleeps in ioq_getchar, the kernel runs idle and waits for
\* a key: that final state is not a deadlock of the code.
CONSTANTS
    Consumers = {c1, c2}
    NoThread = NoThread
    bufsize = 3
    MaxKeys = 5
SYMMETRY Symmetry
SPECIFICATION Spec
CHECK_DEADLOCK FALSE
INVARIANT TypeOK
INVARIANT FifoDelivery
INVARIANT NoLostWakeup
INVARIANT InterruptsMatchContext
