\* A consumer sleeping with a byte in the buffer, against the comment at
\* ioqueue.c 58-60.
CONSTANTS
    Consumers = {c1, c2}
    NoThread = NoThread
    bufsize = 3
    MaxKeys = 5
SYMMETRY Symmetry
SPECIFICATION Spec
CHECK_DEADLOCK FALSE
INVARIANT ConsumerWaitsOnlyWhenEmpty
