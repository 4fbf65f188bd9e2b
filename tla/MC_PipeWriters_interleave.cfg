\* A connection thread's deferred response written while the I/O thread
\* drains the write queue: two requests, one responding connection thread,
\* one pipe failure.
CONSTANTS
    r1 = r1
    r2 = r2
    w1 = w1
    Requests <- MCRequests
    ConnThreads <- MCConnThreads
    MaxBreaks = 1

SPECIFICATION Spec

INVARIANT FramesIntact

CHECK_DEADLOCK FALSE
