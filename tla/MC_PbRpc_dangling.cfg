\* One blocking call and its response: does the I/O thread touch the
\* caller's stack frame after the call has returned?
CONSTANTS
    s1 = s1
    s2 = s2
    a1 = a1
    SyncCallers <- MCOneSyncCaller
    AsyncCallers <- MCNoAsyncCallers
    MaxCalls = 1
    TagBits = 2
    MaxBreaks = 0
    MaxHeartbeats = 0

SPECIFICATION Spec

INVARIANT NoDanglingTransaction

CHECK_DEADLOCK FALSE
