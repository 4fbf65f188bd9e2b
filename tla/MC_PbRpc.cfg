\* Safety and refinement of the engine: one thread blocking in
\* pbrpc_call_method and one issuing async calls, one call each, a 1-bit
\* tag counter (the two calls take tags 1 and, wrapped, 0), two transport
\* failures (so a reconnect can itself meet a broken pipe), one Heartbeat
\* from the manager.
CONSTANTS
    s1 = s1
    s2 = s2
    a1 = a1
    SyncCallers <- MCOneSyncCaller
    AsyncCallers <- MCAsyncCallers
    MaxCalls = 1
    TagBits = 1
    MaxBreaks = 2
    MaxHeartbeats = 1

SPECIFICATION Spec

INVARIANT TypeOK
PROPERTY Refinement

CHECK_DEADLOCK FALSE
