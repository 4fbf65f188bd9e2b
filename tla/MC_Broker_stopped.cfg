\* A connection left bound to a session another task or call has stopped.
CONSTANTS
    c1 = c1
    c2 = c2
    ss1 = ss1
    ss2 = ss2
    e1 = e1
    e2 = e2
    w1 = w1
    NoTask = NoTask
    NoSession = NoSession
    Conns <- MCOneConn
    Sessions <- MCSessions
    EndTasks <- MCEndTasks
    DiscTasks <- MCDiscTasks
    SwitchTasks <- MCSwitchTasks
    Timeouts = {0, 60}
    MaxBreaks = 1
    MaxLogOffs = 1
    MaxJoined = 1

SPECIFICATION Spec

INVARIANT ConnBoundToLiveSession

CHECK_DEADLOCK FALSE
