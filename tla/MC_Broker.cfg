\* Safety and termination of the composed front end and manager: one
\* connection, two sessions (a logon's and a switch's), one TaskEndSession
\* from EndSession and one from DisconnectUserSession (one connection
\* disconnects at most once), one TaskSwitchTo, session.timeout 0 or not,
\* one pipe break.
CONSTANTS
    c1 = c1
    c2 = c2
    ss1 = ss1
    ss2 = ss2
    e1 = e1
    e2 = e2
    w1 = w1
    NoTask = NoTask
    NoSession = NoSession
    Conns <- MCOneConn
    Sessions <- MCSessions
    EndTasks <- MCEndTasks
    DiscTasks <- MCDiscTasks
    SwitchTasks <- MCSwitchTasks
    Timeouts = {0, 60}
    MaxBreaks = 1
    MaxLogOffs = 1
    MaxJoined = 1

SPECIFICATION Spec

INVARIANT TypeOK
PROPERTY ConnectionEnds

\* Every connection thread ends and the manager runs out of task slots:
\* the model ends in states where nothing is left to do.
CHECK_DEADLOCK FALSE
