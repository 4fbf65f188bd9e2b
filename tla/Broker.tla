------------------------------- MODULE Broker -------------------------------
(***************************************************************************)
(* The front end and the session manager composed over the pipe.  Each    *)
(* side is its own module; they share only the two directions of the      *)
(* pipe, `toMgr` and `toFe`, and a step is a step of one side.  A pipe    *)
(* break is the one fault: frames in flight are lost, and both engines     *)
(* force-complete their outstanding calls with a transport error.          *)
(***************************************************************************)
EXTENDS Naturals, Sequences

CONSTANTS Conns, Sessions, EndTasks, DiscTasks, SwitchTasks, NoTask, NoSession,
          Timeouts,
          MaxBreaks,    \* pipe breaks in a behaviour
          MaxLogOffs,   \* LogOffUserSession calls in a behaviour
          MaxJoined     \* channels a client joins

VARIABLES cpc, post, activated, connector, notif, fresp, registered, hold,
          clientGone, termG,
          connStore, sessions, tpc, tsess, told, tconn, tans,
          toMgr, toFe, breaks, logoffs

Fe == INSTANCE Frontend WITH Tasks <- EndTasks \cup DiscTasks \cup SwitchTasks
Mgr == INSTANCE Manager

Tasks == EndTasks \cup DiscTasks \cup SwitchTasks

frontVars == <<cpc, post, activated, connector, notif, fresp, registered, hold,
               clientGone, termG>>
managerVars == <<connStore, sessions, tpc, tsess, told, tconn, tans>>
vars == <<frontVars, managerVars, toMgr, toFe, breaks, logoffs>>

Init == Fe!Init /\ Mgr!Init /\ toMgr = <<>> /\ toFe = <<>> /\ breaks = 0
        /\ logoffs = 0

\* The pipe breaks.  On the front end pbrpc_reconnect drops the write queue
\* and completes every transaction with PBRCP_TRANSPORT_ERROR, so a blocked
\* LogonUser, DisconnectUserSession or IsChannelAllowed returns a failure; the manager's
\* engine (from the spec) does the same for its tasks' outbound calls.
\* Frames in flight in either direction are lost.
PipeBreak ==
    /\ breaks < MaxBreaks
    /\ breaks' = breaks + 1
    /\ toMgr' = <<>> /\ toFe' = <<>>
    /\ fresp' = [c \in Conns |-> IF cpc[c] \in {"logon", "disc_wait", "allowed"} /\ fresp[c] = "none"
                                   THEN "fail" ELSE fresp[c]]
    /\ tans' = [t \in Tasks |-> IF tpc[t] = "wait" /\ tans[t] = "none"
                                  THEN "fail" ELSE tans[t]]
    /\ UNCHANGED <<cpc, post, activated, connector, notif, registered, hold, clientGone,
                   termG, connStore, sessions, tpc, tsess, told, tconn,
                   logoffs>>

\* freerds_icp_LogOffUserSession for a running connection: the request is
\* written to the manager and the caller blocks in pbrpc_call_method.  No
\* code in this repository calls the stub; its caller is the environment,
\* and the answer, which no connection thread waits for, is dropped by
\* IoReceive.
LogOffCall(c) ==
    /\ logoffs < MaxLogOffs
    /\ cpc[c] = "loop" /\ activated[c]
    /\ logoffs' = logoffs + 1
    /\ toMgr' = Append(toMgr, [type |-> "logoffuser", conn |-> c, task |-> NoTask,
                               status |-> "ok"])
    /\ UNCHANGED <<frontVars, managerVars, toFe, breaks>>

FeStep == Fe!Next /\ UNCHANGED <<managerVars, breaks, logoffs>>
MgrStep == Mgr!Next /\ UNCHANGED <<frontVars, breaks, logoffs>>

Next == FeStep \/ MgrStep \/ PipeBreak \/ \E c \in Conns : LogOffCall(c)

\* Every thread that has something to do does it: connection threads (their
\* blocking calls are bounded by the 10 s timeout), the front end's I/O
\* thread, the manager's dispatcher and its task threads.  Clients, the
\* backend, termination, new EndSession and switch requests and pipe breaks
\* are never forced.
Fairness ==
    /\ \A c \in Conns : WF_vars(Fe!ConnThread(c) /\ UNCHANGED <<managerVars, breaks, logoffs>>)
    /\ WF_vars(Fe!IoThread /\ UNCHANGED <<managerVars, breaks, logoffs>>)
    /\ WF_vars(Mgr!Dispatch /\ UNCHANGED <<frontVars, breaks, logoffs>>)
    /\ \A t \in Tasks : WF_vars(Mgr!Task(t) /\ UNCHANGED <<frontVars, breaks, logoffs>>)

Spec == Init /\ [][Next]_vars /\ Fairness

-----------------------------------------------------------------------------
(* Properties                                                              *)

\* Frames on the pipe: the front end sends its calls and its answers to
\* the manager's requests, the manager its answers and its requests; a
\* response always carries a response id.
Frames(types) == [type : types, conn : Conns, task : Tasks \cup {NoTask},
                  status : {"ok", "fail"}]

TypeOK ==
    /\ toMgr \in Seq(Frames({"allowed", "logon", "disconnect", "logoffuser", "switch_resp",
                                     "logoff_resp"}))
    /\ toFe \in Seq(Frames({"allowed_resp", "logon_resp", "disconnect_resp", "logoffuser_resp",
                                    "switch", "logoff"}))
    /\ cpc \in [Conns -> {"loop", "post", "allowed", "logon", "teardown", "disc_wait", "remove", "done"}]
    /\ connector \in [Conns -> {"none", "up", "failed"}]
    /\ fresp \in [Conns -> {"none", "ok", "fail"}]
    /\ post \in [Conns -> [done : BOOLEAN, left : 0..MaxJoined]]
    /\ registered \subseteq Conns
    /\ notif \in [Conns -> Seq(Fe!Notification)]
    /\ connStore \in [Conns -> Sessions \cup {NoSession}]
    /\ sessions \subseteq Sessions
    /\ tpc \in [Tasks -> {"idle", "start", "wait", "done"}]
    /\ tans \in [Tasks -> {"none", "ok", "fail"}]
    /\ breaks \in 0..MaxBreaks
    /\ logoffs \in 0..MaxLogOffs

\* Once its client has gone or the process is terminating, a connection
\* thread leaves its loop, releases its connector, reports the disconnect
\* and removes itself from the server's list, whatever the manager does.
ConnectionEnds ==
    \A c \in Conns : (clientGone[c] \/ termG) ~> cpc[c] = "done"

\* Every task the manager starts returns: a TaskEndSession or TaskSwitchTo
\* waiting INFINITE for the front end's answer gets one (the spec: requests
\* about a missing connection are answered with a failure, never silently
\* dropped).
TasksReturn ==
    \A t \in Tasks : tpc[t] \in {"start", "wait"} ~> tpc[t] = "done"

\* A connection in the manager's store is bound to a session that exists:
\* TaskSwitchTo binds the connection to its new session only after the
\* front end has answered, and TaskEndSession, LogOffUserSession and
\* DisconnectUserSession running meanwhile must not leave it bound to a
\* session they have stopped.
ConnBoundToLiveSession ==
    \A c \in Conns : connStore[c] # NoSession => connStore[c] \in sessions

\* A connection that has ended is, eventually, no longer in the manager's
\* connection store: no session stays bound to a connection that is gone.
NoOrphanConnection ==
    \A c \in Conns : cpc[c] = "done" ~> connStore[c] = NoSession

\* The I/O thread posts a deferred request only to a connection that still
\* exists: the pointer freerds_server_get_connection returned is not freed
\* before MessageQueue_Post uses it.
NoPostToFreed == hold # Fe!NoFrame => cpc[hold.conn] # "done"

=============================================================================
