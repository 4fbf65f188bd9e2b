------------------------------ MODULE Manager -------------------------------
(***************************************************************************)
(* The session manager's side of the session protocol (src/manager/call,  *)
(* src/session-manager/common/call).                                       *)
(*                                                                         *)
(* Inbound calls from the front end are handled in arrival order by their  *)
(* doStuff(): LogonUser (its handler is not in this repository: modelled   *)
(* from the spec), DisconnectUserSession and LogOffUserSession, and       *)
(* IsChannelAllowed (its handler is not in this repository either).       *)
(* EndSession requests come from outside the front end (session modules)  *)
(* and start a TaskEndSession;                                             *)
(* a TaskSwitchTo is started when a session is to replace a connection's   *)
(* session.  Each task runs in its own executor thread and may make an     *)
(* outbound call to the front end, waiting INFINITE for its answer.        *)
(*                                                                         *)
(* The connection store maps a connection id to its session id (0 for     *)
(* none); the session store is the set of sessions that exist.             *)
(***************************************************************************)
EXTENDS Naturals, Sequences

CONSTANTS
    Conns,            \* connection ids
    Sessions,         \* session ids
    EndTasks,         \* TaskEndSession instances added by CallInEndSession
    DiscTasks,        \* TaskEndSession instances added by CallInDisconnectUserSession
    SwitchTasks,      \* TaskSwitchTo instances
    NoTask,
    NoSession,        \* session id 0
    Timeouts          \* values the property session.timeout may have (0 if unset)

EndSessionTasks == EndTasks \cup DiscTasks
Tasks == EndSessionTasks \cup SwitchTasks

VARIABLES
    connStore,  \* ConnectionStore: connection id -> session id
    sessions,   \* SessionStore: the sessions that exist
    tpc,        \* program counter of each task
    tsess,      \* the session a task is about (m_SessionId, mNewSessionId)
    told,       \* TaskSwitchTo's mOldSessionId
    tconn,      \* the connection a task calls the front end about
    tans,       \* the answer a task's outbound call has received
    toMgr,
    toFe

Init ==
    /\ connStore = [c \in Conns |-> NoSession]
    /\ sessions = {}
    /\ tpc = [t \in Tasks |-> "idle"]
    /\ tsess = [t \in Tasks |-> NoSession]
    /\ told = [t \in Tasks |-> NoSession]
    /\ tconn = [t \in Tasks |-> CHOOSE c \in Conns : TRUE]
    /\ tans = [t \in Tasks |-> "none"]

\* Mutant: the answer sent under the request's message id.
AnswerRequestId(m, status) ==
    [type |-> m.type, conn |-> m.conn, task |-> NoTask, status |-> status]

\* The answer frame of an inbound call, packed under its response id.
Answer(m, status) ==
    [type |-> m.type \o "_resp", conn |-> m.conn, task |-> NoTask, status |-> status]

\* ConnectionStore::getConnectionIdForSessionId (0: none).
ConnectionOf(s) ==
    IF \E c \in Conns : connStore[c] = s
      THEN CHOOSE c \in Conns : connStore[c] = s
      ELSE NoSession

\* TaskEndSession::stopSession / TaskSwitchTo: stopModule and
\* removeSession when the session is found, an error log otherwise.
StopSession(s) == sessions' = sessions \ {s}

\* APP_CONTEXT.addTask of a new task, run by its own executor thread.  The
\* slots of each origin are a bound of the model, not of the code.
AddTask(kinds, s) ==
    \E t \in kinds :
        /\ tpc[t] = "idle"
        /\ tpc' = [tpc EXCEPT ![t] = "start"]
        /\ tsess' = [tsess EXCEPT ![t] = s]

-----------------------------------------------------------------------------
(* Inbound calls                                                           *)

\* LogonUser (from the spec): a new session is created for the user and
\* bound to the connection, or the logon is refused.
LogonUser ==
    /\ toMgr # <<>> /\ Head(toMgr).type = "logon"
    /\ toMgr' = Tail(toMgr)
    /\ \/ \E s \in Sessions \ sessions :
            /\ sessions' = sessions \cup {s}
            /\ connStore' = [connStore EXCEPT ![Head(toMgr).conn] = s]
            /\ toFe' = Append(toFe, Answer(Head(toMgr), "ok"))
       \/ /\ toFe' = Append(toFe, Answer(Head(toMgr), "fail"))
          /\ UNCHANGED <<sessions, connStore>>
    /\ UNCHANGED <<tpc, tsess, told, tconn, tans>>

\* CallInDisconnectUserSession::doStuff: without a connection or its
\* session it fails; otherwise the session is marked disconnected, the
\* connection removed from the store, and if session.timeout, read on each
\* call, is 0 a TaskEndSession is added for the session.
DisconnectUserSession ==
    /\ toMgr # <<>> /\ Head(toMgr).type = "disconnect"
    /\ LET m == Head(toMgr)
           s == connStore[m.conn]
       IN  /\ toMgr' = Tail(toMgr)
           /\ IF s = NoSession \/ s \notin sessions
                THEN /\ toFe' = Append(toFe, Answer(m, "fail"))
                     /\ UNCHANGED <<connStore, tpc, tsess>>
                ELSE /\ toFe' = Append(toFe, Answer(m, "ok"))
                     /\ connStore' = [connStore EXCEPT ![m.conn] = NoSession]
                     /\ \E timeout \in Timeouts :
                          IF timeout = 0
                            THEN AddTask(DiscTasks, s)
                            ELSE UNCHANGED <<tpc, tsess>>
    /\ UNCHANGED <<sessions, told, tconn, tans>>

\* CallInLogOffUserSession::doStuff: without the connection or its session
\* it fails (-1); otherwise the session's module is stopped, the session
\* and then the connection removed from their stores.
LogOffUserSession ==
    /\ toMgr # <<>> /\ Head(toMgr).type = "logoffuser"
    /\ LET m == Head(toMgr)
           s == connStore[m.conn]
       IN  /\ toMgr' = Tail(toMgr)
           /\ IF s = NoSession \/ s \notin sessions
                THEN /\ toFe' = Append(toFe, Answer(m, "fail"))
                     /\ UNCHANGED <<sessions, connStore>>
                ELSE /\ toFe' = Append(toFe, Answer(m, "ok"))
                     /\ StopSession(s)
                     /\ connStore' = [connStore EXCEPT ![m.conn] = NoSession]
    /\ UNCHANGED <<tpc, tsess, told, tconn, tans>>

\* IsChannelAllowed (from the spec): the channel is allowed or not; the
\* call succeeds either way.
ChannelAllowed ==
    /\ toMgr # <<>> /\ Head(toMgr).type = "allowed"
    /\ toMgr' = Tail(toMgr)
    /\ toFe' = Append(toFe, Answer(Head(toMgr), "ok"))
    /\ UNCHANGED <<connStore, sessions, tpc, tsess, told, tconn, tans>>

\* The answer to a task's outbound call sets its answer handle.
OutboundAnswer ==
    /\ toMgr # <<>> /\ Head(toMgr).task \in Tasks
    /\ toMgr' = Tail(toMgr)
    /\ tans' = [tans EXCEPT ![Head(toMgr).task] = Head(toMgr).status]
    /\ UNCHANGED <<connStore, sessions, tpc, tsess, told, tconn, toFe>>

\* CallInEndSession::doStuff: add a TaskEndSession for the session id,
\* whether or not a session has it (the task's stopSession logs the miss).
EndSession(s) ==
    /\ AddTask(EndTasks, s)
    /\ UNCHANGED <<connStore, sessions, told, tconn, tans, toMgr, toFe>>

\* A TaskSwitchTo is created for a connection whose session is to be
\* replaced by a new one (its creator is not in this repository).
SwitchTo(c, new) ==
    /\ connStore[c] # NoSession
    /\ new \notin sessions
    /\ sessions' = sessions \cup {new}
    /\ \E t \in SwitchTasks :
         /\ tpc[t] = "idle"
         /\ tpc' = [tpc EXCEPT ![t] = "start"]
         /\ tsess' = [tsess EXCEPT ![t] = new]
         /\ told' = [told EXCEPT ![t] = connStore[c]]
         /\ tconn' = [tconn EXCEPT ![t] = c]
    /\ UNCHANGED <<connStore, tans, toMgr, toFe>>

-----------------------------------------------------------------------------
(* TaskEndSession::run                                                     *)

\* With no connection for the session, stop it; otherwise send
\* LogOffUserSession to the front end and wait INFINITE.
EndStart(t) ==
    /\ t \in EndSessionTasks /\ tpc[t] = "start"
    /\ LET c == ConnectionOf(tsess[t]) IN
         IF c = NoSession
           THEN /\ StopSession(tsess[t])
                /\ tpc' = [tpc EXCEPT ![t] = "done"]
                /\ UNCHANGED <<tconn, toFe>>
           ELSE /\ tconn' = [tconn EXCEPT ![t] = c]
                /\ toFe' = Append(toFe, [type |-> "logoff", conn |-> c,
                                         task |-> t, status |-> "ok"])
                /\ tpc' = [tpc EXCEPT ![t] = "wait"]
                /\ UNCHANGED sessions
    /\ UNCHANGED <<connStore, tsess, told, tans, toMgr>>

\* The answer: on success the session is stopped and the connection
\* removed from the store; an error is only logged.
EndFinish(t) ==
    /\ t \in EndSessionTasks /\ tpc[t] = "wait"
    /\ tans[t] # "none"
    /\ IF tans[t] = "ok"
         THEN /\ StopSession(tsess[t])
              /\ connStore' = [connStore EXCEPT ![tconn[t]] = NoSession]
         ELSE UNCHANGED <<sessions, connStore>>
    /\ tpc' = [tpc EXCEPT ![t] = "done"]
    /\ UNCHANGED <<tsess, told, tconn, tans, toMgr, toFe>>

-----------------------------------------------------------------------------
(* TaskSwitchTo::run                                                       *)

\* Send SwitchServiceEndpoint and wait INFINITE for the answer.
SwitchStart(t) ==
    /\ t \in SwitchTasks /\ tpc[t] = "start"
    /\ toFe' = Append(toFe, [type |-> "switch", conn |-> tconn[t], task |-> t,
                             status |-> "ok"])
    /\ tpc' = [tpc EXCEPT ![t] = "wait"]
    /\ UNCHANGED <<connStore, sessions, tsess, told, tconn, tans, toMgr>>

\* TaskSwitchTo::cleanUpOnError: stop and remove the new session.
CleanUpOnError(t) == StopSession(tsess[t])

\* The checks after the wait: getResult() is 0, then decodeResponse (which
\* unpacks the answer and sets m_Success whatever it holds) and isSuccess.
Switched(t) == tans[t] = "ok"

\* A failed check: cleanUpOnError stops the new session.  Otherwise the old
\* session is stopped and getOrCreateConnection binds the connection to the
\* new session, looked up nowhere.
SwitchFinish(t) ==
    /\ t \in SwitchTasks /\ tpc[t] = "wait"
    /\ tans[t] # "none"
    /\ IF ~Switched(t)
         THEN /\ CleanUpOnError(t)
              /\ UNCHANGED connStore
         ELSE /\ StopSession(told[t])
              /\ connStore' = [connStore EXCEPT ![tconn[t]] = tsess[t]]
    /\ tpc' = [tpc EXCEPT ![t] = "done"]
    /\ UNCHANGED <<tsess, told, tconn, tans, toMgr, toFe>>

-----------------------------------------------------------------------------
Dispatch ==
    \/ LogonUser \/ DisconnectUserSession \/ LogOffUserSession \/ ChannelAllowed
    \/ OutboundAnswer

Task(t) == EndStart(t) \/ EndFinish(t) \/ SwitchStart(t) \/ SwitchFinish(t)

Env == \E s \in Sessions : EndSession(s) \/ \E c \in Conns : SwitchTo(c, s)

Next == Dispatch \/ Env \/ \E t \in Tasks : Task(t)

=============================================================================
