------------------------------ MODULE Frontend ------------------------------
(***************************************************************************)
(* The front end's side of the session protocol (src/freerds/core).       *)
(*                                                                         *)
(* Each client connection has a thread running                             *)
(* freerds_connection_main_thread (process.c): it activates the client by  *)
(* a blocking LogonUser call, services its event sources, handles the      *)
(* notifications the session manager's requests leave in its queue, and   *)
(* on leaving the loop releases the backend connector, reports             *)
(* DisconnectUserSession and removes itself from the server's list.        *)
(*                                                                         *)
(* The pbRPC I/O thread (rpc.c) delivers the manager's answers to the      *)
(* connection threads' blocking calls, and dispatches the manager's        *)
(* SwitchServiceEndpoint and LogoffUser requests: the stubs look the       *)
(* connection up and post a notification; the answer is written later by   *)
(* the connection thread.  The engine itself is PbRpc; here a blocking     *)
(* call is a request on `toMgr`, an answer on `toFe`, and a 10 s timeout.  *)
(***************************************************************************)
EXTENDS Naturals, Sequences

CONSTANTS
    Conns,      \* connection ids
    Tasks,      \* the manager's task ids, carried as call ids
    NoTask,
    MaxJoined   \* of cliprdr, rdpdr and rdpsnd, the channels a client joins

VARIABLES
    cpc,        \* program counter of each connection thread
    post,       \* post_connect: done, and the IsChannelAllowed calls left
    activated,  \* client->activated
    connector,  \* connection->connector: "none", "up" or "failed"
    notif,      \* connection->notifications (MessageQueue)
    fresp,      \* status the pending blocking call has received
    registered, \* the server's connection list (freerds_server_*_connection)
    hold,       \* the request whose connection the I/O thread has looked up
    clientGone, \* the RDP client has gone away
    termG,      \* the global termination event
    toMgr,      \* frames on their way to the session manager
    toFe        \* frames on their way to the front end

NoFrame == [type |-> "none", conn |-> CHOOSE c \in Conns : TRUE, task |-> NoTask,
            status |-> "ok"]

\* Notification posted by a deferred stub (MessageQueue_Post).
Notification == [type : {"switch", "logoff"}, conn : Conns, task : Tasks]

-----------------------------------------------------------------------------
Init ==
    /\ cpc = [c \in Conns |-> "loop"]
    /\ post = [c \in Conns |-> [done |-> FALSE, left |-> 0]]
    /\ activated = [c \in Conns |-> FALSE]
    /\ connector = [c \in Conns |-> "none"]
    /\ notif = [c \in Conns |-> <<>>]
    /\ fresp = [c \in Conns |-> "none"]
    /\ registered = Conns
    /\ hold = NoFrame
    /\ clientGone = [c \in Conns |-> FALSE]
    /\ termG = FALSE

\* The checks at the top of each loop iteration that come before a source
\* is serviced: the termination events.
Running(c) == cpc[c] = "loop" /\ ~termG

\* A blocking pbrpc_call_method from a connection thread: enqueue the
\* request, clear the local context.
Call(c, type) ==
    /\ toMgr' = Append(toMgr, [type |-> type, conn |-> c, task |-> NoTask,
                               status |-> "ok"])
    /\ fresp' = [fresp EXCEPT ![c] = "none"]

-----------------------------------------------------------------------------
(* The connection thread                                                   *)

\* The client finishes connecting and FreeRDP calls freerds_peer_post_connect
\* from CheckFileDescriptor.  The geometry test never resizes (the values
\* compared are the ones just read), so freerds_channels_post_connect
\* runs: one IsChannelAllowed call for each of the channels the client
\* joined.
PostConnectStart(c) ==
    /\ Running(c) /\ ~clientGone[c] /\ ~post[c].done
    /\ \E n \in 0..MaxJoined : post' = [post EXCEPT ![c].left = n]
    /\ cpc' = [cpc EXCEPT ![c] = "post"]
    /\ UNCHANGED <<activated, connector, notif, fresp, registered, hold, clientGone,
                   termG, toMgr, toFe>>

\* freerds_icp_IsChannelAllowed: pack the request and make the blocking call.
ChannelAllowedCall(c) == Call(c, "allowed")

\* freerds_channels_is_channel_allowed for the next joined channel.
IsChannelAllowed(c) ==
    /\ cpc[c] = "post" /\ post[c].left > 0
    /\ ChannelAllowedCall(c)
    /\ post' = [post EXCEPT ![c].left = @ - 1]
    /\ cpc' = [cpc EXCEPT ![c] = "allowed"]
    /\ UNCHANGED <<activated, connector, notif, registered, hold, clientGone,
                   termG, toFe>>

\* The call returns, by its answer, the timeout or a transport error.  Its
\* status is not looked at: a failed call leaves the zeroed response,
\* "not allowed", which is only logged.
AllowedEnd(c) ==
    /\ cpc[c] = "allowed"
    /\ cpc' = [cpc EXCEPT ![c] = "post"]
    /\ UNCHANGED <<post, activated, connector, notif, fresp, registered, hold,
                   clientGone, termG, toMgr, toFe>>

\* post_connect returns after the channel checks and the encoder set-up.
PostConnectEnd(c) ==
    /\ cpc[c] = "post" /\ post[c].left = 0
    /\ post' = [post EXCEPT ![c].done = TRUE]
    /\ cpc' = [cpc EXCEPT ![c] = "loop"]
    /\ UNCHANGED <<activated, connector, notif, fresp, registered, hold, clientGone,
                   termG, toMgr, toFe>>

\* freerds_peer_activate, first activation: no connector yet, so a
\* blocking LogonUser call.
LogonStart(c) ==
    /\ Running(c)
    /\ ~clientGone[c] /\ post[c].done /\ ~activated[c] /\ connector[c] = "none"
    /\ Call(c, "logon")
    /\ cpc' = [cpc EXCEPT ![c] = "logon"]
    /\ UNCHANGED <<post, activated, connector, notif, registered, hold, clientGone,
                   termG, toFe>>

\* LogonUser returned: its answer arrived, or (fresp still "none") the
\* 10 s wait timed out.  A nonzero status or a timeout fails the activation;
\* otherwise a connector is created and connected, and a failed connect
\* also fails it.  A failed activation makes CheckFileDescriptor fail and
\* the loop break.
LogonEnd(c) ==
    /\ cpc[c] = "logon"
    /\ IF fresp[c] = "ok"
         THEN \E up \in BOOLEAN :
                /\ connector' = [connector EXCEPT ![c] = IF up THEN "up" ELSE "failed"]
                /\ activated' = [activated EXCEPT ![c] = up]
                /\ cpc' = [cpc EXCEPT ![c] = IF up THEN "loop" ELSE "teardown"]
         ELSE /\ cpc' = [cpc EXCEPT ![c] = "teardown"]
              /\ UNCHANGED <<connector, activated>>
    /\ UNCHANGED <<post, notif, fresp, registered, hold, clientGone, termG,
                   toMgr, toFe>>

\* The client goes away: its event handle becomes signalled.
ClientLeaves(c) ==
    /\ ~clientGone[c]
    /\ clientGone' = [clientGone EXCEPT ![c] = TRUE]
    /\ UNCHANGED <<post, cpc, activated, connector, notif, fresp, registered, hold,
                   termG, toMgr, toFe>>

\* The process is told to terminate (g_get_term_event).
GlobalTerm ==
    /\ ~termG
    /\ termG' = TRUE
    /\ UNCHANGED <<post, cpc, activated, connector, notif, fresp, registered, hold,
                   clientGone, toMgr, toFe>>

\* GlobalTermEvent or LocalTermEvent is set: break.
TermBreak(c) ==
    /\ cpc[c] = "loop" /\ termG
    /\ cpc' = [cpc EXCEPT ![c] = "teardown"]
    /\ UNCHANGED <<post, activated, connector, notif, fresp, registered, hold,
                   clientGone, termG, toMgr, toFe>>

\* Mutant: the client descriptor looked at only once the client is activated.
ClientBreakActivated(c) ==
    /\ Running(c) /\ clientGone[c] /\ activated[c]
    /\ cpc' = [cpc EXCEPT ![c] = "teardown"]
    /\ UNCHANGED <<post, activated, connector, notif, fresp, registered, hold,
                   clientGone, termG, toMgr, toFe>>

\* client->CheckFileDescriptor fails once the client is gone: break.
ClientBreak(c) ==
    /\ Running(c) /\ clientGone[c]
    /\ cpc' = [cpc EXCEPT ![c] = "teardown"]
    /\ UNCHANGED <<post, activated, connector, notif, fresp, registered, hold,
                   clientGone, termG, toMgr, toFe>>

\* connector->CheckEventHandles fails: the backend went away.
ConnectorBreak(c) ==
    /\ Running(c) /\ activated[c] /\ connector[c] # "none"
    /\ cpc' = [cpc EXCEPT ![c] = "teardown"]
    /\ UNCHANGED <<post, activated, connector, notif, fresp, registered, hold,
                   clientGone, termG, toMgr, toFe>>

\* MessageQueue_Peek with remove = TRUE.
Peek(q) == Tail(q)

\* freerds_icp_SwitchServiceEndpointResponse and freerds_icp_LogoffUserResponse
\* set the status they send to 0, whatever status they are handed.
SwitchServiceEndpointResponse(status) == "ok"
LogoffUserResponse(status) == "ok"

\* NotificationEvent is set: one message is taken and processed by
\* freerds_client_process_notification.  The client event is checked
\* before it, so a gone client breaks the loop first.
\*  - switch (freerds_client_process_switch_session): free the connector,
\*    create and connect a new one, answer with the connect's result; continue.
\*    The answer's write fails only on a broken pipe, and Broker's PipeBreak
\*    is one step, so the write here always lands (the frame is then lost
\*    with the pipe); the return FALSE after a failed write (process.c:375)
\*    is not taken.
\*  - logoff (freerds_client_process_logoff): free the connector, close the
\*    client, answer with status 0; break.
Notify(c) ==
    /\ Running(c) /\ ~clientGone[c]
    /\ notif[c] # <<>>
    /\ \E up \in BOOLEAN :
       LET m == Head(notif[c])
           status == IF m.type = "switch"
                       THEN SwitchServiceEndpointResponse(IF up THEN "ok" ELSE "fail")
                       ELSE LogoffUserResponse("ok")
       IN  /\ notif' = [notif EXCEPT ![c] = Peek(@)]
           /\ toMgr' = Append(toMgr, [type |-> m.type \o "_resp", conn |-> c,
                                      task |-> m.task, status |-> status])
           /\ IF m.type = "switch"
                THEN /\ connector' = [connector EXCEPT ![c] = IF up THEN "up" ELSE "failed"]
                     /\ UNCHANGED cpc
                ELSE /\ connector' = [connector EXCEPT ![c] = "none"]
                     /\ cpc' = [cpc EXCEPT ![c] = "teardown"]
    /\ UNCHANGED <<post, activated, fresp, registered, hold, clientGone, termG, toFe>>

\* After the loop: a connection with a connector frees it and reports
\* DisconnectUserSession by a blocking call.
Teardown(c) ==
    /\ cpc[c] = "teardown"
    /\ IF connector[c] # "none"
         THEN /\ connector' = [connector EXCEPT ![c] = "none"]
              /\ Call(c, "disconnect")
              /\ cpc' = [cpc EXCEPT ![c] = "disc_wait"]
         ELSE /\ cpc' = [cpc EXCEPT ![c] = "remove"]
              /\ UNCHANGED <<connector, fresp, toMgr>>
    /\ UNCHANGED <<post, activated, notif, registered, hold, clientGone, termG,
                   toFe>>

\* freerds_icp_DisconnectUserSession returns, by its answer or by the
\* timeout, which is always possible; the result is not looked at.
DisconnectEnd(c) ==
    /\ cpc[c] = "disc_wait"
    /\ cpc' = [cpc EXCEPT ![c] = "remove"]
    /\ UNCHANGED <<post, activated, connector, notif, fresp, registered, hold,
                   clientGone, termG, toMgr, toFe>>

\* client->Disconnect, freerds_server_remove_connection, then the peer
\* context (the connection and its queue) is freed.
Remove(c) ==
    /\ cpc[c] = "remove"
    /\ registered' = registered \ {c}
    /\ cpc' = [cpc EXCEPT ![c] = "done"]
    /\ UNCHANGED <<post, activated, connector, notif, fresp, hold, clientGone, termG,
                   toMgr, toFe>>

-----------------------------------------------------------------------------
(* The pbRPC I/O thread's share                                            *)

\* pbrpc_process_message_in for a frame from the manager.  An answer
\* completes the connection's blocking call if it is still waiting for
\* one of that type (a late answer finds no transaction and is dropped).
\* A SwitchServiceEndpoint or LogoffUser request is looked up by
\* freerds_server_get_connection: an unknown connection makes the stub
\* return -1 with no response, and pbrpc_process_request sends nothing.
IoReceive ==
    /\ toFe # <<>>
    /\ hold = NoFrame
    /\ toFe' = Tail(toFe)
    /\ LET m == Head(toFe)
           c == m.conn
       IN  IF m.type \in {"switch", "logoff"}
             THEN /\ hold' = IF c \in registered THEN m ELSE NoFrame
                  /\ UNCHANGED fresp
             ELSE /\ fresp' = IF /\ fresp[c] = "none"
                                 /\ \/ m.type = "logon_resp" /\ cpc[c] = "logon"
                                    \/ m.type = "disconnect_resp" /\ cpc[c] = "disc_wait"
                                    \/ m.type = "allowed_resp" /\ cpc[c] = "allowed"
                                THEN [fresp EXCEPT ![c] = m.status]
                                ELSE fresp
                  /\ UNCHANGED hold
    /\ UNCHANGED <<post, cpc, activated, connector, notif, registered, clientGone,
                   termG, toMgr>>

\* MessageQueue_Post through the connection pointer the lookup returned;
\* *pbresponse = NULL, so nothing is sent now.
IoPost ==
    /\ hold # NoFrame
    /\ notif' = [notif EXCEPT ![hold.conn] = Append(@, [type |-> hold.type,
                                                       conn |-> hold.conn,
                                                       task |-> hold.task])]
    /\ hold' = NoFrame
    /\ UNCHANGED <<post, cpc, activated, connector, fresp, registered, clientGone,
                   termG, toMgr, toFe>>

-----------------------------------------------------------------------------
\* The steps the connection thread takes by itself once it is enabled; the
\* client's activation and departure, the backend failing and termination
\* are the environment's.
ConnThread(c) ==
    \/ IsChannelAllowed(c) \/ AllowedEnd(c) \/ PostConnectEnd(c)
    \/ LogonEnd(c) \/ TermBreak(c) \/ ClientBreak(c) \/ Notify(c)
    \/ Teardown(c) \/ DisconnectEnd(c) \/ Remove(c)

IoThread == IoReceive \/ IoPost

Env ==
    \/ GlobalTerm
    \/ \E c \in Conns : PostConnectStart(c) \/ LogonStart(c) \/ ClientLeaves(c)
                       \/ ConnectorBreak(c)

Next == Env \/ IoThread \/ \E c \in Conns : ConnThread(c)

=============================================================================
