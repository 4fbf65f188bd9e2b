--------------------------- MODULE ChannelServer ----------------------------
(***************************************************************************)
(* The channel provisioning server (channels.c) and the front end's       *)
(* ChannelEndpointOpen handler (process.c).                                *)
(*                                                                         *)
(* The manager asks the front end to open a dynamic channel; the handler  *)
(* creates a channel with a fresh GUID and answers with the listener's     *)
(* port and that GUID.  The channel's client process dials the loopback   *)
(* listener and sends the 36-character GUID; accept looks it up in the     *)
(* GUID table and connects the channel if it is there and not yet          *)
(* connected.  A channel whose socket read fails is removed from its       *)
(* connection's list and freed.                                            *)
(*                                                                         *)
(* Who calls accept and the event-handle check is not in this repository: *)
(* the listener thread and the connection thread are modelled from the     *)
(* spec.  Whether the handler registers the new channel in the table and   *)
(* in the connection's list (the spec: channels are "pre-registered"; the  *)
(* code: never) is the constant RegisterChannels.                          *)
(***************************************************************************)
EXTENDS Naturals, FiniteSets

CONSTANTS
    Guids,            \* the channels' GUIDs (UuidCreateSequential: unique)
    Bogus,            \* a GUID no channel has
    RegisterChannels, \* the handler calls channel_server_add and client_add_channel
    MaxDials,         \* connection attempts in a behaviour
    NoChannel         \* NULL

VARIABLES
    server,     \* the listener: "new", "listening", "failed" or "closed"
    chan,       \* chan[g]: "unborn", "alive" or "freed"
    connected,  \* channel->connected
    ready,      \* channel->readyEvent
    table,      \* the GUIDs in channels->table
    list,       \* the channels in connection->channels
    backlog,    \* GUIDs presented by pending TCP connections
    short,      \* GUIDs whose 36 bytes did not arrive in one recv (history)
    dials       \* connection attempts so far

vars == <<server, chan, connected, ready, table, list, backlog,
          short, dials>>

Init ==
    /\ server = "new"
    /\ chan = [g \in Guids |-> "unborn"]
    /\ connected = [g \in Guids |-> FALSE]
    /\ ready = [g \in Guids |-> FALSE]
    /\ table = {}
    /\ list = {}
    /\ backlog = {}
    /\ short = {}
    /\ dials = 0

-----------------------------------------------------------------------------
(* The listener                                                            *)

\* freerds_channel_server_open.  freerds_bind_local_ephemeral_port returns
\* -1 and leaves listenerSocket 0 when no port binds; open goes on to listen
\* on descriptor 0, which fails, closes descriptor 0 and returns -1.
ServerOpen ==
    /\ server = "new"
    /\ server' \in {"listening", "failed"}
    /\ UNCHANGED <<chan, connected, ready, table, list, backlog, short, dials>>

\* freerds_channel_server_close: the listening socket is closed and its
\* pending connections with it.
ServerClose ==
    /\ server = "listening"
    /\ server' = "closed"
    /\ backlog' = {}
    /\ UNCHANGED <<chan, connected, ready, table, list, short, dials>>

-----------------------------------------------------------------------------
(* Channels                                                                *)

\* freerds_channel_server_add, freerds_client_add_channel.
ServerAdd(g) == table' = table \cup {g}
ClientAddChannel(g) == list' = list \cup {g}

\* freerds_client_remove_channel.
ClientRemoveChannel(g) == list' = list \ {g}

\* freerds_channel_new: a channel with a fresh GUID, not connected.
ChannelNew(g) ==
    /\ chan' = [chan EXCEPT ![g] = "alive"]
    /\ connected' = [connected EXCEPT ![g] = FALSE]

\* freerds_channel_free.
ChannelFree(g) == chan' = [chan EXCEPT ![g] = "freed"]

\* What the spec has the front end do with a new channel: register it in
\* the GUID table and in its connection's list.
Registration(g) ==
    IF RegisterChannels
      THEN ServerAdd(g) /\ ClientAddChannel(g)
      ELSE UNCHANGED <<table, list>>

\* freerds_client_process_channel_endpoint_open: create the channel and
\* answer with the listener's port and its GUID; nothing else is done with
\* the channel.
EndpointOpen(g) ==
    /\ chan[g] = "unborn"
    /\ ChannelNew(g)
    /\ Registration(g)
    /\ UNCHANGED <<server, ready, backlog, short, dials>>

\* A channel client process connects to the listener and sends a GUID: one
\* it was given (possibly for a channel already connected or freed) or
\* another.
Dial(g) ==
    /\ server = "listening"
    /\ dials < MaxDials
    /\ g \notin backlog
    /\ g \in Guids => chan[g] # "unborn"
    /\ backlog' = backlog \cup {g}
    /\ dials' = dials + 1
    /\ UNCHANGED <<server, chan, connected, ready, table, list, short>>

\* HashTable_GetItemValue, and a connected channel is treated as absent.
Lookup(g) == IF g \in table /\ ~connected[g] THEN g ELSE NoChannel

Accept(g) ==
    /\ server = "listening"
    /\ g \in backlog
    /\ backlog' = backlog \ {g}
    /\ LET ch == Lookup(g) IN
         IF ch = NoChannel
           THEN UNCHANGED <<connected, ready>>
           ELSE /\ connected' = [connected EXCEPT ![ch] = TRUE]
                /\ ready' = [ready EXCEPT ![ch] = TRUE]
    /\ UNCHANGED <<server, chan, table, list, short, dials>>

\* The same with fewer than 36 bytes returned by the recv: the socket is
\* closed.
AcceptShortRead(g) ==
    /\ server = "listening"
    /\ g \in backlog
    /\ backlog' = backlog \ {g}
    /\ short' = short \cup {g}
    /\ UNCHANGED <<server, chan, connected, ready, table, list, dials>>

\* freerds_client_check_channel_event_handles reaches a connected channel
\* whose freerds_channel_check_socket fails (the client closed it or sent a
\* short frame): the loop breaks, the channel is removed from the list and
\* freed.  The table entry is left as it is.
CheckEventHandles(g) ==
    /\ g \in list
    /\ connected[g]
    /\ ClientRemoveChannel(g)
    /\ ChannelFree(g)
    /\ UNCHANGED <<server, connected, ready, table, backlog, short, dials>>

-----------------------------------------------------------------------------
\* The listener thread accepts what is pending; the rest is the
\* environment's (the manager, channel clients, socket failures, shutdown).
Listener == \E g \in Guids \cup {Bogus} : Accept(g)

Next ==
    \/ ServerOpen \/ ServerClose \/ Listener
    \/ \E g \in Guids : EndpointOpen(g) \/ CheckEventHandles(g)
    \/ \E g \in Guids \cup {Bogus} : Dial(g) \/ AcceptShortRead(g)

Spec == Init /\ [][Next]_vars /\ \A g \in Guids \cup {Bogus} : WF_vars(Accept(g))

-----------------------------------------------------------------------------
(* Properties                                                              *)

\* The type of every variable, and the order accept sets connected and
\* the ready event in.
TypeOK ==
    /\ server \in {"new", "listening", "failed", "closed"}
    /\ chan \in [Guids -> {"unborn", "alive", "freed"}]
    /\ connected \in [Guids -> BOOLEAN]
    /\ ready \in [Guids -> BOOLEAN]
    /\ table \subseteq Guids /\ list \subseteq Guids
    /\ backlog \subseteq Guids \cup {Bogus}
    /\ short \subseteq Guids \cup {Bogus}
    /\ dials \in 0..MaxDials
    \* a channel whose ready event is set is connected: accept sets
    \* channel->connected before SetEvent(readyEvent), and nothing clears it
    /\ \A g \in Guids : ready[g] => connected[g]

\* A client that presents the GUID of a live channel not yet connected gets
\* that channel connected and its ready event set (the spec's provisioning
\* guarantee), unless its GUID did not arrive in one read or the listener
\* was closed.
ChannelConnects ==
    \A g \in Guids :
        (g \in backlog /\ chan[g] = "alive" /\ ~connected[g])
            ~> (ready[g] \/ g \in short \/ server = "closed")

=============================================================================
