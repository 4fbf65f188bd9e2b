------------------------------- MODULE PbRpc -------------------------------
(***************************************************************************)
(* The pbRPC engine of the FreeRDS front end (src/freerds/core/rpc.c).     *)
(*                                                                         *)
(* One I/O thread (pbrpc_main_loop) owns the named pipe to the session     *)
(* manager.  Any thread may issue a blocking call (pbrpc_call_method) or   *)
(* a fire-and-forget call (pbrcp_call_method_async): both register a       *)
(* transaction in the table `tbl` (a ListDictionary keyed by tag) and      *)
(* enqueue a request frame on the write queue `wq`.  The I/O thread sends  *)
(* the queue, reads frames, completes the transaction a response names,    *)
(* answers Heartbeat requests, and on any transport failure runs           *)
(* pbrpc_reconnect: clear the queue, force-complete every transaction      *)
(* with PBRCP_TRANSPORT_ERROR, open the pipe again.                        *)
(*                                                                         *)
(* A synchronous transaction lives on its caller's stack; the caller's     *)
(* local call context `ctx` (event, response, status) is written by the    *)
(* response callback pbrpc_response_local_cb from the I/O thread.  A       *)
(* transaction record carries its owner and the owner's call number `k`   *)
(* so that the model can tell whether the stack frame it points into is   *)
(* still the frame of that call.                                           *)
(*                                                                         *)
(* The session manager at the other end of the pipe is not in this        *)
(* repository's sources: it is modelled from the spec as a peer that      *)
(* receives requests, answers them in any order, and may send Heartbeats.  *)
(***************************************************************************)
EXTENDS Naturals, Sequences, SequencesExt, FiniteSets

CONSTANTS
    SyncCallers,    \* threads issuing pbrpc_call_method
    AsyncCallers,   \* threads issuing pbrcp_call_method_async
    MaxCalls,       \* calls each caller issues
    TagBits,        \* width of the tag counter context->tag
    MaxBreaks,      \* transport failures the environment injects
    MaxHeartbeats   \* Heartbeat requests the session manager sends

ASSUME
    /\ SyncCallers \cap AsyncCallers = {}
    /\ MaxCalls \in Nat \ {0}
    /\ TagBits \in Nat \ {0}
    /\ MaxBreaks \in Nat
    /\ MaxHeartbeats \in Nat

Callers == SyncCallers \cup AsyncCallers
CallIds == Callers \X (1..MaxCalls)
Tags == 0..(2^TagBits - 1)

\* What the local call context can hold as status: the status of a
\* response frame (its value, 0 or nonzero, is not told apart here),
\* PBRCP_CALL_TIMEOUT (its initial value) or PBRCP_TRANSPORT_ERROR.
CtxStatus == {"resp", "timeout", "transport"}

Request   == [kind : {"req"}, tag : Tags]
HbReply   == [kind : {"hbresp"}, tag : {0}]
Response  == [kind : {"resp"}, tag : Tags]
Heartbeat == [kind : {"hb"}, tag : {0}]
NoMsg     == [kind |-> "none", tag |-> 0]

Transaction == [tag : Tags, owner : Callers, k : 1..MaxCalls,
                async : BOOLEAN]
NoTa == [tag |-> 0, owner |-> "none", k |-> 0, async |-> FALSE]

Ctx == [event : BOOLEAN, resp : Response \cup {NoMsg}, status : CtxStatus]

VARIABLES
    isConnected,  \* context->isConnected
    pipe,         \* context->hPipe: "up", "broken" or "closed"
    toPeer,       \* frames written to the pipe, not yet read by the manager
    toFront,      \* frames the manager wrote, not yet read by the I/O thread
    wq,           \* context->writeQueue
    tbl,          \* context->transactions, in list order
    tag,          \* context->tag
    io,           \* program counter of the I/O thread
    cur,          \* the pbRPCTransaction* the I/O thread holds
    msg,          \* the inbound frame the I/O thread is processing
    stopper,      \* progress of pbrpc_server_stop
    stopped,      \* context->stopEvent
    sc,           \* program counter of each synchronous caller
    ac,           \* program counter of each asynchronous caller
    calls,        \* calls issued by each caller so far
    myTag,        \* the tag of each caller's current call
    ctx,          \* each synchronous caller's pbrpc_local_call_context
    peerPending,  \* tags the manager has received and not yet answered
    hbSent,       \* Heartbeats the manager has sent
    breaks,       \* transport failures so far
    completions   \* callback invocations per call (history; an async call is
                  \* done once its callback has run)

engine == <<isConnected, pipe, toPeer, toFront, wq, tbl, tag, io, cur, msg,
            stopper, stopped>>
callers == <<sc, ac, calls, myTag, ctx>>
env == <<peerPending, hbSent, breaks>>
vars == <<engine, callers, env, completions>>

-----------------------------------------------------------------------------
(* Helpers translated from rpc.c                                           *)

\* Mutant of GetTag: a tag counter that is never wrapped.
GetTagUnwrapped(t) == t + 1

\* pbrpc_getTag: InterlockedIncrement of the tag counter, which wraps.
GetTag(t) == (t + 1) % (2^TagBits)

\* pbrpc_response_local_cb: store response and status, SetEvent.
LocalCb(lc, reason, resp) ==
    [lc EXCEPT !.resp = resp, !.status = reason, !.event = TRUE]

\* The local call context after ZeroMemory and status = PBRCP_CALL_TIMEOUT.
CtxInit == [event |-> FALSE, resp |-> NoMsg, status |-> "timeout"]

\* The stack frame a synchronous transaction points into is still the
\* frame of the call that registered it.
Live(ta) == sc[ta.owner] # "idle" /\ calls[ta.owner] = ta.k

\* ta->responseCallback(reason, resp, ta->callbackArg).  An asynchronous
\* callback is the caller's own function.  The synchronous one writes into
\* its caller's stack frame; once that call has returned, the write lands
\* in whatever the thread's stack now holds there: the context of the
\* thread's next call, or memory nobody reads.
Complete(ta, reason, resp) ==
    /\ completions' = [completions EXCEPT ![<<ta.owner, ta.k>>] = @ + 1]
    /\ IF ta.async
         THEN UNCHANGED ctx
         ELSE \/ ctx' = [ctx EXCEPT ![ta.owner] = LocalCb(@, reason, resp)]
              \/ ~Live(ta) /\ UNCHANGED ctx

\* The pipe handle is signalled: a frame is waiting, or the pipe is broken.
Readable == pipe = "broken" \/ (pipe = "up" /\ toFront # <<>>)

\* First entry of the table with a given tag (ListDictionary lookup).
IndexOf(t) == SelectInSeq(tbl, LAMBDA e : e.tag = t)

\* pbrpc_reconnect up to its loop: isConnected = FALSE, tp_npipe_close,
\* Queue_Clear.  Closing the pipe loses what is in it; the manager's end of
\* the connection goes away with the requests it had not answered.
Reconnect ==
    /\ isConnected' = FALSE
    /\ pipe' = "closed"
    /\ toPeer' = <<>>
    /\ toFront' = <<>>
    /\ peerPending' = {}
    /\ wq' = <<>>
    /\ io' = "rc_head"

\* The drain loop of pbrpc_main_loop: every queued frame is dequeued and
\* written; the status of the writes decides whether to reconnect.
Drain ==
    IF pipe = "up"
      THEN /\ toPeer' = toPeer \o wq
           /\ wq' = <<>>
           /\ io' = "wait"
           /\ UNCHANGED <<isConnected, pipe, toFront, peerPending>>
      ELSE Reconnect

-----------------------------------------------------------------------------
Init ==
    /\ isConnected = FALSE
    /\ pipe = "closed"
    /\ toPeer = <<>>
    /\ toFront = <<>>
    /\ wq = <<>>
    /\ tbl = <<>>
    /\ tag = 0
    /\ io = "connect"
    /\ cur = NoTa
    /\ msg = NoMsg
    /\ stopper = "run"
    /\ stopped = FALSE
    /\ sc = [c \in SyncCallers |-> "idle"]
    /\ ac = [a \in AsyncCallers |-> "idle"]
    /\ calls = [c \in Callers |-> 0]
    /\ myTag = [c \in Callers |-> 0]
    /\ ctx = [c \in SyncCallers |-> CtxInit]
    /\ peerPending = {}
    /\ hbSent = 0
    /\ breaks = 0
    /\ completions = [id \in CallIds |-> 0]

-----------------------------------------------------------------------------
(* The I/O thread: pbrpc_main_loop                                         *)

\* pbrpc_connect / pbrpc_transport_open: retry until the pipe opens, or
\* give up once the stop event is set.
Connect ==
    /\ io = "connect"
    /\ \/ /\ isConnected' = TRUE
          /\ pipe' = "up"
          /\ io' = "wait"
       \/ /\ stopped
          /\ io' = "done"
          /\ UNCHANGED <<isConnected, pipe>>
    /\ UNCHANGED <<toPeer, toFront, wq, tbl, tag, cur, msg, stopper, stopped,
                   callers, env, completions>>

\* Top of the loop: while (isConnected), and the stop event check.
LoopExit ==
    /\ io = "wait"
    /\ ~isConnected \/ stopped
    /\ io' = "done"
    /\ UNCHANGED <<isConnected, pipe, toPeer, toFront, wq, tbl, tag, cur, msg,
                   stopper, stopped, callers, env, completions>>

\* The pipe is signalled: pbrpc_process_message_in reads one frame.
ReadFrame ==
    /\ io = "wait"
    /\ isConnected /\ ~stopped
    /\ Readable
    /\ IF pipe = "broken"
         THEN /\ Reconnect
              /\ UNCHANGED msg
         ELSE /\ msg' = Head(toFront)
              /\ toFront' = Tail(toFront)
              /\ io' = IF Head(toFront).kind = "resp" THEN "lookup" ELSE "reply"
              /\ UNCHANGED <<isConnected, pipe, toPeer, wq, peerPending>>
    /\ UNCHANGED <<tbl, tag, cur, stopper, stopped, callers, hbSent, breaks,
                   completions>>

\* Only the write queue is signalled: the drain loop.
WriteOnly ==
    /\ io = "wait"
    /\ isConnected /\ ~stopped
    /\ ~Readable
    /\ wq # <<>>
    /\ Drain
    /\ UNCHANGED <<tbl, tag, cur, msg, stopper, stopped, callers, hbSent, breaks,
                   completions>>

\* After the read, the same iteration checks the write queue.
WritePhase ==
    /\ io = "write"
    /\ IF wq = <<>>
         THEN /\ io' = "wait"
              /\ UNCHANGED <<isConnected, pipe, toPeer, toFront, wq, peerPending>>
         ELSE Drain
    /\ UNCHANGED <<tbl, tag, cur, msg, stopper, stopped, callers, hbSent, breaks,
                   completions>>

\* freerds_icp_Heartbeat: the response echoes the request's callId (and
\* HeartbeatId, which no property tells apart).
HeartbeatResponse(m) == [kind |-> "hbresp", tag |-> m.tag]

\* pbrpc_process_request for a Heartbeat: freerds_icp_Heartbeat builds the
\* reply and pbrpc_send_response writes it on the pipe directly; a failed
\* write makes process_message_in fail and the loop reconnect.
Reply ==
    /\ io = "reply"
    /\ msg' = NoMsg
    /\ IF pipe = "up"
         THEN /\ toPeer' = Append(toPeer, HeartbeatResponse(msg))
              /\ io' = "write"
              /\ UNCHANGED <<isConnected, pipe, toFront, wq, peerPending>>
         ELSE Reconnect
    /\ UNCHANGED <<tbl, tag, cur, stopper, stopped, callers, hbSent, breaks,
                   completions>>

\* pbrpc_process_response: ListDictionary_GetItemValue by tag; an
\* unsolicited response is dropped.
Lookup ==
    /\ io = "lookup"
    /\ LET i == IndexOf(msg.tag) IN
         IF i = 0
           THEN /\ io' = "write"
                /\ msg' = NoMsg
                /\ UNCHANGED cur
           ELSE /\ cur' = tbl[i]
                /\ io' = "remove"
                /\ UNCHANGED msg
    /\ UNCHANGED <<isConnected, pipe, toPeer, toFront, wq, tbl, tag, stopper,
                   stopped, callers, env, completions>>

\* ListDictionary_Remove by tag, a separate locked operation.
RemoveTa ==
    /\ io = "remove"
    /\ tbl' = RemoveFirstMatch(tbl, LAMBDA e : e.tag = msg.tag)
    /\ io' = "callback"
    /\ UNCHANGED <<isConnected, pipe, toPeer, toFront, wq, tag, cur, msg, stopper,
                   stopped, callers, env, completions>>

\* ta->responseCallback(msg->status, msg, ta->callbackArg).
Callback ==
    /\ io = "callback"
    /\ Complete(cur, "resp", msg)
    /\ io' = "free"
    /\ UNCHANGED <<isConnected, pipe, toPeer, toFront, wq, tbl, tag, cur, msg,
                   stopper, stopped, sc, ac, calls, myTag, env>>

\* if (ta->freeAfterResponse) free(ta): a read through ta after the
\* callback has signalled its caller.
FreeTa ==
    /\ io = "free"
    /\ cur' = NoTa
    /\ msg' = NoMsg
    /\ io' = "write"
    /\ UNCHANGED <<isConnected, pipe, toPeer, toFront, wq, tbl, tag, stopper,
                   stopped, callers, env, completions>>

\* The loop of pbrpc_reconnect: ListDictionary_Remove_Head until empty,
\* then pbrpc_connect.
RcHead ==
    /\ io = "rc_head"
    /\ IF tbl = <<>>
         THEN /\ io' = "connect"
              /\ UNCHANGED <<tbl, cur>>
         ELSE /\ cur' = Head(tbl)
              /\ tbl' = Tail(tbl)
              /\ io' = "rc_callback"
    /\ UNCHANGED <<isConnected, pipe, toPeer, toFront, wq, tag, msg, stopper,
                   stopped, callers, env, completions>>

\* Mutant of RcCallback: the reconnect frees transactions without calling back.
RcCallbackSkipped ==
    /\ io = "rc_callback"
    /\ io' = "rc_free"
    /\ UNCHANGED <<isConnected, pipe, toPeer, toFront, wq, tbl, tag, cur, msg,
                   stopper, stopped, callers, env, completions>>

\* ta->responseCallback(PBRCP_TRANSPORT_ERROR, 0, ta->callbackArg).
RcCallback ==
    /\ io = "rc_callback"
    /\ Complete(cur, "transport", NoMsg)
    /\ io' = "rc_free"
    /\ UNCHANGED <<isConnected, pipe, toPeer, toFront, wq, tbl, tag, cur, msg,
                   stopper, stopped, sc, ac, calls, myTag, env>>

\* if (ta->freeAfterResponse) free(ta), inside the reconnect loop.
RcFree ==
    /\ io = "rc_free"
    /\ cur' = NoTa
    /\ io' = "rc_head"
    /\ UNCHANGED <<isConnected, pipe, toPeer, toFront, wq, tbl, tag, msg,
                   stopper, stopped, callers, env, completions>>

-----------------------------------------------------------------------------
(* pbrpc_server_stop, run by the thread that shuts the server down         *)

\* isConnected = FALSE; SetEvent(stopEvent).
Stop ==
    /\ stopper = "run"
    /\ stopper' = "join"
    /\ isConnected' = FALSE
    /\ stopped' = TRUE
    /\ UNCHANGED <<pipe, toPeer, toFront, wq, tbl, tag, io, cur, msg, callers,
                   env, completions>>

\* WaitForSingleObject(thread, INFINITE); tp_npipe_close.
StopJoin ==
    /\ stopper = "join"
    /\ io = "done"
    /\ stopper' = "closed"
    /\ pipe' = "closed"
    /\ toPeer' = <<>>
    /\ toFront' = <<>>
    /\ peerPending' = {}
    /\ UNCHANGED <<isConnected, wq, tbl, tag, io, cur, msg, stopped, callers,
                   hbSent, breaks, completions>>

-----------------------------------------------------------------------------
(* pbrpc_call_method: the blocking call                                    *)

\* if (!context->isConnected) return PBRCP_TRANSPORT_ERROR.
SyncCall(c) ==
    /\ sc[c] = "idle"
    /\ calls[c] < MaxCalls
    /\ calls' = [calls EXCEPT ![c] = @ + 1]
    /\ sc' = [sc EXCEPT ![c] = IF isConnected THEN "register" ELSE "idle"]
    /\ UNCHANGED <<engine, ac, myTag, ctx, env, completions>>

\* pbrpc_getTag, the local context with its event, ListDictionary_Add of
\* the transaction that lives on this stack frame.
SyncRegister(c) ==
    /\ sc[c] = "register"
    /\ tag' = GetTag(tag)
    /\ myTag' = [myTag EXCEPT ![c] = GetTag(tag)]
    /\ ctx' = [ctx EXCEPT ![c] = CtxInit]
    /\ tbl' = Append(tbl, [tag |-> GetTag(tag), owner |-> c, k |-> calls[c],
                           async |-> FALSE])
    /\ sc' = [sc EXCEPT ![c] = "enqueue"]
    /\ UNCHANGED <<isConnected, pipe, toPeer, toFront, wq, io, cur, msg, stopper,
                   stopped, ac, calls, env, completions>>

\* Queue_Enqueue of the request frame.
SyncEnqueue(c) ==
    /\ sc[c] = "enqueue"
    /\ wq' = Append(wq, [kind |-> "req", tag |-> myTag[c]])
    /\ sc' = [sc EXCEPT ![c] = "wait"]
    /\ UNCHANGED <<isConnected, pipe, toPeer, toFront, tbl, tag, io, cur, msg,
                   stopper, stopped, ac, calls, myTag, ctx, env,
                   completions>>

\* WaitForSingleObject(event, 10000): signalled, or timed out.  On timeout
\* ListDictionary_Remove(tag): if the transaction was still there the call
\* returns PBRCP_CALL_TIMEOUT, otherwise it waits for the completion.
SyncWait(c) ==
    /\ sc[c] = "wait"
    /\ \/ /\ ctx[c].event
          /\ sc' = [sc EXCEPT ![c] = "finish"]
          /\ UNCHANGED tbl
       \/ /\ ~ctx[c].event
          /\ LET i == IndexOf(myTag[c]) IN
               IF i # 0
                 THEN /\ tbl' = RemoveAt(tbl, i)
                      /\ sc' = [sc EXCEPT ![c] = "finish"]
                 ELSE /\ sc' = [sc EXCEPT ![c] = "block"]
                      /\ UNCHANGED tbl
    /\ UNCHANGED <<isConnected, pipe, toPeer, toFront, wq, tag, io, cur, msg,
                   stopper, stopped, ac, calls, myTag, ctx, env,
                   completions>>

\* WaitForSingleObject(event, INFINITE) after a failed removal.
SyncBlock(c) ==
    /\ sc[c] = "block"
    /\ ctx[c].event
    /\ sc' = [sc EXCEPT ![c] = "finish"]
    /\ UNCHANGED <<engine, ac, calls, myTag, ctx, env, completions>>

\* Read local_context.response and status and return: the frame is gone.
SyncFinish(c) ==
    /\ sc[c] = "finish"
    /\ sc' = [sc EXCEPT ![c] = "idle"]
    /\ UNCHANGED <<engine, ac, calls, myTag, ctx, env, completions>>

-----------------------------------------------------------------------------
(* pbrcp_call_method_async: the fire-and-forget call                       *)

\* if (!context->isConnected) callback(PBRCP_TRANSPORT_ERROR) and return.
AsyncCall(a) ==
    /\ ac[a] = "idle"
    /\ calls[a] < MaxCalls
    /\ calls' = [calls EXCEPT ![a] = @ + 1]
    /\ IF isConnected
         THEN /\ ac' = [ac EXCEPT ![a] = "register"]
              /\ UNCHANGED completions
         ELSE /\ completions' = [completions EXCEPT ![<<a, calls[a] + 1>>] = @ + 1]
              /\ UNCHANGED ac
    /\ UNCHANGED <<engine, sc, myTag, ctx, env>>

\* calloc'd transaction with freeAfterResponse, pbrpc_getTag,
\* ListDictionary_Add.
AsyncRegister(a) ==
    /\ ac[a] = "register"
    /\ tag' = GetTag(tag)
    /\ myTag' = [myTag EXCEPT ![a] = GetTag(tag)]
    /\ tbl' = Append(tbl, [tag |-> GetTag(tag), owner |-> a, k |-> calls[a],
                           async |-> TRUE])
    /\ ac' = [ac EXCEPT ![a] = "enqueue"]
    /\ UNCHANGED <<isConnected, pipe, toPeer, toFront, wq, io, cur, msg, stopper,
                   stopped, sc, calls, ctx, env, completions>>

\* Queue_Enqueue and return.
AsyncEnqueue(a) ==
    /\ ac[a] = "enqueue"
    /\ wq' = Append(wq, [kind |-> "req", tag |-> myTag[a]])
    /\ ac' = [ac EXCEPT ![a] = "idle"]
    /\ UNCHANGED <<isConnected, pipe, toPeer, toFront, tbl, tag, io, cur, msg,
                   stopper, stopped, sc, calls, myTag, ctx, env,
                   completions>>

-----------------------------------------------------------------------------
(* The session manager and the transport (from the spec)                   *)

\* The manager reads a frame: a request becomes pending.
PeerReceive ==
    /\ pipe = "up"
    /\ toPeer # <<>>
    /\ toPeer' = Tail(toPeer)
    /\ peerPending' = IF Head(toPeer).kind = "req"
                        THEN peerPending \cup {Head(toPeer).tag}
                        ELSE peerPending
    /\ UNCHANGED <<isConnected, pipe, toFront, wq, tbl, tag, io, cur, msg,
                   stopper, stopped, callers, hbSent, breaks, completions>>

\* The manager answers a pending request, in any order.
PeerRespond(t) ==
    /\ pipe = "up"
    /\ t \in peerPending
    /\ toFront' = Append(toFront, [kind |-> "resp", tag |-> t])
    /\ peerPending' = peerPending \ {t}
    /\ UNCHANGED <<isConnected, pipe, toPeer, wq, tbl, tag, io, cur, msg,
                   stopper, stopped, callers, hbSent, breaks, completions>>

\* The manager sends a Heartbeat request.
PeerHeartbeat ==
    /\ pipe = "up"
    /\ hbSent < MaxHeartbeats
    /\ toFront' = Append(toFront, [kind |-> "hb", tag |-> 0])
    /\ hbSent' = hbSent + 1
    /\ UNCHANGED <<isConnected, pipe, toPeer, wq, tbl, tag, io, cur, msg,
                   stopper, stopped, callers, peerPending, breaks,
                   completions>>

\* The pipe breaks: the manager went away.
Break ==
    /\ pipe = "up"
    /\ breaks < MaxBreaks
    /\ pipe' = "broken"
    /\ breaks' = breaks + 1
    /\ UNCHANGED <<isConnected, toPeer, toFront, wq, tbl, tag, io, cur, msg,
                   stopper, stopped, callers, peerPending, hbSent,
                   completions>>

-----------------------------------------------------------------------------
IoThread ==
    \/ Connect \/ LoopExit \/ ReadFrame \/ WriteOnly \/ WritePhase \/ Reply
    \/ Lookup \/ RemoveTa \/ Callback \/ FreeTa
    \/ RcHead \/ RcCallback \/ RcFree

SyncThread(c) ==
    SyncRegister(c) \/ SyncEnqueue(c) \/ SyncWait(c) \/ SyncBlock(c) \/ SyncFinish(c)

AsyncThread(a) == AsyncRegister(a) \/ AsyncEnqueue(a)

Peer == PeerReceive \/ \E t \in Tags : PeerRespond(t)

Next ==
    \/ IoThread
    \/ Stop \/ StopJoin
    \/ \E c \in SyncCallers : SyncCall(c) \/ SyncThread(c)
    \/ \E a \in AsyncCallers : AsyncCall(a) \/ AsyncThread(a)
    \/ Peer \/ PeerHeartbeat \/ Break

\* Every thread that has started something keeps running: the I/O thread,
\* the stopping thread once it has begun, each caller inside a call (its
\* 10 s timer fires), and the manager answers what it has read.  Starting
\* a call, stopping, Heartbeats and failures are never forced.
Fairness ==
    /\ WF_vars(IoThread)
    /\ WF_vars(StopJoin)
    /\ \A c \in SyncCallers : WF_vars(SyncThread(c))
    /\ \A a \in AsyncCallers : WF_vars(AsyncThread(a))
    /\ WF_vars(Peer)

Spec == Init /\ [][Next]_vars /\ Fairness

-----------------------------------------------------------------------------
(* Properties                                                              *)

TypeOK ==
    /\ isConnected \in BOOLEAN
    /\ pipe \in {"up", "broken", "closed"}
    /\ toPeer \in Seq(Request \cup HbReply)
    /\ toFront \in Seq(Response \cup Heartbeat)
    /\ wq \in Seq(Request)
    /\ tbl \in Seq(Transaction)
    /\ tag \in Tags
    /\ io \in {"connect", "wait", "reply", "lookup", "remove", "callback", "free",
               "write", "rc_head", "rc_callback", "rc_free", "done"}
    /\ cur \in Transaction \cup {NoTa}
    /\ msg \in Response \cup Heartbeat \cup {NoMsg}
    /\ stopper \in {"run", "join", "closed"}
    /\ stopped \in BOOLEAN
    /\ sc \in [SyncCallers -> {"idle", "register", "enqueue", "wait", "block", "finish"}]
    /\ ac \in [AsyncCallers -> {"idle", "register", "enqueue"}]
    /\ calls \in [Callers -> 0..MaxCalls]
    /\ myTag \in [Callers -> Tags]
    /\ ctx \in [SyncCallers -> Ctx]
    /\ peerPending \subseteq Tags
    /\ completions \in [CallIds -> Nat]

(* The I/O thread never dereferences a synchronous transaction (calls its
   callback, reads freeAfterResponse) after the call that owns the stack
   frame it lives in has returned. *)
NoDanglingTransaction ==
    (io \in {"callback", "free", "rc_callback", "rc_free"} /\ ~cur.async)
        => Live(cur)

-----------------------------------------------------------------------------
(* Refinement of PbRpcAbstract                                             *)

\* A call is unissued until its caller has started it.  A blocking call is
\* pending while its caller is inside pbrpc_call_method and done once it
\* has returned; a fire-and-forget call is pending until its callback runs.
CallState(id) ==
    LET o == id[1]
        k == id[2]
    IN  CASE calls[o] < k -> "unissued"
          [] o \in SyncCallers ->
                IF calls[o] = k /\ sc[o] # "idle" THEN "pending" ELSE "done"
          [] OTHER -> IF completions[id] > 0 THEN "done" ELSE "pending"

Abstract == INSTANCE PbRpcAbstract
    WITH Calls <- CallIds,
         SyncCalls <- SyncCallers \X (1..MaxCalls),
         st <- [id \in CallIds |-> CallState(id)],
         stopped <- stopped

(* The engine implements its promise to callers (PbRpcAbstract): every
   call started by pbrpc_call_method or pbrcp_call_method_async ends once,
   a blocking call always returns and an async callback always runs while
   the engine is not stopped, whatever the reconnects and timeouts. *)
Refinement == Abstract!Spec

=============================================================================
