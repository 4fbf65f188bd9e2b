---------------------------- MODULE PipeWriters ----------------------------
(***************************************************************************)
(* The writers of the front end's pbRPC pipe (src/freerds/core/rpc.c).    *)
(*                                                                         *)
(* pbrpc_send_message writes a frame as two WriteFile calls, the header   *)
(* and then the payload, each to whatever context->hPipe is at the time.  *)
(* Two kinds of thread call it through pbrpc_process_message_out:          *)
(*  - the I/O thread, draining the write queue that pbrpc_call_method and  *)
(*    pbrcp_call_method_async fill (pbrpc_main_loop);                      *)
(*  - connection threads answering a deferred request of the manager      *)
(*    (freerds_icp_SwitchServiceEndpointResponse, LogoffUserResponse,      *)
(*    ChannelEndpointOpenResponse), directly and without a lock.           *)
(* The I/O thread also closes and reopens the pipe when it fails.  The    *)
(* manager reads a frame as a header and then as many payload bytes as    *)
(* the header announces, so `stream`, the chunks written to the current   *)
(* pipe, is what it parses.  What the frames carry is not modelled.       *)
(***************************************************************************)
EXTENDS Naturals, Sequences

CONSTANTS
    Requests,     \* requests callers put on the write queue, once each
    ConnThreads,  \* connection threads that write one deferred response
    MaxBreaks     \* pipe failures in a behaviour

Io == "io"
Writers == {Io} \cup ConnThreads
Msgs == Requests \cup ConnThreads   \* a response is named by its writer

VARIABLES
    pipe,     \* context->hPipe: "up", "broken" (writes fail) or "closed"
    stream,   \* chunks written to the current pipe, in order
    wq,       \* context->writeQueue
    queued,   \* requests enqueued so far
    io,       \* the I/O thread: "wait", "drain" or "rc" (reconnecting)
    iomsg,    \* the message the drain loop is writing
    status,   \* the main loop's status variable
    wpc,      \* per writer: "idle", "hdr", "pay", or "done" (a response sent)
    breaks

vars == <<pipe, stream, wq, queued, io, iomsg, status, wpc, breaks>>

Msg(w) == IF w = Io THEN iomsg ELSE w

Init ==
    /\ pipe = "closed" /\ stream = <<>>
    /\ wq = <<>> /\ queued = {}
    /\ io = "rc" /\ iomsg = CHOOSE r \in Requests : TRUE
    /\ status = "ok"
    /\ wpc = [w \in Writers |-> "idle"]
    /\ breaks = 0

-----------------------------------------------------------------------------
(* pbrpc_send_message                                                      *)

\* tp_npipe_write: WriteFile succeeds, and writes every byte, only on an
\* open pipe that has not failed.
NpipeWrite(w) ==
    /\ pipe = "up"
    /\ stream' = Append(stream, [part |-> wpc[w], msg |-> Msg(w)])

\* pbrpc_send_message returns: the drain loop keeps the status in its
\* `status` variable, a connection thread hands it back to its caller.
Finish(w, st) ==
    /\ wpc' = [wpc EXCEPT ![w] = IF w = Io THEN "idle" ELSE "done"]
    /\ status' = IF w = Io THEN st ELSE status

\* The header write; a failure returns at once.
SendHeader(w) ==
    /\ wpc[w] = "hdr"
    /\ \/ /\ NpipeWrite(w)
          /\ wpc' = [wpc EXCEPT ![w] = "pay"]
          /\ UNCHANGED status
       \/ /\ pipe # "up"
          /\ Finish(w, "fail")
          /\ UNCHANGED stream
    /\ UNCHANGED <<pipe, wq, queued, io, iomsg, breaks>>

\* The payload write.
SendPayload(w) ==
    /\ wpc[w] = "pay"
    /\ \/ NpipeWrite(w) /\ Finish(w, "ok")
       \/ pipe # "up" /\ Finish(w, "fail") /\ UNCHANGED stream
    /\ UNCHANGED <<pipe, wq, queued, io, iomsg, breaks>>

-----------------------------------------------------------------------------
(* The I/O thread (pbrpc_main_loop, pbrpc_reconnect)                       *)

\* pbrpc_reconnect up to pbrpc_connect: isConnected = FALSE,
\* tp_npipe_close (hPipe = 0), Queue_Clear.
Close ==
    /\ pipe' = "closed"
    /\ wq' = <<>>
    /\ io' = "rc"

\* pbrpc_connect: pbrpc_transport_open retries until the pipe opens; the
\* new pipe is a new stream for the manager.
Connect ==
    /\ io = "rc"
    /\ pipe' = "up" /\ stream' = <<>>
    /\ io' = "wait"
    /\ UNCHANGED <<wq, queued, iomsg, status, wpc, breaks>>

\* WaitForMultipleObjects returns (status is its result).  A signalled
\* pipe is read first: a failed pipe makes pbrpc_process_message_in fail
\* and the loop reconnect.  Otherwise a signalled write queue starts the
\* drain loop.
Wake ==
    /\ io = "wait"
    /\ \/ /\ pipe = "broken"
          /\ Close
          /\ UNCHANGED status
       \/ /\ pipe = "up" /\ wq # <<>>
          /\ io' = "drain" /\ status' = "ok"
          /\ UNCHANGED <<pipe, wq>>
    /\ UNCHANGED <<stream, queued, iomsg, wpc, breaks>>

\* One turn of `while ((msg = Queue_Dequeue(...)))`: the next frame is
\* written; an empty queue ends the loop, and the status of the last frame
\* written decides whether to reconnect.
DrainNext ==
    /\ io = "drain" /\ wpc[Io] = "idle"
    /\ \/ /\ wq # <<>>
          /\ iomsg' = Head(wq) /\ wq' = Tail(wq)
          /\ wpc' = [wpc EXCEPT ![Io] = "hdr"]
          /\ UNCHANGED <<pipe, io>>
       \/ /\ wq = <<>>
          /\ IF status = "fail" THEN Close ELSE io' = "wait" /\ UNCHANGED <<pipe, wq>>
          /\ UNCHANGED <<iomsg, wpc>>
    /\ UNCHANGED <<stream, queued, status, breaks>>

-----------------------------------------------------------------------------
(* The other threads and the environment                                   *)

\* A caller's Queue_Enqueue of its request frame.
Enqueue(r) ==
    /\ r \notin queued
    /\ queued' = queued \cup {r}
    /\ wq' = Append(wq, r)
    /\ UNCHANGED <<pipe, stream, io, iomsg, status, wpc, breaks>>

\* freerds_icp_SwitchServiceEndpointResponse: pbrpc_process_message_out
\* from the connection thread.
Respond(c) ==
    /\ wpc[c] = "idle"
    /\ wpc' = [wpc EXCEPT ![c] = "hdr"]
    /\ UNCHANGED <<pipe, stream, wq, queued, io, iomsg, status, breaks>>

\* The manager's end goes away: every later write fails.
Break ==
    /\ pipe = "up" /\ breaks < MaxBreaks
    /\ pipe' = "broken" /\ breaks' = breaks + 1
    /\ UNCHANGED <<stream, wq, queued, io, iomsg, status, wpc>>

Next ==
    \/ Connect \/ Wake \/ DrainNext \/ Break
    \/ \E w \in Writers : SendHeader(w) \/ SendPayload(w)
    \/ \E r \in Requests : Enqueue(r)
    \/ \E c \in ConnThreads : Respond(c)

Spec == Init /\ [][Next]_vars

-----------------------------------------------------------------------------
(* Properties                                                              *)

TypeOK ==
    /\ pipe \in {"up", "broken", "closed"}
    /\ stream \in Seq([part : {"hdr", "pay"}, msg : Msgs])
    /\ wpc \in [Writers -> {"idle", "hdr", "pay", "done"}]
    /\ status \in {"ok", "fail"}

\* The manager can parse what is on the pipe: every payload follows the
\* header of the same message, and a header is followed by nothing or by
\* its own payload.  pbrpc_send_message's two writes from the I/O thread
\* and from connection threads, and across the I/O thread's reconnect,
\* must not interleave.
FramesIntact ==
    \A i \in 1..Len(stream) :
        /\ stream[i].part = "pay" =>
               i > 1 /\ stream[i - 1] = [part |-> "hdr", msg |-> stream[i].msg]
        /\ stream[i].part = "hdr" /\ i < Len(stream) =>
               stream[i + 1] = [part |-> "pay", msg |-> stream[i].msg]

=============================================================================
