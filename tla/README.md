# TLA+ models of FreeRDS

This directory holds:
- TLA+ models of the FreeRDS front end, the session manager and the X11
  service's unicode input (`src/`);
- the TLC configurations that check them;
- `PROJECT.json`, which lists the components, runs, mutants, the map from
  definitions to source lines, the findings and the hazards.

## The system

FreeRDS is an RDP server made of two processes that talk over one named pipe.

- **Front end** (`src/freerds/core/`). It accepts RDP clients and runs one
  *connection thread* per client (`process.c`,
  `freerds_connection_main_thread`). That thread:
  - activates the client with a blocking LogonUser call;
  - services the client, the backend connector and its notification queue;
  - on leaving its loop, releases the connector, reports
    DisconnectUserSession, and removes itself from the server's list.
- **Channel server** (`channels.c`). A session module asks for a dynamic
  channel, and the front end answers with a loopback port and a fresh GUID.
  The module's client dials the port and sends the GUID; `accept` looks it
  up in the GUID table and connects the channel.
- **pbRPC engine** (`rpc.c`). It links the two processes over the pipe.
  - One I/O thread (`pbrpc_main_loop`) owns the pipe.
  - Any thread may call the manager:
    - blocking: `pbrpc_call_method`, with a 10 s timeout and its transaction
      on the caller's stack;
    - fire-and-forget: `pbrcp_call_method_async`, with its transaction on the
      heap.
  - The I/O thread writes the queue and completes the transaction each
    response names. On a transport error it runs `pbrpc_reconnect`, which
    completes every transaction with `PBRCP_TRANSPORT_ERROR`.
- **Deferred requests.** The manager calls the front end with
  SwitchServiceEndpoint, LogoffUser and ChannelEndpointOpen. Their stubs look
  the connection up and post a notification to its queue. The connection
  thread later answers with a `freerds_icp_*Response` function.
- **Session manager** (`src/manager/call`, `src/session-manager`).
  - It handles inbound calls (LogonUser, DisconnectUserSession,
    LogOffUserSession) in arrival order.
  - It runs `TaskEndSession` and `TaskSwitchTo` in executor threads. Each
    sends a request to the front end and waits `INFINITE` for the answer.
- **X11 unicode input** (`src/module/X11/service/rdpInputUnicode.c`). The X
  server's thread posts unicode keyboard events to a queue. A worker thread
  maps each one to a keysym, then a keycode, then key events. This part is
  outside the spec's core; it is modelled from the source alone.

## Modules

| Module | Models |
|---|---|
| `PbRpc` | `rpc.c`: the I/O thread, reconnect, stop, blocking and async calls, the Heartbeat stub |
| `PbRpcAbstract` | What the engine promises: each call issued once, ended once, and (blocking, or engine not stopped) eventually ended |
| `Frontend` | `process.c` connection threads, and the deferred stubs and `*Response` writers of `rpc.c` |
| `Manager` | DisconnectUserSession, LogOffUserSession, EndSession, `TaskEndSession`, `TaskSwitchTo`, plus LogonUser and task creation (from the spec) |
| `Broker` | `Frontend` and `Manager` composed over the two directions of the pipe, with pipe breaks and `freerds_icp_LogOffUserSession` calls |
| `PipeWriters` | `rpc.c`'s writers of the pipe: `pbrpc_send_message`'s two writes from the I/O thread's drain loop and from connection threads, and the reconnect |
| `ChannelServer` | `channels.c` and the ChannelEndpointOpen handler of `process.c` |
| `UnicodeInput` | `rdpInputUnicode.c`: keysym table search, keycode and Shift choice, key events, worker thread, start/post/stop |
| `Encoder` | `encoder.c`: the bitmap encoder's API (new, prepare, reset, create_frame_id, free) with every allocation failure |
| `MC_*` | Model values and small sets for TLC |

### `PbRpc`

- The I/O thread's program counter `io` follows the code in order:
  - `connect`, `wait`, `reply` (Heartbeat);
  - `lookup`, `remove`, `callback`, `free` (`pbrpc_process_response`, one
    step per statement that touches the transaction);
  - `write` (the drain loop);
  - `rc_head`, `rc_callback`, `rc_free` (the reconnect loop);
  - `done`.
- Each blocking caller steps through `register`, `enqueue`, `wait`, `block`
  (the `INFINITE` wait after a failed removal) and `finish`.
- A transaction records its owner and the owner's call number. `Live` says
  whether the stack frame it points into still belongs to that call. A
  write into a returned frame is undefined behaviour. It is modelled as a
  choice: the write lands in the slot (the next call's context, if any), or
  in memory nobody reads.
- The manager's end of the pipe is a peer from the spec. It answers requests
  in any order, sends Heartbeats, and may break the pipe.
- `Refinement` is `PbRpcAbstract!Spec` under a mapping `CallState`:
  - a blocking call is pending while its caller is inside
    `pbrpc_call_method`;
  - an async call is pending until its callback has run.

### `Frontend`, `Manager`, `Broker`

- `Frontend` state:
  - `cpc[c]`, the connection thread's counter: `post`, `allowed`, `loop`,
    `logon`, `teardown`, `disc_wait`, `remove`, `done`;
  - `post[c]`, whether `freerds_peer_post_connect` has run and how many
    IsChannelAllowed calls it still has to make (one per joined channel
    among cliprdr, rdpdr and rdpsnd, at most `MaxJoined`). Each call blocks
    the connection thread; its answer is ignored, and a failed or timed-out
    call reads as "not allowed". The manager's handler is from the spec
    (`Manager!ChannelAllowed`: it always answers). LogonUser starts only
    after post-connect;
  - `connector[c]` and `activated[c]`;
  - `notif[c]`, the notification queue;
  - `fresp[c]`, the answer to a blocking call;
  - `registered`, the server's connection list;
  - `hold`, a request whose connection the I/O thread has looked up but not
    yet posted to.
- `Manager` state:
  - `connStore`, connection to session;
  - `sessions`;
  - per task: `tpc` (`idle`, `start`, `wait`, `done`), `tsess`, `told`,
    `tconn` and `tans`, the answer.
- The two sides share only `toMgr` and `toFe`. `Broker` steps are:
  - `FeStep`, a step of `Frontend!Next`;
  - `MgrStep`, a step of `Manager!Next`;
  - `PipeBreak`: frames in flight are lost, and both engines fail their
    outstanding calls with a transport error.
- A blocking call is abstracted to a request frame, an answer frame and the
  10 s timeout. The engine's own interleavings are checked in `PbRpc`.
- `session.timeout` is read on every DisconnectUserSession call. It is a
  choice from `Timeouts` on each call.
- `LogOffCall(c)` is `freerds_icp_LogOffUserSession` for a running
  connection. No code in `src/` calls that stub, so the caller is the
  environment, bounded by `MaxLogOffs`. No connection thread waits for its
  answer, so the front end's I/O thread drops it. The manager's
  `LogOffUserSession` is `CallInLogOffUserSession::doStuff`.
- The manager's `EndSession` queues a `TaskEndSession` for any session id,
  live or not, as `CallInEndSession::doStuff` does. The task's
  `stopSession` finds no session and does nothing.
- `Frontend!Notify` always lands the answer frame: its write fails only on
  a broken pipe, and `PipeBreak` is one step that loses the frame with the
  pipe. So the `return FALSE` after a failed write (`process.c:375`) is
  never taken.

### `PipeWriters`

- `stream` is the sequence of chunks written to the current pipe. Each
  chunk is a header or a payload, tagged with its message. The manager
  parses it as header, payload, header, and so on.
- `pipe` is `up`, `broken` (every write fails) or `closed` (`hPipe` is 0
  during a reconnect). Reopening it starts a new `stream`.
- `wpc[w]` is each writer's place in `pbrpc_send_message`: `hdr` or `pay`
  next. A failed header write returns at once.
- The writers:
  - the I/O thread `io`: `Wake` is one return of `WaitForMultipleObjects`
    (a failed pipe is read first and reconnects), and `DrainNext` is one
    turn of the drain loop. Only the last write's `status` decides the
    reconnect.
  - each connection thread in `ConnThreads`: `Respond` is a
    `freerds_icp_*Response` call, which writes one response directly.

### `ChannelServer`

- `server` is the listener: `new`, `listening`, `failed` or `closed`. An
  ephemeral-port bind that fails leaves `listenerSocket` 0; open then
  listens on and closes descriptor 0.
- `chan[g]` is `unborn`, `alive` or `freed`. `connected`, `ready`, the GUID
  `table` and the connection's `list` are the rest of the state.
- The other variables:
  - `backlog`: GUIDs presented by pending TCP connections;
  - `short`: GUIDs that arrived in a short read;
  - `dials`: the connection attempts so far.
- Nothing in `src/` opens the server, calls `accept`, or sets
  `connection->channelServer`. The listener thread and the channel clients
  are modelled from the spec.
- Whether the handler registers a new channel is the constant
  `RegisterChannels`:
  - TRUE is the spec's "pre-registered" channel;
  - FALSE is what `freerds_client_process_channel_endpoint_open` does.

### `UnicodeInput`

- Pure part:
  - `keysymtab` abstracts the 773-entry table (sorted by ucs) to eight real
    entries: control characters, a Latin-1 entry the direct mapping shadows,
    searched entries, and a ucs that appears twice;
  - `BSearch` is glibc's `bsearch` (half-open interval, RECURSIVE) with
    `CompareUcs`;
  - `UnicodeToKeysym` applies Latin-1 identity, then the search, then
    `ucs | 0x01000000` (Bitwise).
- The X server's keymap is the constant `KeyMap`:
  - `XKeysymToKeycode` follows Xlib's search, with levels outermost.
- State:
  - `qstate` and `queue` (the wQueue);
  - `cancel`, `worker` and `caller` (the X server's thread, blocked in
    `pthread_join` while `joining`);
  - the histories `posted`, `handled` and `lost`;
  - `out`, the events passed to `enqueueKey`.
- `Dequeue` is one whole loop iteration: take the oldest character and
  enqueue all of its key events. `XOpenDisplay` may fail. An iteration with
  an empty queue changes nothing.

### `Encoder`

- `e` is the `rdsEncoder` struct:
  - `codecs` stands for the codec bits and contexts, which are set and
    cleared together;
  - `fl` and `nfl` are the shared frame list (FALSE when
    `ListDictionary_New` returned NULL, which the init functions do not
    check) and its entry count;
  - `frameId`, `fps`, `maxFps` and `frameAck`;
  - `grid`, which is none, buffer only, or ready;
  - `bs`.
- `marker` is the connection's `SurfaceFrameMarkerEnabled`. `ret` is the
  last call's result.
- Each API function is an action:
  - `Prepare` initialises the requested codecs in the code's order
    (`PrepareFrom`, RECURSIVE), and stops at the first failed context
    allocation;
  - `Reset` is uninit, init, and prepare of the old codecs, with each
    early return;
  - `CreateFrameId` paces (`Pace`), then may fail to allocate the frame.
    It is called only while the frame list exists: with a NULL list the
    outcome is WinPR's handling of NULL, outside this repository.
- Nothing in `src` calls the API, so the environment calls it in any
  order. It calls `create_frame_id` only while a surface codec is prepared.
- Nothing removes a frame from the encoder's list: the acknowledgement
  handler in `process.c` uses `connection->FrameList`. So `nfl` only grows,
  as in the code.

## Runs

| Run | Cfg | Expect | Checks |
|---|---|---|---|
| engine | `MC_PbRpc.cfg` | pass | `TypeOK`, `Refinement` |
| dangling_transaction | `MC_PbRpc_dangling.cfg` | violation | `NoDanglingTransaction` |
| broker_safety | `MC_Broker.cfg` | pass | `TypeOK`, `ConnectionEnds` |
| task_hang | `MC_Broker_hang.cfg` | violation | `TasksReturn` |
| conn_stopped | `MC_Broker_stopped.cfg` | violation | `ConnBoundToLiveSession` |
| orphan_connection | `MC_Broker_orphan.cfg` | violation | `NoOrphanConnection` |
| post_to_freed | `MC_Broker_uaf.cfg` | violation | `NoPostToFreed` |
| channel_provisioning | `MC_ChannelServer.cfg` | pass | `TypeOK` |
| channel_unregistered | `MC_ChannelServer_unreg.cfg` | violation | `ChannelConnects` |
| frame_interleave | `MC_PipeWriters_interleave.cfg` | violation | `FramesIntact` |
| unicode_input | `MC_UnicodeInput.cfg` | pass | `TypeOK`, `BSearchAgrees`, `WorkerProgress` |
| encoder | `MC_Encoder.cfg` | pass | `TypeOK`, `FrameIdsFresh` |

What the passing runs show:

- **engine**, across responses in any order, timeouts racing responses,
  a transport failure in any state, a connect after stop, and tag wrap:
  the engine implements `PbRpcAbstract`. A call ends at most once, every
  blocking call returns, and every async call is called back unless the
  engine was stopped. A reconnect that drops a transaction without its
  callback breaks this: a blocking caller then waits `INFINITE`. The
  reason code the reconnect passes is not told apart.
- **broker_safety**, with LogOffUserSession calls: a connection whose
  client left, or whose process is terminating, always finishes its
  thread, whatever the manager does and despite a pipe break.
- **channel_provisioning**: only the type invariant, including the order
  in which accept sets `connected` and then the ready event. The model
  registers channels as the spec says; with the code's handler nothing
  can connect (see channel_unregistered).
- **unicode_input**, across display failures, a stop with characters
  queued, and a restart:
  - `bsearch` agrees with a linear search on every sorted table of up to
    four entries;
  - every posted character is taken off the queue unless a stop freed it;
  - stop's join returns.
- **encoder**, over every order of API calls and every allocation failure,
  including a failed frame list: frame ids stay fresh within the frame
  list. `frameId` is never behind the number of frames in the list, after
  resets, partial uninits, a second surface codec's prepare and failed
  allocations. That includes 25 frames in flight, where
  `create_frame_id`'s integer division paces to the zero rate.

What the violations show (details in `findings` of `PROJECT.json`):

- **dangling_transaction**: `pbrpc_process_response` looks a transaction up
  and removes it in separate steps. A blocking caller's timeout can remove
  it in between and return. The I/O thread then calls back through the dead
  stack frame (`rpc.c:229-242`), and the same thread's next call can
  receive the previous call's response.
- **task_hang**: a LogoffUser or SwitchServiceEndpoint for a connection that
  is gone, or tearing down, is never answered. The manager's task waits
  `INFINITE`.
- **conn_stopped**: EndSession arrives for the new session of a switch
  that is waiting for the front end. That session has no connection yet,
  so `TaskEndSession` stops it. `TaskSwitchTo` then binds the connection to
  it through `getOrCreateConnection` without looking it up. The connection
  store now names a session that does not exist.
- **orphan_connection**: LogonUser times out after the manager bound the
  session. No connector is created, so teardown never reports
  DisconnectUserSession, and the session stays bound to a dead connection.
- **post_to_freed**: the I/O thread posts to a connection that its thread
  removed and freed after the lookup.
- **channel_unregistered**: the ChannelEndpointOpen handler never adds the
  channel to the table or the list, so no client can ever connect.
- **frame_interleave**: a connection thread writes a deferred response
  while the I/O thread drains the write queue. The I/O thread writes a
  request header, and the connection thread's header follows it. The
  manager reads that header as the request's payload (`rpc.c:761`,
  `rpc.c:213-218`).

## Mutants

Each property of a passing run has a mutant. A mutant is a plausible bug in
the mapped code, and TLC must catch it.

| Run | Mutant | Plausible bug | Caught by |
|---|---|---|---|
| engine | `GetTagUnwrapped` | A tag counter that does not wrap | `TypeOK` |
| engine | `RcCallbackSkipped` | Freeing without calling back | `Refinement` |
| broker_safety | `AnswerRequestId` | Answer packed under the request id | `TypeOK` |
| broker_safety | `ClientBreakActivated` | Leaving the loop only for an activated client | `ConnectionEnds` |
| channel_provisioning | `AcceptNotConnected` | Signalling ready without setting `connected` | `TypeOK` |
| unicode_input | `AddUnicodeEventAsyncNoCheck` | The `code == 0` test dropped | `TypeOK` |
| unicode_input | `CompareUcsLe` | `<=` for `<` in `compare_ucs` | `BSearchAgrees` |
| unicode_input | `HasWorkOffByOne` | `Queue_Count > 1` | `WorkerProgress` |
| encoder | `UninitKeepsFrameList` | The uninit functions leave the frame list allocated | `TypeOK` |
| encoder | `FrameListInitRenumbers` | An init that resets `frameId` while keeping the shared list | `FrameIdsFresh` |

## Bounds

| Model | Bound | Why it is enough |
|---|---|---|
| PbRpc | One blocking and one async caller | Both transaction kinds; two table entries, so responses arrive out of order |
| PbRpc | `MaxCalls` 1; `TagBits` 1 (2 in the dangling run) | The two calls take tags 1 and, wrapped, 0 |
| PbRpc | `MaxBreaks` 2; `MaxHeartbeats` 1 | Two breaks let a reconnect meet a broken pipe |
| Broker | One connection; two sessions | A logon's session and a switch's |
| Broker | Task slots: one `TaskEndSession` from EndSession, one from DisconnectUserSession, one `TaskSwitchTo` | One of each origin. A connection disconnects at most once. |
| Broker | `Timeouts` {0, 60}; `MaxBreaks` 1; `MaxLogOffs` 1; `MaxJoined` 1 | Both branches of the session.timeout test; one break; one LogOffUserSession, which meets a bound connection, an unbound one, and the tasks; post-connect with no joined channel or one, so an IsChannelAllowed call can be answered, time out, or be failed by a pipe break |
| PipeWriters | Two requests, one responding connection thread, one failure | A response can land between a request's header and payload, or straddle a reconnect |
| ChannelServer | Two GUIDs and a bogus one; `MaxDials` 4 | A GUID can be presented after its channel connected or was freed, and a bogus one |
| UnicodeInput | Five characters; `MaxPosts` 3; `MaxStarts` 2 | Each lookup path; a stop with characters queued, then a restart |
| UnicodeInput | Keymap of five keys, two levels | Shift and no-Shift keys, and characters with no key |
| Encoder | `MaxFrames` 26; `MaxOps` 4 | 25 frames in flight reach the zero rate. Four calls give new, prepare, reset and free, or a failed new and a retry |

`BSearchAgrees` covers every sorted table of up to four entries with values
1..3 (repeats allowed) and every key 0..4. That includes empty tables,
absent keys below, between and above the entries, and runs of equal values.

## Fairness

- **PbRpc**: weak fairness for:
  - the I/O thread, which blocks only in `WaitForMultipleObjects`;
  - the stopping thread after it set the stop event;
  - each caller inside a call, whose 10 s timer always fires;
  - the peer answering what it read.
- **Broker**: weak fairness for:
  - each connection thread (its blocking calls are bounded by the timeout);
  - the front end's I/O thread;
  - the manager's dispatcher and each task thread.

  Clients, termination, new EndSession and switch requests, and pipe breaks
  are never forced.
- **ChannelServer**: weak fairness for accepting each pending connection
  (the listener thread from the spec). Everything else is the environment's.
- **Encoder**: no fairness. It is a passive object, and only safety is checked.
- **UnicodeInput**: weak fairness for:
  - the worker, which never blocks more than the 1000 ms of its wait;
  - `pthread_join`.

  The worker is assumed to see `g_cancelUnicodeThread` once it is set. The
  read is a data race, but the loop calls opaque functions, so the value is
  reloaded each time. Start, post and stop are never forced.

Every run turns off deadlock checking because each model really stops: the
callers' calls, the environment's steps and the posts are bounded, and after
them nothing is left to do.

## Not modelled

- **Bitmap encoder** (`encoder.c`):
  - the pixel transforms and the codec contexts' settings;
  - the grid's use. Nothing in `src` reads it, so the ignored `init_grid`
    result and the grid leaked by a failed `freerds_encoder_new` are
    reached but not judged.
- **Headers and generated message types**: declarations only.
- **`channels.c`** leaves out:
  - the data path of `freerds_channel_check_socket` (forwarding to the RDP
    virtual channel), except its failure;
  - `get_channel_event_handles`, a read.
  `is_channel_allowed` and `post_connect` are in `Frontend`.
- **`process.c`** leaves out:
  - input and update callbacks, which forward to the backend;
  - certificate generation;
  - the ChannelEndpointOpen notification path composed with the broker. A
    manager task that sends the notification makes Broker's state space
    several million states with liveness, past a five-minute run. The
    handler's channel side is checked in `ChannelServer`;
  - the desktop-resize branch of `freerds_peer_post_connect`. Its
    adjustments are commented out, so the comparison never differs.
- **Switch failure vs. the spec**: spec §4.3 says a switch whose re-connect
  fails ends the connection. `freerds_client_process_switch_session`
  returns TRUE instead, so the connection runs on with a dead connector
  until the loop sees the broken backend (`ConnectorBreak`). This is
  recorded in the hazard at `process.c:360`; no run slot is spent on it.
- **`rpc.c`**:
  - the split frame writes are in `PipeWriters`, and `Frontend` treats each
    frame as atomic;
  - a short write on a working pipe is not modelled. It would leave the
    drain loop's earlier failure forgotten (`rpc.c:476`);
  - only the violation run checks `PipeWriters`. With the response writers
    in the model, every run of it breaks `FramesIntact`.
- **Manager**: the encode and decode methods of the Call classes, which
  only pack payloads. CallOutSwitchTo's decode always succeeds (`Switched`).
- **`UnicodeInput`** leaves out:
  - what the X server types from the events: `unicode_to_keycode` adds
    Shift to any keysym not on level 0, so an AltGr keysym is typed wrong
    (see the hazard at `rdpInputUnicode.c:867`). No run slot is left for a
    violation run of it;
  - posts outside start..stop, which are a use of a NULL or freed queue by
    a caller that is not in this repository.
