--------------------------- MODULE PbRpcAbstract ---------------------------
(***************************************************************************)
(* What the pbRPC engine promises its callers, with no table, queue, pipe  *)
(* or I/O thread: every call is issued at most once, ends at most once,    *)
(* and, once issued, ends: a blocking call always (its timeout bounds it), *)
(* a fire-and-forget call unless the engine has been stopped.  A call may  *)
(* also end without being issued, when the engine is not connected.        *)
(***************************************************************************)
CONSTANTS
    Calls,      \* call identities
    SyncCalls   \* those made with the blocking interface

VARIABLES
    st,         \* st[id]: "unissued", "pending" or "done"
    stopped     \* the engine has been told to stop

States == {"unissued", "pending", "done"}

Init ==
    /\ st = [id \in Calls |-> "unissued"]
    /\ stopped = FALSE

\* The call is registered and its request queued.
Issue(id) ==
    /\ st[id] = "unissued"
    /\ st' = [st EXCEPT ![id] = "done"] \/ st' = [st EXCEPT ![id] = "pending"]
    /\ UNCHANGED stopped

\* The caller gets its one result: response, timeout or transport error.
Return(id) ==
    /\ st[id] = "pending"
    /\ st' = [st EXCEPT ![id] = "done"]
    /\ UNCHANGED stopped

Stop ==
    /\ ~stopped
    /\ stopped' = TRUE
    /\ UNCHANGED st

Next == Stop \/ \E id \in Calls : Issue(id) \/ Return(id)

\* A blocking call always returns; a fire-and-forget call is owed its
\* callback only while the engine runs.
Owed(id) == Return(id) /\ (id \in SyncCalls \/ ~stopped)

Spec == Init /\ [][Next]_<<st, stopped>> /\ \A id \in Calls : WF_<<st, stopped>>(Owed(id))

=============================================================================
