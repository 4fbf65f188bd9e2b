------------------------------ MODULE MC_PbRpc ------------------------------
(* Instantiation of PbRpc for TLC: the caller threads are model values,    *)
(* the other constants are given in the .cfg files.                        *)
EXTENDS PbRpc

CONSTANTS s1, s2, a1

\* Two threads blocking in pbrpc_call_method and one issuing async calls.
MCSyncCallers == {s1, s2}
MCAsyncCallers == {a1}

\* One thread that calls pbrpc_call_method twice: its second call reuses
\* the stack of its first.
MCOneSyncCaller == {s1}
MCNoAsyncCallers == {}
=============================================================================
