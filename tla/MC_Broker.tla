------------------------------ MODULE MC_Broker -----------------------------
(* Instantiation of Broker for TLC: connections, sessions and task slots   *)
(* are model values, the other constants are given in the .cfg files.      *)
EXTENDS Broker

CONSTANTS c1, c2, ss1, ss2, e1, e2, w1

MCOneConn == {c1}
MCTwoConns == {c1, c2}
MCSessions == {ss1, ss2}
MCEndTasks == {e1}
MCDiscTasks == {e2}
MCSwitchTasks == {w1}
=============================================================================
