--------------------------- MODULE MC_ChannelServer -------------------------
(* Instantiation of ChannelServer for TLC: two channels of one connection *)
(* and a GUID no channel has.                                              *)
EXTENDS ChannelServer

CONSTANTS g1, g2, gx

MCGuids == {g1, g2}
=============================================================================
