--------------------------- MODULE MCChannelPool ----------------------------
(* Instances of ChannelPool for TLC. *)
EXTENDS ChannelPool

CONSTANTS c1, w1, t1, t2
=============================================================================
