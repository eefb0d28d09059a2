--------------------------- MODULE MCChannelRetry ---------------------------
(* Instances of ChannelRetry for TLC. *)
EXTENDS ChannelRetry
=============================================================================
