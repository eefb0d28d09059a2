-------------------------- MODULE MCChannelsPage --------------------------
(* Instances of ChannelsPage for TLC. *)
EXTENDS ChannelsPage
=============================================================================
