--------------------------- MODULE MCSubscription ---------------------------
(* Instances of Subscription for TLC. *)
EXTENDS Subscription

CONSTANTS r1, h1, h2

=============================================================================
