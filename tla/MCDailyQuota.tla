---------------------------- MODULE MCDailyQuota ----------------------------
(* Instances of DailyQuota for TLC. *)
EXTENDS DailyQuota

CONSTANTS q1, q2

=============================================================================
