--------------------------- MODULE MCRelayBilling ---------------------------
(* Instances of RelayBilling for TLC. *)
EXTENDS RelayBilling, TLC

CONSTANTS r1, r2, t1, t2

\* The token has less than the user, so either can be the one that refuses.
OneUnitToken == [t \in Tokens |-> 1]
TwoUnitToken == [t \in Tokens |-> 2]

RequestSymmetry == Permutations(Requests)
=============================================================================
