---------------------------- MODULE QuotaAccount ----------------------------
(***************************************************************************)
(* What a quota account promises, whoever keeps it and however many steps  *)
(* a charge takes.  An account (the user's quota column, or one token's    *)
(* remain_quota column) is funded once; a request may have an outstanding  *)
(* amount against it: positive while quota is held for it, negative while  *)
(* it still owes the part of its price the hold did not cover.             *)
(*                                                                         *)
(* RelayBilling implements this specification once for the user's account  *)
(* and once for every token.                                               *)
(***************************************************************************)
EXTENDS Integers

CONSTANTS
    Requests,   \* requests that can be in flight together
    Funded,     \* what the account holds at the start
    Faults      \* TRUE iff failed writes and crashes may strand an amount

VARIABLES
    balance,      \* what the account can still spend
    billed,       \* the prices of the requests that were served
    outstanding,  \* [Requests -> Int], held (> 0) or owed (< 0)
    stranded      \* [Requests -> Int], outstanding amounts nobody settles

acctVars == <<balance, billed, outstanding, stranded>>

Init ==
    /\ balance = Funded
    /\ billed = 0
    /\ outstanding = [r \in Requests |-> 0]
    /\ stranded = [r \in Requests |-> 0]

\* A request that has nothing outstanding sets a positive amount aside.
Reserve(r) ==
    /\ outstanding[r] = 0
    /\ balance' < balance
    /\ outstanding' = [outstanding EXCEPT ![r] = balance - balance']
    /\ UNCHANGED <<billed, stranded>>

\* The price of a served request is fixed: it eats the hold, or is owed.
Serve(r) ==
    /\ billed' >= billed
    /\ outstanding' = [outstanding EXCEPT ![r] = @ - (billed' - billed)]
    /\ UNCHANGED <<balance, stranded>>

\* The whole outstanding amount goes back to, or is taken from, the account.
Square(r) ==
    /\ outstanding[r] # 0
    /\ balance' = balance + outstanding[r]
    /\ outstanding' = [outstanding EXCEPT ![r] = 0]
    /\ UNCHANGED <<billed, stranded>>

\* A fault: the amounts outstanding for the requests in S are never settled.
Abandon(S) ==
    /\ Faults
    /\ outstanding' = [r \in Requests |-> IF r \in S THEN 0 ELSE outstanding[r]]
    /\ stranded' = [r \in Requests |->
                       IF r \in S THEN stranded[r] + outstanding[r] ELSE stranded[r]]
    /\ UNCHANGED <<balance, billed>>

Next ==
    \/ \E r \in Requests : Reserve(r) \/ Serve(r) \/ Square(r)
    \/ \E S \in SUBSET Requests : Abandon(S)

Spec == Init /\ [][Next]_acctVars
=============================================================================
