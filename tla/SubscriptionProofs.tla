------------------------- MODULE SubscriptionProofs -------------------------
(***************************************************************************)
(* Theorems about a user's subscriptions: any number of subscriptions,     *)
(* overlapping deliveries and requests, operations and failures, and any   *)
(* time.                                                                   *)
(***************************************************************************)
EXTENDS Subscription, FiniteSetTheorems, WellFoundedInduction, TLAPS

-----------------------------------------------------------------------------
(* The invariant                                                           *)

\* Deliveries that have found subscription s pending and have not ended.
Begun(s) == {h \in Hooks : hook[h] = s}

\* A subscription is credited by the deliveries that have begun and by hand; a
\* pending one was not, one that an administrator has inserted is paid by nobody.
Credits ==
    /\ \A s \in Subs : granted[s] + Cardinality(Begun(s)) <= Cardinality(Hooks) + byHand[s]
    /\ \A s \in Subs : status[s] \in {"none", "pending"} => granted[s] = 0
    /\ \A s \in Subs, h \in Hooks : status[s] = "none" => hook[h] # s
    /\ granting # None => /\ status[granting] \notin {"none", "pending"}
                          /\ granted[granting] <= byHand[granting]
                          /\ \A h \in Hooks : hook[h] # granting

\* The user's pending orders, and the requests that have found none.
Pending == {s \in Subs : status[s] = "pending"}
Creating == {c \in Creators : creator[c] # None}

Orders ==
    Pending # {} => Cardinality(Pending) + Cardinality(Creating) <= Cardinality(Creators)

\* What is active now and was not when an open expiry counted was activated since,
\* or will be.
Counted ==
    \A e \in Expirers : (expirer[e] # NoExpiry /\ expirer[e].reset /\ count.failures = 0) =>
        Current \ {expirer[e].sub} \subseteq since[e] \cup {granting}

Plans == ActiveHasPlan /\ Counted /\ (grantEnd = 0 \/ granting = None)

\* The inductive invariant.
Inv == TypeOK /\ Credits /\ Orders /\ Plans

-----------------------------------------------------------------------------
(* The end of the last subscription                                        *)

\* Finitely many numbers have a greatest one: of the sets without one none
\* could be the smallest.
LEMMA GreatestExists ==
    ASSUME NEW S \in SUBSET Nat, IsFiniteSet(S), S # {}
    PROVE  Max(S) \in S
<1> DEFINE Great(U) == \E x \in U : \A y \in U : x >= y
           T == {U \in SUBSET S : U # {} /\ ~Great(U)}
<1>1. T = {}
  <2>1. SUFFICES ASSUME T # {} PROVE FALSE
    OBVIOUS
  <2>2. IsWellFoundedOn(StrictSubsetOrdering(S), SUBSET S)
    BY FS_StrictSubsetOrderingWellFounded, FS_FiniteSubsetsOfFinite
  <2>3. PICK U \in T : \A V \in T : <<V, U>> \notin StrictSubsetOrdering(S)
    <3>1. T \subseteq SUBSET S
      OBVIOUS
    <3> HIDE DEF T
    <3> QED BY <2>1, <2>2, <3>1, WFMin
  <2>4. PICK x \in U : TRUE
    OBVIOUS
  <2>5. U \ {x} # {}
    <3>1. SUFFICES ASSUME U = {x} PROVE FALSE
      BY <2>4
    <3>2. x \in Nat
      BY <2>4
    <3> QED BY <3>1, <3>2
  <2>6. U \ {x} \notin T
    BY <2>3, <2>4 DEF StrictSubsetOrdering
  <2>7. PICK m \in U \ {x} : \A y \in U \ {x} : m >= y
    BY <2>5, <2>6
  <2>8. U \subseteq Nat /\ m \in Nat /\ x \in Nat
    BY <2>4
  <2>9. CASE m >= x
    <3>1. \A y \in U : m >= y
      BY <2>7, <2>9
    <3> QED BY <2>7, <3>1
  <2>10. CASE x > m
    <3>1. \A y \in U : x >= y
      BY <2>7, <2>8, <2>10
    <3> QED BY <2>4, <3>1
  <2> QED BY <2>8, <2>9, <2>10
<1>2. Great(S)
  BY <1>1
<1> QED BY <1>2 DEF Max

LEMMA ExpiryIsNat == TypeOK => NextExpiry \in Nat
<1> SUFFICES ASSUME TypeOK PROVE NextExpiry \in Nat
  OBVIOUS
<1> DEFINE ends == {expires[s] : s \in Current}
           f == [s \in Current |-> expires[s]]
<1>1. now \in Nat /\ ends \subseteq Nat
  BY SubscriptionAssumption DEF TypeOK, Current
<1>2. IsFiniteSet(Current)
  BY SubscriptionAssumption, FS_Subset DEF Current
<1>3. f \in Surjection(Current, ends)
  BY DEF Surjection
<1>4. IsFiniteSet(ends)
  <2> HIDE DEF ends, f
  <2> QED BY <1>2, <1>3, FS_Surjection
<1>5. IsFiniteSet({now} \cup ends)
  BY <1>4, FS_AddElement
<1>6. Max({now} \cup ends) \in {now} \cup ends
  <2> HIDE DEF ends
  <2> QED BY <1>1, <1>5, GreatestExists
<1> QED BY <1>1, <1>6 DEF NextExpiry

-----------------------------------------------------------------------------
(* Types                                                                   *)

Counters == {"deliveries", "ops", "failures"}

LEMMA Counting ==
    ASSUME count \in [Counters -> Nat], NEW w \in Counters, NEW max, Count(w, max)
    PROVE  /\ count' \in [Counters -> Nat] /\ (count'.failures = 0 => count.failures = 0)
           /\ w = "failures" => count'.failures # 0
BY DEF Count, Counters

\* What the types say of the row, the user and the history.
RowTypes ==
    /\ status \in [Subs -> Statuses] /\ created \in [Subs -> 0..MaxTime]
    /\ expires \in [Subs -> Nat] /\ plan \in BOOLEAN
    /\ role \in {"common", "subscriber", "admin"} /\ granted \in [Subs -> Nat]
    /\ since \in [Expirers -> SUBSET Subs] /\ overtaken \in BOOLEAN

LEMMA ActivateTypes ==
    ASSUME TypeOK, NEW s \in Subs,
           Activate(s) \/ UNCHANGED <<status, user, since, overtaken>>,
           UNCHANGED <<created, expires>>
    PROVE  RowTypes'
<1>1. CASE Activate(s)
  <2>1. since' \in [Expirers -> SUBSET Subs] /\ overtaken' \in BOOLEAN
    BY <1>1 DEF TypeOK, Activate
  <2>2. status' \in [Subs -> Statuses] /\ plan' \in BOOLEAN /\ granted' \in [Subs -> Nat]
        /\ role' \in {"common", "subscriber", "admin"}
    BY <1>1 DEF TypeOK, Activate, Statuses
  <2> QED BY <2>1, <2>2 DEF TypeOK, RowTypes
<1>2. CASE UNCHANGED <<status, user, since, overtaken>>
  BY <1>2 DEF TypeOK, RowTypes, user
<1> QED BY <1>1, <1>2

LEMMA WriteTypes ==
    ASSUME TypeOK, NEW s \in Subs, NEW st \in Statuses, WriteStatus(s, st)
    PROVE  status' \in [Subs -> Statuses]
BY DEF TypeOK, WriteStatus

LEMMA StepTypes == ASSUME TypeOK, Next PROVE TypeOK'
<1> USE DEF rows, user, requests, jobs, grants, history
<1>1. ASSUME NEW c \in Creators, CheckOrders(c) PROVE TypeOK'
  BY <1>1 DEF TypeOK, CheckOrders
<1>2. ASSUME NEW c \in Creators, ComputeExpiry(c) PROVE TypeOK'
  BY <1>2, ExpiryIsNat DEF TypeOK, ComputeExpiry
<1>3. ASSUME NEW c \in Creators, NEW s \in Subs, InsertOrder(c, s) PROVE TypeOK'
  BY <1>3 DEF TypeOK, InsertOrder, Insert, Statuses
<1>4. ASSUME NEW s \in Subs, RefuseRead(s) PROVE TypeOK'
  BY <1>4 DEF TypeOK, RefuseRead
<1>5. ASSUME NEW s \in Subs, RefuseWrite(s) PROVE TypeOK'
  BY <1>5, WriteTypes DEF TypeOK, RefuseWrite, WriteStatus, Statuses
<1>6. ASSUME NEW h \in Hooks, NEW s \in Subs, PaymentRead(h, s) PROVE TypeOK'
  <2>1. count' \in [Counters -> Nat]
    BY <1>6, Counting DEF TypeOK, PaymentRead, Counters
  <2> QED BY <1>6, <2>1 DEF TypeOK, PaymentRead, Counters
<1>7. ASSUME NEW h \in Hooks, PaymentActivate(h) PROVE TypeOK'
  <2>1. count' \in [Counters -> Nat]
    BY <1>7, Counting DEF TypeOK, PaymentActivate, Counters
  <2>2. hook[h] \in Subs
    BY <1>7 DEF TypeOK, PaymentActivate
  <2>3. RowTypes'
    BY <1>7, <2>2, ActivateTypes DEF PaymentActivate
  <2> QED BY <1>7, <2>1, <2>2, <2>3 DEF TypeOK, PaymentActivate, RowTypes, Counters
<1>8. ASSUME NEW s \in Subs, ActivateByHand(s) PROVE TypeOK'
  <2>1. count' \in [Counters -> Nat]
    BY <1>8, Counting DEF TypeOK, ActivateByHand, Counters
  <2>2. RowTypes'
    BY <1>8, ActivateTypes DEF ActivateByHand
  <2>3. byHand' \in [Subs -> Nat]
    BY <1>8 DEF TypeOK, ActivateByHand
  <2> QED BY <1>8, <2>1, <2>2, <2>3 DEF TypeOK, ActivateByHand, RowTypes, Counters
<1>9. CASE GrantRead
  <2>1. count' \in [Counters -> Nat]
    BY <1>9, Counting DEF TypeOK, GrantRead, Counters
  <2>2. grantEnd' \in Nat
    BY <1>9, ExpiryIsNat, SubscriptionAssumption DEF TypeOK, GrantRead
  <2> QED BY <1>9, <2>1, <2>2 DEF TypeOK, GrantRead, Counters
<1>10. ASSUME NEW s \in Subs, Grant(s) PROVE TypeOK'
  BY <1>10 DEF TypeOK, Grant, Insert, Statuses
<1>11. CASE GrantActivate
  <2>1. count' \in [Counters -> Nat]
    BY <1>11, Counting DEF TypeOK, GrantActivate, Counters
  <2>2. granting \in Subs
    BY <1>11 DEF TypeOK, GrantActivate
  <2>3. RowTypes'
    BY <1>11, <2>2, ActivateTypes DEF GrantActivate
  <2> QED BY <1>11, <2>1, <2>3 DEF TypeOK, GrantActivate, RowTypes, Counters
<1>12. ASSUME NEW s \in Subs, GrantInternal(s) PROVE TypeOK'
  <2>1. count' \in [Counters -> Nat]
    BY <1>12, Counting DEF TypeOK, GrantInternal, Counters
  <2>2. RowTypes'
    <3>1. created' \in [Subs -> 0..MaxTime] /\ expires' \in [Subs -> Nat]
      BY <1>12, SubscriptionAssumption DEF TypeOK, GrantInternal, Insert
    <3>2. since' \in [Expirers -> SUBSET Subs] /\ overtaken' \in BOOLEAN
      BY <1>12 DEF TypeOK, GrantInternal, Activate
    <3>3. status' \in [Subs -> Statuses] /\ granted' \in [Subs -> Nat]
          /\ plan' \in BOOLEAN /\ role' \in {"common", "subscriber", "admin"}
      BY <1>12 DEF TypeOK, GrantInternal, Activate, Statuses
    <3> QED BY <3>1, <3>2, <3>3 DEF RowTypes
  <2> QED BY <1>12, <2>1, <2>2 DEF TypeOK, GrantInternal, RowTypes, Counters
<1>13. CASE ListOverdue
  BY <1>13 DEF TypeOK, ListOverdue
<1>14. ASSUME NEW e \in Expirers, NEW s \in Subs, ExpireCount(e, s) PROVE TypeOK'
  <2>1. count' \in [Counters -> Nat] /\ overdue' \subseteq Subs
    BY <1>14, Counting DEF TypeOK, ExpireCount, Expires, Counters
  <2>2. expirer' \in [Expirers -> {NoExpiry} \cup
                                 [sub : Subs, reset : BOOLEAN, lower : BOOLEAN]]
    BY <1>14 DEF TypeOK, ExpireCount
  <2> QED BY <1>14, <2>1, <2>2 DEF TypeOK, ExpireCount, Expires, Counters
<1>15. ASSUME NEW e \in Expirers, ExpireCommit(e) PROVE TypeOK'
  <2>1. count' \in [Counters -> Nat]
    BY <1>15, Counting DEF TypeOK, ExpireCommit, Counters
  <2>2. /\ expirer' \in [Expirers -> {NoExpiry} \cup
                                    [sub : Subs, reset : BOOLEAN, lower : BOOLEAN]]
        /\ since' \in [Expirers -> SUBSET Subs]
    BY <1>15 DEF TypeOK, ExpireCommit
  <2>3. status' \in [Subs -> Statuses] /\ plan' \in BOOLEAN /\ overtaken' \in BOOLEAN
        /\ role' \in {"common", "subscriber", "admin"}
    BY <1>15 DEF TypeOK, ExpireCommit, Statuses
  <2> QED BY <1>15, <2>1, <2>2, <2>3 DEF TypeOK, ExpireCommit, Counters
<1>16. CASE ListStale
  BY <1>16 DEF TypeOK, ListStale
<1>17. ASSUME NEW s \in Subs, CleanUp(s) PROVE TypeOK'
  BY <1>17, WriteTypes DEF TypeOK, CleanUp, WriteStatus, Statuses
<1>18. ASSUME NEW s \in Subs, CancelRead(s) PROVE TypeOK'
  <2>1. count' \in [Counters -> Nat]
    BY <1>18, Counting DEF TypeOK, CancelRead, Counters
  <2> QED BY <1>18, <2>1 DEF TypeOK, CancelRead, Counters
<1>19. ASSUME NEW s \in Subs, CancelWrite(s) PROVE TypeOK'
  BY <1>19, WriteTypes DEF TypeOK, CancelWrite, WriteStatus, Statuses
<1>20. ASSUME NEW s \in Subs, Refund(s) PROVE TypeOK'
  <2>1. count' \in [Counters -> Nat]
    BY <1>20, Counting DEF TypeOK, Refund, Counters
  <2> QED BY <1>20, <2>1, WriteTypes DEF TypeOK, Refund, WriteStatus, Counters, Statuses
<1>21. CASE Tick
  BY <1>21, SubscriptionAssumption DEF TypeOK, Tick
<1> QED
  BY <1>1, <1>2, <1>3, <1>4, <1>5, <1>6, <1>7, <1>8, <1>9, <1>10, <1>11, <1>12, <1>13,
     <1>14, <1>15, <1>16, <1>17, <1>18, <1>19, <1>20, <1>21
     DEF Next, Order, Pay, Administer, Stop, Finish, ExpiryJob, CleanupJob, Expirers

-----------------------------------------------------------------------------
(* Credits                                                                 *)

LEMMA BegunFinite ==
    \A s \in Subs : /\ IsFiniteSet(Begun(s)) /\ Cardinality(Begun(s)) \in Nat
                    /\ Cardinality(Begun(s)) <= Cardinality(Hooks)
                    /\ Cardinality(Hooks) \in Nat /\ Cardinality(Hooks) >= 1
<1> SUFFICES ASSUME NEW s \in Subs
             PROVE  /\ IsFiniteSet(Begun(s)) /\ Cardinality(Begun(s)) \in Nat
                    /\ Cardinality(Begun(s)) <= Cardinality(Hooks)
                    /\ Cardinality(Hooks) \in Nat /\ Cardinality(Hooks) >= 1
  OBVIOUS
<1>1. IsFiniteSet(Hooks) /\ Hooks # {} /\ Begun(s) \subseteq Hooks
  BY SubscriptionAssumption DEF Begun
<1>2. Cardinality(Hooks) \in Nat /\ Cardinality(Hooks) # 0
  BY <1>1, FS_CardinalityType, FS_EmptySet
<1> QED BY <1>1, <1>2, FS_Subset, FS_CardinalityType

\* Steps that credit nothing, insert no grant and leave the deliveries alone.
LEMMA CreditsKeep ==
    ASSUME Credits, UNCHANGED <<granted, byHand, hook, granting>>, granting \in Subs \cup {None},
           \A x \in Subs : /\ status'[x] \in {"none", "pending"} => status[x] \in {"none", "pending"}
                           /\ status'[x] = "none" => status[x] = "none"
    PROVE  Credits'
<1>1. \A x \in Subs : Begun(x)' = Begun(x)
  BY DEF Begun
<1> QED BY <1>1 DEF Credits

LEMMA CreditsRead ==
    ASSUME TypeOK, Credits, NEW h \in Hooks, NEW s \in Subs, PaymentRead(h, s)
    PROVE  Credits'
<1>1. UNCHANGED <<status, granted, byHand, granting>>
  BY DEF PaymentRead, rows, user, grants, history
<1>2. CASE status[s] = "pending"
  <2>1. hook' = [hook EXCEPT ![h] = s]
    BY <1>2 DEF PaymentRead
  <2>2. \A x \in Subs \ {s} : Begun(x)' \subseteq Begun(x)
    BY <2>1 DEF Begun, TypeOK
  <2>3. \A x \in Subs \ {s} : Cardinality(Begun(x)') <= Cardinality(Begun(x))
    BY <2>2, BegunFinite, FS_Subset
  <2>4. Begun(s)' \subseteq Hooks
    BY DEF Begun
  <2>5. Cardinality(Begun(s)') <= Cardinality(Hooks)
    BY <2>4, FS_Subset, SubscriptionAssumption
  <2>6. granted[s] = 0 /\ byHand[s] \in Nat
    BY <1>2 DEF Credits, TypeOK
  <2>7. \A x \in Subs : Begun(x)' \subseteq Hooks
    BY DEF Begun
  <2>8. \A x \in Subs : Cardinality(Begun(x)') \in Nat
    BY <2>7, FS_Subset, FS_CardinalityType, SubscriptionAssumption
  <2>9. \A x \in Subs : granted[x] \in Nat /\ byHand[x] \in Nat
    BY DEF TypeOK
  <2>10. \A x \in Subs : granted'[x] + Cardinality(Begun(x)') <= Cardinality(Hooks) + byHand'[x]
    <3> SUFFICES ASSUME NEW x \in Subs
                 PROVE  granted[x] + Cardinality(Begun(x)') <= Cardinality(Hooks) + byHand[x]
      BY <1>1
    <3>1. CASE x = s
      BY <2>5, <2>6, <2>8, <3>1, BegunFinite
    <3>2. CASE x # s
      <4>1. granted[x] + Cardinality(Begun(x)) <= Cardinality(Hooks) + byHand[x]
        BY DEF Credits
      <4> QED BY <2>3, <2>8, <2>9, <3>2, <4>1, BegunFinite
    <3> QED BY <3>1, <3>2
  <2>11. \A g \in Hooks : hook'[g] = hook[g] \/ hook'[g] = s
    BY <2>1 DEF TypeOK
  <2>12. \A x \in Subs, g \in Hooks : status'[x] = "none" => hook'[g] # x
    BY <1>1, <1>2, <2>11 DEF Credits
  <2>13. granting' # None => \A g \in Hooks : hook'[g] # granting'
    BY <1>1, <1>2, <2>11 DEF Credits
  <2> QED BY <1>1, <2>10, <2>12, <2>13 DEF Credits
<1>3. CASE status[s] # "pending"
  <2>1. hook' = hook
    BY <1>3 DEF PaymentRead
  <2> QED BY <1>1, <2>1, CreditsKeep DEF TypeOK
<1> QED BY <1>2, <1>3

\* What the deliveries have begun, when one of them ends.
LEMMA EndedBegun ==
    ASSUME TypeOK, NEW h \in Hooks, NEW s \in Subs, hook[h] = s,
           hook' = [hook EXCEPT ![h] = None]
    PROVE  /\ Cardinality(Begun(s)') = Cardinality(Begun(s)) - 1
           /\ \A x \in Subs \ {s} : Begun(x)' = Begun(x)
           /\ \A g \in Hooks : hook'[g] = hook[g] \/ hook'[g] = None
<1>1. /\ hook'[h] = None /\ None \notin Subs
      /\ \A g \in Hooks \ {h} : hook'[g] = hook[g]
  BY SubscriptionAssumption DEF TypeOK
<1>2. Begun(s)' = Begun(s) \ {h} /\ h \in Begun(s)
  BY <1>1 DEF Begun
<1>3. Cardinality(Begun(s) \ {h}) = Cardinality(Begun(s)) - 1
  BY <1>2, BegunFinite, FS_RemoveElement
<1>4. \A x \in Subs \ {s} : Begun(x)' = Begun(x)
  BY <1>1 DEF Begun
<1>5. \A g \in Hooks : hook'[g] = hook[g] \/ hook'[g] = None
  BY <1>1
<1>6. Cardinality(Begun(s)') = Cardinality(Begun(s)) - 1
  BY <1>2, <1>3
<1> QED BY <1>4, <1>5, <1>6

\* A subscription is activated: by a delivery that ends, by hand, by a grant, or
\* as it is inserted.
LEMMA CreditsActivate ==
    ASSUME TypeOK, Credits, NEW s \in Subs, Activate(s),
           \/ /\ \E h \in Hooks : hook[h] = s /\ hook' = [hook EXCEPT ![h] = None]
              /\ UNCHANGED <<byHand, granting>>
           \/ byHand' = [byHand EXCEPT ![s] = @ + 1] /\ UNCHANGED <<hook, granting>>
           \/ granting = s /\ granting' = None /\ UNCHANGED <<hook, byHand>>
           \/ status[s] = "none" /\ UNCHANGED <<hook, byHand, granting>>
    PROVE  Credits'
<1>1. /\ status'[s] = "active" /\ granted'[s] = granted[s] + 1
      /\ \A x \in Subs \ {s} : status'[x] = status[x] /\ granted'[x] = granted[x]
  BY DEF Activate, TypeOK
<1>2. \A x \in Subs : /\ granted[x] \in Nat /\ byHand[x] \in Nat
                      /\ granted[x] + Cardinality(Begun(x)) <= Cardinality(Hooks) + byHand[x]
  BY DEF Credits, TypeOK
<1>3. None \notin Subs
  BY SubscriptionAssumption
<1>4. \A x \in Subs : status'[x] \in {"none", "pending"} => granted'[x] = 0
  BY <1>1 DEF Credits
<1>5. ASSUME NEW h \in Hooks, hook[h] = s, hook' = [hook EXCEPT ![h] = None],
             UNCHANGED <<byHand, granting>>
      PROVE  Credits'
  <2>1. /\ Cardinality(Begun(s)') = Cardinality(Begun(s)) - 1
        /\ \A x \in Subs \ {s} : Begun(x)' = Begun(x)
        /\ \A g \in Hooks : hook'[g] = hook[g] \/ hook'[g] = None
    BY <1>5, EndedBegun
  <2>2. \A x \in Subs : granted'[x] + Cardinality(Begun(x)') <= Cardinality(Hooks) + byHand'[x]
    <3> SUFFICES ASSUME NEW x \in Subs
                 PROVE  granted'[x] + Cardinality(Begun(x)') <= Cardinality(Hooks) + byHand'[x]
      OBVIOUS
    <3>1. CASE x = s
      BY <1>1, <1>2, <1>5, <2>1, <3>1, BegunFinite
    <3>2. CASE x # s
      BY <1>1, <1>2, <1>5, <2>1, <3>2
    <3> QED BY <3>1, <3>2
  <2>3. granting # s
    BY <1>3, <1>5 DEF Credits
  <2>4. \A x \in Subs, g \in Hooks : status'[x] = "none" => hook'[g] # x
    BY <1>1, <1>3, <2>1 DEF Credits
  <2>5. granting # None => \A g \in Hooks : hook'[g] # granting
    BY <2>1 DEF Credits
  <2> QED BY <1>1, <1>4, <1>5, <2>2, <2>3, <2>4, <2>5 DEF Credits, TypeOK
<1>6. ASSUME byHand' = [byHand EXCEPT ![s] = @ + 1], UNCHANGED <<hook, granting>>
      PROVE  Credits'
  <2>1. byHand'[s] = byHand[s] + 1 /\ \A x \in Subs \ {s} : byHand'[x] = byHand[x]
    BY <1>6 DEF TypeOK
  <2>2. \A x \in Subs : Begun(x)' = Begun(x)
    BY <1>6 DEF Begun
  <2>3. \A x \in Subs : granted'[x] + Cardinality(Begun(x)') <= Cardinality(Hooks) + byHand'[x]
    <3> SUFFICES ASSUME NEW x \in Subs
                 PROVE  granted'[x] + Cardinality(Begun(x)') <= Cardinality(Hooks) + byHand'[x]
      OBVIOUS
    <3>1. CASE x = s
      BY <1>1, <1>2, <2>1, <2>2, <3>1, BegunFinite
    <3>2. CASE x # s
      BY <1>1, <1>2, <2>1, <2>2, <3>2
    <3> QED BY <3>1, <3>2
  <2>4. \A x \in Subs, g \in Hooks : status'[x] = "none" => hook'[g] # x
    BY <1>1, <1>6 DEF Credits
  <2>5. granting # None =>
            status'[granting] \notin {"none", "pending"} /\ granted'[granting] <= byHand'[granting]
    <3> SUFFICES ASSUME granting # None
                 PROVE  /\ status'[granting] \notin {"none", "pending"}
                        /\ granted'[granting] <= byHand'[granting]
      OBVIOUS
    <3>1. granting \in Subs /\ granted[granting] <= byHand[granting]
          /\ status[granting] \notin {"none", "pending"}
      BY DEF Credits, TypeOK
    <3>2. CASE granting = s
      BY <1>1, <1>2, <2>1, <3>1, <3>2
    <3>3. CASE granting # s
      BY <1>1, <2>1, <3>1, <3>3
    <3> QED BY <3>2, <3>3
  <2> QED BY <1>4, <1>6, <2>3, <2>4, <2>5 DEF Credits
<1>7. ASSUME UNCHANGED <<hook, byHand>>,
             \/ granting = s /\ granting' = None
             \/ status[s] = "none" /\ granting' = granting
      PROVE  Credits'
  <2>1. granted[s] <= byHand[s] /\ \A h \in Hooks : hook[h] # s
    BY <1>2, <1>3, <1>7 DEF Credits
  <2>2. Begun(s) = {}
    BY <2>1 DEF Begun
  <2>3. Cardinality(Begun(s)) = 0
    BY <2>2, FS_EmptySet
  <2>4. \A x \in Subs : Begun(x)' = Begun(x)
    BY <1>7 DEF Begun
  <2>5. \A x \in Subs : granted'[x] + Cardinality(Begun(x)') <= Cardinality(Hooks) + byHand'[x]
    <3> SUFFICES ASSUME NEW x \in Subs
                 PROVE  granted'[x] + Cardinality(Begun(x)) <= Cardinality(Hooks) + byHand[x]
      BY <1>7, <2>4
    <3>1. CASE x = s
      BY <1>1, <1>2, <2>1, <2>3, <3>1, BegunFinite
    <3>2. CASE x # s
      BY <1>1, <1>2, <3>2
    <3> QED BY <3>1, <3>2
  <2>6. \A x \in Subs, g \in Hooks : status'[x] = "none" => hook'[g] # x
    BY <1>1, <1>7 DEF Credits
  <2>7. granting' # None => granting' = granting /\ granting # s
    BY <1>7 DEF Credits
  <2> QED BY <1>1, <1>4, <1>7, <2>5, <2>6, <2>7 DEF Credits, TypeOK
<1> QED BY <1>5, <1>6, <1>7

\* An administrator's grant is inserted.
LEMMA CreditsGrant ==
    ASSUME TypeOK, Credits, NEW s \in Subs, Grant(s)
    PROVE  Credits'
<1>1. /\ status[s] = "none" /\ status' = [status EXCEPT ![s] = "active"] /\ granting' = s
      /\ UNCHANGED <<granted, byHand, hook>>
  BY DEF Grant, Insert, user, history
<1>2. status'[s] = "active" /\ \A x \in Subs \ {s} : status'[x] = status[x]
  BY <1>1 DEF TypeOK
<1>3. granted[s] = 0 /\ byHand[s] \in Nat /\ \A h \in Hooks : hook[h] # s
  BY <1>1 DEF Credits, TypeOK
<1>4. \A x \in Subs : Begun(x)' = Begun(x)
  BY <1>1 DEF Begun
<1> QED BY <1>1, <1>2, <1>3, <1>4 DEF Credits

-----------------------------------------------------------------------------
(* Orders                                                                  *)

LEMMA OrdersFinite ==
    /\ IsFiniteSet(Pending) /\ Cardinality(Pending) \in Nat
    /\ IsFiniteSet(Creating) /\ Cardinality(Creating) \in Nat
    /\ Cardinality(Creators) \in Nat /\ Cardinality(Creating) <= Cardinality(Creators)
<1>1. /\ Pending \subseteq Subs /\ IsFiniteSet(Subs)
      /\ Creating \subseteq Creators /\ IsFiniteSet(Creators)
  BY SubscriptionAssumption DEF Pending, Creating
<1> QED BY <1>1, FS_Subset, FS_CardinalityType

\* Steps that bring no new order and begin no request.
LEMMA OrdersKeep ==
    ASSUME Orders, UNCHANGED creator,
           \A x \in Subs : status'[x] = "pending" => status[x] = "pending"
    PROVE  Orders'
<1>1. Pending' \subseteq Pending /\ Creating' = Creating
  BY DEF Pending, Creating
<1>2. Cardinality(Pending') <= Cardinality(Pending) /\ Cardinality(Pending') \in Nat
  BY <1>1, OrdersFinite, FS_Subset, FS_CardinalityType
<1> QED BY <1>1, <1>2, OrdersFinite DEF Orders

\* CreateSubscription begins, or goes on.
LEMMA OrdersRequest ==
    ASSUME TypeOK, Orders, NEW c \in Creators, CheckOrders(c) \/ ComputeExpiry(c)
    PROVE  Orders'
<1>1. Pending' = Pending
  BY DEF CheckOrders, ComputeExpiry, rows, Pending
<1>2. CASE CheckOrders(c)
  <2>1. Pending = {}
    BY <1>2 DEF CheckOrders, Pending
  <2> QED BY <1>1, <2>1 DEF Orders
<1>3. CASE ComputeExpiry(c)
  <2>1. NextExpiry # None /\ 0 # None
    BY ExpiryIsNat, SubscriptionAssumption
  <2>2. \A d \in Creators : creator'[d] = None <=> creator[d] = None
    BY <1>3, <2>1 DEF ComputeExpiry, TypeOK
  <2>3. Creating' = Creating
    BY <2>2 DEF Creating
  <2> QED BY <1>1, <2>3 DEF Orders
<1> QED BY <1>2, <1>3

\* CreateSubscription inserts its order.
LEMMA OrdersInsert ==
    ASSUME TypeOK, Orders, NEW c \in Creators, NEW s \in Subs, InsertOrder(c, s)
    PROVE  Orders'
<1>1. status' = [status EXCEPT ![s] = "pending"] /\ creator' = [creator EXCEPT ![c] = None]
      /\ creator[c] # None
  BY DEF InsertOrder, Insert
<1>2. Pending' = Pending \cup {s}
  BY <1>1 DEF Pending, TypeOK
<1>3. Creating' = Creating \ {c} /\ c \in Creating
  BY <1>1 DEF Creating, TypeOK
<1>4. Cardinality(Pending \cup {s}) <= Cardinality(Pending) + 1
  <2>1. Cardinality(Pending \cup {s}) \in {Cardinality(Pending), Cardinality(Pending) + 1}
    BY OrdersFinite, FS_AddElement
  <2> QED BY <2>1, OrdersFinite
<1>5. Cardinality(Creating \ {c}) = Cardinality(Creating) - 1
  BY <1>3, OrdersFinite, FS_RemoveElement
<1>6. IsFiniteSet(Pending \cup {s}) /\ Cardinality(Pending \cup {s}) \in Nat
  BY OrdersFinite, FS_AddElement, FS_CardinalityType
<1>7. CASE Pending = {}
  <2>1. Cardinality(Pending) = 0
    BY <1>7, FS_EmptySet
  <2>2. Cardinality(Pending') + Cardinality(Creating') <= Cardinality(Creators)
    BY <1>2, <1>3, <1>4, <1>5, <1>6, <2>1, OrdersFinite
  <2> QED BY <2>2 DEF Orders
<1>8. CASE Pending # {}
  <2>1. Cardinality(Pending) + Cardinality(Creating) <= Cardinality(Creators)
    BY <1>8 DEF Orders
  <2>2. Cardinality(Pending') + Cardinality(Creating') <= Cardinality(Creators)
    BY <1>2, <1>3, <1>4, <1>5, <1>6, <2>1, OrdersFinite
  <2> QED BY <2>2 DEF Orders
<1> QED BY <1>7, <1>8

-----------------------------------------------------------------------------
(* Plans                                                                   *)

\* Steps that make nothing active and leave the user and the expiries alone.
LEMMA PlansKeep ==
    ASSUME Plans, UNCHANGED <<plan, overtaken, expirer, since, grantEnd, granting>>,
           Current' \subseteq Current, count'.failures = 0 => count.failures = 0
    PROVE  Plans'
<1>1. ActiveHasPlan'
  BY DEF Plans, ActiveHasPlan
<1>2. Counted'
  BY DEF Plans, Counted
<1> QED BY <1>1, <1>2 DEF Plans

\* A step that fails leaves nothing to show.
LEMMA PlansFail ==
    ASSUME Plans, count'.failures # 0, grantEnd' = grantEnd, granting' \in {granting, None}
    PROVE  Plans'
BY DEF Plans, ActiveHasPlan, Counted

\* A subscription that was not counted is activated.
LEMMA PlansActivate ==
    ASSUME TypeOK, Plans, NEW s \in Subs, Activate(s),
           UNCHANGED <<now, expirer, grantEnd>>, count'.failures = 0 => count.failures = 0,
           \A x \in Subs \ {s} : expires'[x] = expires[x],
           \/ granting' = granting
           \/ granting = s /\ granting' = None
    PROVE  Plans'
<1>1. Current' \subseteq Current \cup {s}
  BY DEF Current, Activate, TypeOK
<1>2. \A e \in Expirers : expirer[e] # NoExpiry => since'[e] = since[e] \cup {s}
  BY DEF Activate
<1>3. ActiveHasPlan'
  BY DEF Activate, ActiveHasPlan
<1>4. Counted'
  <2> SUFFICES ASSUME NEW e \in Expirers, expirer[e] # NoExpiry, expirer[e].reset,
                      count'.failures = 0
               PROVE  Current' \ {expirer[e].sub} \subseteq since'[e] \cup {granting'}
    BY DEF Counted
  <2>1. Current \ {expirer[e].sub} \subseteq since[e] \cup {granting}
    BY DEF Plans, Counted
  <2> QED BY <1>1, <1>2, <2>1
<1>5. grantEnd' = 0 \/ granting' = None
  BY DEF Plans
<1> QED BY <1>3, <1>4, <1>5 DEF Plans

\* An administrator's grant is inserted, active but without the plan.
LEMMA PlansGrant ==
    ASSUME TypeOK, Plans, NEW s \in Subs, Grant(s)
    PROVE  Plans'
<1>1. /\ grantEnd # 0 /\ granting' = s /\ grantEnd' = 0
      /\ UNCHANGED <<now, plan, overtaken, expirer, since, count>>
      /\ status' = [status EXCEPT ![s] = "active"] /\ expires' = [expires EXCEPT ![s] = grantEnd]
  BY DEF Grant, Insert, user, history
<1>2. granting = None
  BY <1>1 DEF Plans
<1>3. Current' \subseteq Current \cup {s}
  BY <1>1 DEF Current, TypeOK
<1>4. Counted'
  <2> SUFFICES ASSUME NEW e \in Expirers, expirer[e] # NoExpiry, expirer[e].reset,
                      count.failures = 0
               PROVE  Current' \ {expirer[e].sub} \subseteq since[e] \cup {s}
    BY <1>1 DEF Counted
  <2>1. Current \ {expirer[e].sub} \subseteq since[e] \cup {None}
    BY <1>2 DEF Plans, Counted
  <2>2. None \notin Current
    BY SubscriptionAssumption DEF Current
  <2> QED BY <1>3, <2>1, <2>2
<1>5. ActiveHasPlan'
  BY <1>1, SubscriptionAssumption DEF ActiveHasPlan
<1> QED BY <1>1, <1>4, <1>5 DEF Plans

\* An expiry counts.
LEMMA PlansCount ==
    ASSUME TypeOK, Plans, NEW e \in Expirers, NEW s \in Subs, ExpireCount(e, s)
    PROVE  Plans'
<1>1. /\ UNCHANGED <<now, status, expires, plan, overtaken, since, grantEnd, granting>>
      /\ expirer' = [expirer EXCEPT ![e] = [sub |-> s, reset |-> Current \ {s} = {},
                                            lower |-> role = "subscriber"]]
  BY DEF ExpireCount, Expires, rows, user, grants, history
<1>2. count'.failures = 0 => count.failures = 0
  BY Counting DEF ExpireCount, Expires, TypeOK, Counters
<1>3. Current' = Current
  BY <1>1 DEF Current
<1>4. /\ expirer'[e].sub = s /\ (expirer'[e].reset => Current \ {s} = {})
      /\ \A d \in Expirers \ {e} : expirer'[d] = expirer[d]
  <2>1. \A d \in Expirers \ {e} : expirer'[d] = expirer[d]
    BY <1>1 DEF TypeOK
  <2>2. CASE Current \ {s} = {}
    <3>1. expirer'[e] = [sub |-> s, reset |-> TRUE, lower |-> role = "subscriber"]
      BY <1>1, <2>2, Zenon DEF TypeOK
    <3> QED BY <2>1, <2>2, <3>1
  <2>3. CASE Current \ {s} # {}
    <3>1. expirer'[e] = [sub |-> s, reset |-> FALSE, lower |-> role = "subscriber"]
      BY <1>1, <2>3, Zenon DEF TypeOK
    <3> QED BY <2>1, <3>1
  <2> QED BY <2>2, <2>3
<1>5. Counted'
  <2> SUFFICES ASSUME NEW d \in Expirers, expirer'[d] # NoExpiry, expirer'[d].reset,
                      count'.failures = 0
               PROVE  Current \ {expirer'[d].sub} \subseteq since[d] \cup {granting}
    BY <1>1, <1>3 DEF Counted
  <2>1. CASE d = e
    BY <1>4, <2>1
  <2>2. CASE d # e
    BY <1>2, <1>4, <2>2 DEF Plans, Counted
  <2> QED BY <2>1, <2>2
<1>6. ActiveHasPlan'
  BY <1>1, <1>2, <1>3 DEF Plans, ActiveHasPlan
<1> QED BY <1>1, <1>5, <1>6 DEF Plans

\* ... and ends.
LEMMA PlansCommit ==
    ASSUME TypeOK, Plans, NEW e \in Expirers, ExpireCommit(e)
    PROVE  Plans'
<1> DEFINE done == expirer[e]
<1>1. /\ expirer[e] # NoExpiry /\ done.sub \in Subs
      /\ UNCHANGED <<now, expires, grantEnd, granting>>
  BY DEF ExpireCommit, TypeOK, grants
<1>2. CASE count'.failures # 0
  BY <1>1, <1>2, PlansFail
<1>3. CASE count'.failures = 0
  <2>1. ~Count("failures", MaxFailures)
    BY <1>3, Counting DEF TypeOK, Counters
  <2>2. /\ status' = [status EXCEPT ![done.sub] = "expired"] /\ count' = count
        /\ plan' = IF done.reset THEN FALSE ELSE plan
        /\ overtaken' = IF done.reset THEN (Current \cap since[e]) \ {done.sub} # {}
                        ELSE overtaken
    BY <2>1 DEF ExpireCommit
  <2>3. Current' \subseteq Current \ {done.sub}
    BY <1>1, <2>2 DEF Current, TypeOK
  <2>4. Counted'
    <3>1. \A d \in Expirers \ {e} : expirer'[d] = expirer[d] /\ since'[d] = since[d]
      BY DEF ExpireCommit, TypeOK
    <3>2. expirer'[e] = NoExpiry
      BY DEF ExpireCommit, TypeOK
    <3> QED BY <1>1, <2>2, <2>3, <3>1, <3>2 DEF Plans, Counted
  <2>5. ActiveHasPlan'
    <3> SUFFICES ASSUME Current' # {}, granting = None PROVE plan' \/ overtaken'
      BY <1>1 DEF ActiveHasPlan
    <3>1. PICK x \in Current : x # done.sub
      BY <2>3
    <3>2. CASE done.reset
      <4>1. x \in since[e] \cup {granting} /\ x # None
        BY <1>1, <1>3, <2>2, <3>1, <3>2, SubscriptionAssumption DEF Plans, Counted, Current
      <4>2. x \in (Current \cap since[e]) \ {done.sub}
        BY <3>1, <4>1
      <4> QED BY <2>2, <3>2, <4>2
    <3>3. CASE ~done.reset
      BY <1>3, <2>2, <3>1, <3>3 DEF Plans, ActiveHasPlan
    <3> QED BY <3>2, <3>3
  <2> QED BY <1>1, <2>4, <2>5 DEF Plans
<1> QED BY <1>2, <1>3

-----------------------------------------------------------------------------
(* Every step                                                              *)

\* The three parts besides the types.
Rest == Credits /\ Orders /\ Plans

\* A step that writes no more than the status of one row that was inserted, to end
\* it, or moves the clock, a list or a request.
LEMMA QuietKeeps ==
    ASSUME TypeOK, Rest,
           UNCHANGED <<expires, plan, granted, creator, hook, expirer, grantEnd, granting,
                       byHand, since, overtaken>>,
           now' = now \/ now' = now + 1,
           \/ status' = status
           \/ \E s \in Subs, st \in {"expired", "cancelled"} :
                  status' = [status EXCEPT ![s] = st],
           count'.failures = 0 => count.failures = 0
    PROVE  Rest'
<1>1. \A x \in Subs : status'[x] = status[x] \/ status'[x] \in {"expired", "cancelled"}
  BY DEF TypeOK
<1>2. now \in Nat /\ expires \in [Subs -> Nat]
  BY SubscriptionAssumption DEF TypeOK
<1>3. Current' \subseteq Current
  BY <1>1, <1>2 DEF Current
<1>4. Credits'
  BY <1>1, CreditsKeep DEF Rest, TypeOK
<1>5. Orders'
  BY <1>1, OrdersKeep DEF Rest
<1>6. Plans'
  BY <1>3, PlansKeep DEF Rest
<1> QED BY <1>4, <1>5, <1>6 DEF Rest

LEMMA OrderKeeps == ASSUME TypeOK, Rest, Order PROVE Rest'
<1> USE DEF rows, user, requests, jobs, grants, history
<1>1. ASSUME NEW c \in Creators, CheckOrders(c) \/ ComputeExpiry(c) PROVE Rest'
  <2>1. UNCHANGED <<now, status, expires, plan, granted, hook, expirer, grantEnd, granting,
                    byHand, since, overtaken, count>>
    BY <1>1 DEF CheckOrders, ComputeExpiry
  <2>2. Credits'
    BY <2>1, CreditsKeep DEF Rest, TypeOK
  <2>3. Plans'
    BY <2>1, PlansKeep DEF Rest, Current
  <2> QED BY <1>1, <2>2, <2>3, OrdersRequest DEF Rest
<1>2. ASSUME NEW c \in Creators, NEW s \in Subs, InsertOrder(c, s) PROVE Rest'
  <2>1. /\ UNCHANGED <<now, plan, granted, hook, expirer, grantEnd, granting, byHand, since,
                       overtaken, count>>
        /\ status[s] = "none" /\ status' = [status EXCEPT ![s] = "pending"]
        /\ expires' = [expires EXCEPT ![s] = creator[c]]
    BY <1>2 DEF InsertOrder, Insert
  <2>2. /\ status'[s] = "pending"
        /\ \A x \in Subs \ {s} : status'[x] = status[x] /\ expires'[x] = expires[x]
    BY <2>1 DEF TypeOK
  <2>3. Credits'
    BY <2>1, <2>2, CreditsKeep DEF Rest, TypeOK
  <2>4. Current' \subseteq Current
    BY <2>1, <2>2 DEF Current
  <2>5. Plans'
    BY <2>1, <2>4, PlansKeep DEF Rest
  <2> QED BY <1>2, <2>3, <2>5, OrdersInsert DEF Rest
<1>3. ASSUME NEW s \in Subs, RefuseRead(s) PROVE Rest'
  BY <1>3, QuietKeeps DEF RefuseRead
<1> QED BY <1>1, <1>2, <1>3 DEF Order

LEMMA PayKeeps == ASSUME TypeOK, Rest, NEW h \in Hooks, NEW s \in Subs, PaymentRead(h, s)
                  PROVE  Rest'
<1>1. UNCHANGED <<now, status, expires, plan, creator, expirer, grantEnd, granting, since,
                  overtaken>>
  BY DEF PaymentRead, rows, user, requests, grants, history
<1>2. count'.failures = 0 => count.failures = 0
  BY Counting DEF PaymentRead, TypeOK, Counters
<1>3. Orders'
  BY <1>1, OrdersKeep DEF Rest
<1>4. Plans'
  BY <1>1, <1>2, PlansKeep DEF Rest, Current
<1> QED BY <1>3, <1>4, CreditsRead DEF Rest

\* A subscription is activated or the attempt fails.
LEMMA ActivateKeeps ==
    ASSUME TypeOK, Rest, NEW s \in Subs, UNCHANGED <<now, expirer, creator, grantEnd>>,
           Activate(s), count'.failures = 0 => count.failures = 0,
           \A x \in Subs \ {s} : expires'[x] = expires[x],
           \/ /\ \E h \in Hooks : hook[h] = s /\ hook' = [hook EXCEPT ![h] = None]
              /\ UNCHANGED <<byHand, granting>>
           \/ byHand' = [byHand EXCEPT ![s] = @ + 1] /\ UNCHANGED <<hook, granting>>
           \/ granting = s /\ granting' = None /\ UNCHANGED <<hook, byHand>>
           \/ status[s] = "none" /\ UNCHANGED <<hook, byHand, granting>>
    PROVE  Rest'
<1>1. Credits'
  BY CreditsActivate DEF Rest
<1>2. \A x \in Subs : status'[x] = "pending" => status[x] = "pending"
  BY DEF Activate, TypeOK
<1>3. Orders'
  BY <1>2, OrdersKeep DEF Rest
<1>4. granting' = granting \/ (granting = s /\ granting' = None)
  OBVIOUS
<1>5. Plans'
  BY <1>4, PlansActivate DEF Rest
<1> QED BY <1>1, <1>3, <1>5 DEF Rest

LEMMA HookKeeps == ASSUME TypeOK, Rest, NEW h \in Hooks, PaymentActivate(h) PROVE Rest'
<1> USE DEF rows, user, requests, jobs, grants, history
<1>1. /\ hook[h] \in Subs /\ hook' = [hook EXCEPT ![h] = None]
      /\ UNCHANGED <<now, expires, creator, expirer, grantEnd, granting, byHand>>
  BY DEF PaymentActivate, TypeOK
<1>2. CASE Activate(hook[h]) /\ UNCHANGED count
  BY <1>1, <1>2, ActivateKeeps
<1>3. CASE Count("failures", MaxFailures) /\ UNCHANGED <<status, user, since, overtaken>>
  <2>1. count'.failures # 0
    BY <1>3, Counting DEF TypeOK, Counters
  <2>2. Credits'
    <3> PICK s \in Subs : s = hook[h]
      BY <1>1
    <3>1. /\ Cardinality(Begun(s)') = Cardinality(Begun(s)) - 1
          /\ \A x \in Subs \ {s} : Begun(x)' = Begun(x)
          /\ \A g \in Hooks : hook'[g] = hook[g] \/ hook'[g] = None
      BY <1>1, EndedBegun
    <3>2. UNCHANGED <<status, granted, byHand, granting>>
      BY <1>1, <1>3
    <3>3. \A x \in Subs : granted[x] + Cardinality(Begun(x)') <= Cardinality(Hooks) + byHand[x]
      <4> SUFFICES ASSUME NEW x \in Subs
                   PROVE  granted[x] + Cardinality(Begun(x)') <= Cardinality(Hooks) + byHand[x]
        OBVIOUS
      <4>1. /\ granted[x] + Cardinality(Begun(x)) <= Cardinality(Hooks) + byHand[x]
            /\ granted[x] \in Nat /\ byHand[x] \in Nat
        BY DEF Rest, Credits, TypeOK
      <4>2. CASE x = s
        BY <3>1, <4>1, <4>2, BegunFinite
      <4>3. CASE x # s
        BY <3>1, <4>1, <4>3
      <4> QED BY <4>2, <4>3
    <3>4. \A x \in Subs, g \in Hooks : status[x] = "none" => hook'[g] # x
      BY <3>1, SubscriptionAssumption DEF Rest, Credits
    <3>5. granting # None => \A g \in Hooks : hook'[g] # granting
      BY <3>1 DEF Rest, Credits
    <3> QED BY <3>2, <3>3, <3>4, <3>5 DEF Rest, Credits
  <2>3. Orders'
    BY <1>1, <1>3, OrdersKeep DEF Rest
  <2>4. Plans'
    BY <1>1, <2>1, PlansFail DEF Rest
  <2> QED BY <2>2, <2>3, <2>4 DEF Rest
<1> QED BY <1>2, <1>3 DEF PaymentActivate

LEMMA AdministerKeeps ==
    ASSUME TypeOK, Rest, NEW s \in Subs,
           ActivateByHand(s) \/ GrantInternal(s) \/ Grant(s)
    PROVE  Rest'
<1> USE DEF rows, user, requests, jobs, grants, history
<1>1. CASE ActivateByHand(s)
  <2>1. count'.failures = 0 => count.failures = 0
    BY <1>1, Counting DEF ActivateByHand, TypeOK, Counters
  <2>2. /\ Activate(s) /\ byHand' = [byHand EXCEPT ![s] = @ + 1]
        /\ UNCHANGED <<now, expires, creator, hook, expirer, grantEnd, granting>>
    BY <1>1 DEF ActivateByHand
  <2> QED BY <2>1, <2>2, ActivateKeeps
<1>2. CASE GrantInternal(s)
  <2>1. count'.failures = 0 => count.failures = 0
    BY <1>2, Counting DEF GrantInternal, TypeOK, Counters
  <2>2. /\ Activate(s) /\ status[s] = "none" /\ expires' = [expires EXCEPT ![s] = now + 1]
        /\ UNCHANGED <<now, creator, hook, expirer, grantEnd, granting, byHand>>
    BY <1>2 DEF GrantInternal, Insert
  <2>3. \A x \in Subs \ {s} : expires'[x] = expires[x]
    BY <2>2 DEF TypeOK
  <2> QED BY <2>1, <2>2, <2>3, ActivateKeeps
<1>3. CASE Grant(s)
  <2>1. \A x \in Subs : status'[x] = "pending" => status[x] = "pending"
    BY <1>3 DEF Grant, Insert, TypeOK
  <2>2. Orders'
    BY <1>3, <2>1, OrdersKeep DEF Grant, Rest
  <2> QED BY <1>3, <2>2, CreditsGrant, PlansGrant DEF Rest
<1> QED BY <1>1, <1>2, <1>3

LEMMA GrantReadKeeps == ASSUME TypeOK, Rest, GrantRead PROVE Rest'
<1> USE DEF rows, user, requests, jobs, grants, history
<1>1. /\ UNCHANGED <<now, status, expires, plan, granted, creator, hook, expirer, granting,
                     byHand, since, overtaken>>
      /\ granting = None
  BY DEF GrantRead
<1>2. count'.failures = 0 => count.failures = 0
  BY Counting DEF GrantRead, TypeOK, Counters
<1>3. Credits'
  BY <1>1, CreditsKeep DEF Rest, TypeOK
<1>4. Orders'
  BY <1>1, OrdersKeep DEF Rest
<1>5. Plans'
  BY <1>1, <1>2 DEF Rest, Plans, ActiveHasPlan, Counted, Current
<1> QED BY <1>3, <1>4, <1>5 DEF Rest

LEMMA GrantActivateKeeps == ASSUME TypeOK, Rest, GrantActivate PROVE Rest'
<1> USE DEF rows, user, requests, jobs, grants, history
<1>1. /\ granting \in Subs /\ granting' = None
      /\ UNCHANGED <<now, expires, creator, hook, expirer, grantEnd, byHand>>
  BY DEF GrantActivate, TypeOK
<1>2. CASE Activate(granting) /\ UNCHANGED count
  BY <1>1, <1>2, ActivateKeeps
<1>3. CASE Count("failures", MaxFailures) /\ UNCHANGED <<status, user, since, overtaken>>
  <2>1. count'.failures # 0
    BY <1>3, Counting DEF TypeOK, Counters
  <2>2. \A x \in Subs : Begun(x)' = Begun(x)
    BY <1>1 DEF Begun
  <2>3. Credits'
    BY <1>1, <1>3, <2>2 DEF Rest, Credits
  <2>4. Orders'
    BY <1>1, <1>3, OrdersKeep DEF Rest
  <2>5. Plans'
    BY <1>1, <2>1, PlansFail DEF Rest
  <2> QED BY <2>3, <2>4, <2>5 DEF Rest
<1> QED BY <1>2, <1>3 DEF GrantActivate

LEMMA ExpireKeeps ==
    ASSUME TypeOK, Rest, NEW e \in Expirers,
           ExpireCommit(e) \/ \E s \in Subs : ExpireCount(e, s)
    PROVE  Rest'
<1> USE DEF rows, user, requests, jobs, grants, history
<1>1. UNCHANGED <<granted, byHand, hook, granting, creator>>
  BY DEF ExpireCommit, ExpireCount, Expires
<1>2. \A x \in Subs : status'[x] = status[x] \/ status'[x] = "expired"
  BY DEF ExpireCommit, ExpireCount, Expires, TypeOK
<1>3. Credits'
  BY <1>1, <1>2, CreditsKeep DEF Rest, TypeOK
<1>4. Orders'
  BY <1>1, <1>2, OrdersKeep DEF Rest
<1>5. Plans'
  BY PlansCount, PlansCommit DEF Rest
<1> QED BY <1>3, <1>4, <1>5 DEF Rest

LEMMA OthersKeep ==
    ASSUME TypeOK, Rest,
           \/ ListOverdue \/ ListStale \/ Tick
           \/ \E s \in Subs : \/ RefuseWrite(s) \/ CleanUp(s) \/ CancelRead(s)
                              \/ CancelWrite(s) \/ Refund(s)
    PROVE  Rest'
<1> USE DEF rows, user, requests, jobs, grants, history
<1>1. CASE ListOverdue \/ ListStale \/ Tick
  <2>1. /\ UNCHANGED <<status, expires, plan, granted, creator, hook, expirer, grantEnd, granting,
                       byHand, since, overtaken, count>>
        /\ now' = now \/ now' = now + 1
    BY <1>1 DEF ListOverdue, ListStale, Tick
  <2> QED BY <2>1, QuietKeeps
<1>2. ASSUME NEW s \in Subs,
             RefuseWrite(s) \/ CleanUp(s) \/ CancelRead(s) \/ CancelWrite(s) \/ Refund(s)
      PROVE  Rest'
  <2>1. /\ UNCHANGED <<expires, plan, granted, creator, hook, expirer, grantEnd, granting,
                       byHand, since, overtaken, now>>
        /\ \/ status' = status
           \/ \E st \in {"expired", "cancelled"} : status' = [status EXCEPT ![s] = st]
    BY <1>2 DEF RefuseWrite, CleanUp, CancelRead, CancelWrite, Refund, WriteStatus
  <2>2. count'.failures = 0 => count.failures = 0
    BY <1>2, Counting DEF RefuseWrite, CleanUp, CancelRead, CancelWrite, Refund, TypeOK, Counters
  <2> QED BY <2>1, <2>2, QuietKeeps
<1> QED BY <1>1, <1>2

-----------------------------------------------------------------------------
(* Theorems                                                                *)

LEMMA InitHolds == Init => Inv
<1> SUFFICES ASSUME Init PROVE Inv
  OBVIOUS
<1>1. TypeOK
  <2>1. /\ now \in 0..MaxTime /\ role \in {"common", "subscriber", "admin"}
        /\ status \in [Subs -> Statuses] /\ created \in [Subs -> 0..MaxTime]
        /\ expires \in [Subs -> Nat] /\ granted \in [Subs -> Nat]
    BY SubscriptionAssumption DEF Init, Statuses
  <2>2. plan \in BOOLEAN /\ overtaken \in BOOLEAN
    BY Zenon DEF Init
  <2>3. count \in [{"deliveries", "ops", "failures"} -> Nat]
    BY DEF Init
  <2>4. /\ creator \in [Creators -> Nat \cup {None}] /\ hook \in [Hooks -> Subs \cup {None}]
        /\ refusing \subseteq Subs /\ cancelling \subseteq Subs
        /\ expirer \in [Expirers -> {NoExpiry} \cup
                                    [sub : Subs, reset : BOOLEAN, lower : BOOLEAN]]
        /\ overdue \subseteq Subs /\ stale \subseteq Subs
        /\ grantEnd \in Nat /\ granting \in Subs \cup {None}
        /\ byHand \in [Subs -> Nat] /\ since \in [Expirers -> SUBSET Subs]
    BY DEF Init
  <2> QED BY <2>1, <2>2, <2>3, <2>4 DEF TypeOK
<1>2. Credits
  <2>1. \A s \in Subs : granted[s] = 0 /\ byHand[s] = 0 /\ \A h \in Hooks : hook[h] # s
    BY SubscriptionAssumption DEF Init
  <2>2. \A s \in Subs :
            granted[s] + Cardinality(Begun(s)) <= Cardinality(Hooks) + byHand[s]
    BY <2>1, BegunFinite
  <2>3. granting = None
    BY DEF Init
  <2> QED BY <2>1, <2>2, <2>3 DEF Credits
<1>3. Orders
  BY DEF Init, Orders, Pending
<1>4. Plans
  BY DEF Init, Plans, ActiveHasPlan, Counted, Current
<1> QED BY <1>1, <1>2, <1>3, <1>4 DEF Inv

LEMMA StutterKeeps == Inv /\ UNCHANGED vars => Inv'
<1> SUFFICES ASSUME Inv, UNCHANGED vars PROVE Inv'
  OBVIOUS
<1> USE DEF vars, rows, user, requests, jobs, grants, history
<1>1. TypeOK'
  BY DEF Inv, TypeOK
<1>2. UNCHANGED <<status, expires, plan, granted, creator, hook, expirer, grantEnd, granting,
                  byHand, since, overtaken, count, now>>
  OBVIOUS
<1>3. Rest'
  BY <1>2, QuietKeeps DEF Inv, Rest
<1> QED BY <1>1, <1>3 DEF Inv, Rest

LEMMA StepKeeps == Inv /\ [Next]_vars => Inv'
<1> SUFFICES ASSUME Inv, Next PROVE Inv'
  BY StutterKeeps
<1>1. TypeOK'
  BY StepTypes DEF Inv
<1>2. Rest'
  <2>1. TypeOK /\ Rest
    BY DEF Inv, Rest
  <2>2. CASE Order
    BY <2>1, <2>2, OrderKeeps
  <2>3. CASE Pay
    BY <2>1, <2>3, PayKeeps DEF Pay
  <2>4. CASE Administer
    <3>1. CASE GrantRead
      BY <2>1, <3>1, GrantReadKeeps
    <3>2. ASSUME NEW s \in Subs, ActivateByHand(s) \/ GrantInternal(s) PROVE Rest'
      BY <2>1, <3>2, AdministerKeeps
    <3>3. ASSUME NEW s \in Subs, ExpireCount("admin", s) PROVE Rest'
      BY <2>1, <3>3, ExpireKeeps DEF Expirers
    <3> QED BY <2>4, <3>1, <3>2, <3>3 DEF Administer
  <2>5. CASE Stop \/ CleanupJob \/ Tick
    BY <2>1, <2>5, OthersKeep DEF Stop, CleanupJob
  <2>6. CASE Finish
    BY <2>1, <2>6, HookKeeps, OthersKeep, AdministerKeeps, GrantActivateKeeps, ExpireKeeps
       DEF Finish
  <2>7. CASE ExpiryJob
    BY <2>1, <2>7, OthersKeep, ExpireKeeps DEF ExpiryJob, Expirers
  <2> QED BY <2>2, <2>3, <2>4, <2>5, <2>6, <2>7 DEF Next
<1> QED BY <1>1, <1>2 DEF Inv, Rest

\* The invariant holds throughout.
THEOREM Invariant == Spec => []Inv
<1>1. Inv /\ [Next]_vars => Inv'
  BY StepKeeps
<1> QED BY <1>1, InitHolds, PTL DEF Spec

\* The columns and the handlers' variables keep their types.
THEOREM TypeCorrect == Spec => []TypeOK
<1>1. Inv => TypeOK
  BY DEF Inv
<1> QED BY <1>1, Invariant, PTL

\* processSubscriptionPayment: a payment is credited at most once for each delivery
\* that can be under way at a time, however often it is delivered.
THEOREM CreditsBound == Spec => []CreditsBounded
<1>1. Inv => CreditsBounded
  <2> SUFFICES ASSUME Inv, NEW s \in Subs
               PROVE  granted[s] <= Cardinality(Hooks) + byHand[s]
    BY DEF CreditsBounded
  <2>1. /\ granted[s] + Cardinality(Begun(s)) <= Cardinality(Hooks) + byHand[s]
        /\ granted[s] \in Nat /\ byHand[s] \in Nat
    BY DEF Inv, Credits, TypeOK
  <2> QED BY <2>1, BegunFinite
<1> QED BY <1>1, Invariant, PTL

\* ... and once if deliveries do not overlap.
COROLLARY GrantedOnce == ASSUME Cardinality(Hooks) = 1 PROVE Spec => []QuotaGrantedOnce
<1>1. CreditsBounded => QuotaGrantedOnce
  BY DEF CreditsBounded, QuotaGrantedOnce
<1> QED BY <1>1, CreditsBound, PTL

\* ExpireSubscription: an active subscription has the plan, unless it was activated
\* between the count and the reset of another one's expiry.
THEOREM ActiveHavePlan == Spec => []ActiveHasPlan
<1>1. Inv => ActiveHasPlan
  BY DEF Inv, Plans
<1> QED BY <1>1, Invariant, PTL

\* CreateSubscription: no more orders are pending than requests can be under way.
THEOREM OrdersBound == Spec => []OrdersBounded
<1>1. Inv => OrdersBounded
  <2> SUFFICES ASSUME Inv PROVE Cardinality(Pending) <= Cardinality(Creators)
    BY DEF OrdersBounded, Pending
  <2>1. CASE Pending = {}
    <3>1. Cardinality(Pending) = 0
      BY <2>1, FS_EmptySet
    <3> QED BY <3>1, OrdersFinite
  <2>2. CASE Pending # {}
    BY <2>2, OrdersFinite DEF Inv, Orders
  <2> QED BY <2>1, <2>2
<1> QED BY <1>1, Invariant, PTL

=============================================================================
