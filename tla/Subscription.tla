---------------------------- MODULE Subscription ----------------------------
(***************************************************************************)
(* The subscriptions of one user: ordered (pending), activated by a        *)
(* payment webhook or an administrator, expired by a cron job, cancelled,  *)
(* refunded.  Activation gives the user the plan's group, role and quota;  *)
(* expiry takes group and role back unless another subscription is active. *)
(*                                                                         *)
(* The handlers' transactions lock no row they read: gorm:query_option,    *)
(* with which they ask for FOR UPDATE, is a setting of GORM 1 that GORM 2  *)
(* ignores.  So they overlap, as PostgreSQL lets them.  A failing single   *)
(* statement leaves all as it was and is no step of its own.  Time is      *)
(* counted in the length of a plan.                                        *)
(***************************************************************************)
EXTENDS Integers, FiniteSets, FiniteSetsExt

CONSTANTS
    Subs,           \* subscription ids, given out in their order
    Creators,       \* concurrent CreateSubscription requests
    Hooks,          \* concurrent deliveries of payment webhooks
    Roles0,         \* roles the user may have at first
    None,
    StaleAfter,     \* age at which a pending order is cleaned up
    MaxTime,        \* bound: of the clock
    MaxDeliveries,  \* bound: webhook deliveries, duplicates included
    MaxOps,         \* bound: cancellations, refunds, and what administrators do
    MaxFailures     \* bound: failing transactions

ASSUME SubscriptionAssumption ==
    /\ Subs \subseteq Nat /\ IsFiniteSet(Subs) /\ None \notin Subs \cup Nat
    /\ IsFiniteSet(Creators) /\ IsFiniteSet(Hooks) /\ Hooks # {}
    /\ Roles0 \subseteq {"common", "admin"}
    /\ {StaleAfter, MaxTime, MaxDeliveries, MaxOps, MaxFailures} \subseteq Nat

VARIABLES
    now,        \* clock
    status,     \* subscriptions.status; "none": no row
    created,    \* subscriptions.created_at
    expires,    \* subscriptions.expires_at
    plan,       \* the user has the plan's group, base_group and daily_quota
    role,       \* users.role
    granted,    \* history: times a subscription's quota was credited
    creator,    \* per CreateSubscription request: None, 0 once it has counted the
                \* orders, then the expiry it has computed
    refusing,   \* orders whose payment is being refused as too old
    cancelling, \* subscriptions about to be cancelled
    hook,       \* per delivery: the subscription whose activation it has begun
    expirer,    \* per ExpireSubscription caller: its transaction
    overdue,    \* list the expiry job goes through
    stale,      \* list the cleanup job goes through
    grantEnd,   \* expiry an admin grant has computed; 0: none
    granting,   \* subscription inserted by an admin grant, not yet activated
    byHand,     \* history: times an administrator activated it again
    since,      \* history: activated since an open ExpireSubscription has counted
    overtaken,  \* history: the user was reset in spite of such an activation
    count       \* deliveries, operations, failures

user == <<plan, role, granted>>
rows == <<status, created, expires>>
requests == <<creator, refusing, cancelling>>
jobs == <<overdue, stale>>
grants == <<grantEnd, granting>>
history == <<byHand, since, overtaken>>

vars == <<now, rows, user, requests, hook, expirer, jobs, grants, history, count>>

Expirers == {"cron", "admin"}
NoExpiry == [sub |-> None, reset |-> FALSE, lower |-> FALSE]

Init ==
    /\ now = 0
    /\ status = [s \in Subs |-> "none"]
    /\ created = [s \in Subs |-> 0] /\ expires = [s \in Subs |-> 0]
    /\ plan = FALSE /\ role \in Roles0
    /\ granted = [s \in Subs |-> 0]
    /\ creator = [c \in Creators |-> None] /\ refusing = {} /\ cancelling = {}
    /\ hook = [h \in Hooks |-> None]
    /\ expirer = [e \in Expirers |-> NoExpiry]
    /\ overdue = {} /\ stale = {} /\ grantEnd = 0 /\ granting = None
    /\ byHand = [s \in Subs |-> 0]
    /\ since = [e \in Expirers |-> {}] /\ overtaken = FALSE
    /\ count = [deliveries |-> 0, ops |-> 0, failures |-> 0]

Count(what, max) ==
    count[what] < max /\ count' = [count EXCEPT ![what] = @ + 1]

\* No transaction holds the row of s it has written.
Unlocked(s) == \A e \in Expirers : expirer[e].sub # s

Current == {s \in Subs : status[s] = "active" /\ expires[s] > now}

\* A new subscription runs from the end of the one that is active.
NextExpiry == Max({now} \cup {expires[s] : s \in Current}) + 1

-----------------------------------------------------------------------------
(* Orders *)

\* Mutant of CheckOrders: the orders are not counted.
CheckOrdersNot(c) ==
    /\ creator[c] = None
    /\ creator' = [creator EXCEPT ![c] = 0]
    /\ UNCHANGED <<now, rows, user, refusing, cancelling, hook, expirer, jobs, grants,
                   history, count>>

\* CreateSubscription counts the user's pending orders, ...
CheckOrders(c) ==
    /\ creator[c] = None
    /\ \A s \in Subs : status[s] # "pending"
    /\ creator' = [creator EXCEPT ![c] = 0]
    /\ UNCHANGED <<now, rows, user, refusing, cancelling, hook, expirer, jobs, grants,
                   history, count>>

\* ... reads the active subscription ...
ComputeExpiry(c) ==
    /\ creator[c] = 0
    /\ creator' = [creator EXCEPT ![c] = NextExpiry]
    /\ UNCHANGED <<now, rows, user, refusing, cancelling, hook, expirer, jobs, grants,
                   history, count>>

Insert(s, st, until) ==
    /\ status[s] = "none" /\ \A x \in Subs : x < s => status[x] # "none"
    /\ status' = [status EXCEPT ![s] = st]
    /\ created' = [created EXCEPT ![s] = now]
    /\ expires' = [expires EXCEPT ![s] = until]

\* ... and inserts one more order.
InsertOrder(c, s) ==
    /\ creator[c] \notin {None, 0}
    /\ Insert(s, "pending", creator[c])
    /\ creator' = [creator EXCEPT ![c] = None]
    /\ UNCHANGED <<now, user, refusing, cancelling, hook, expirer, jobs, grants,
                   history, count>>

\* A statement that writes the status of s and nothing else.
WriteStatus(s, st) ==
    /\ Unlocked(s)
    /\ status' = [status EXCEPT ![s] = st]
    /\ UNCHANGED <<now, created, expires, user, hook, expirer, grants, history>>

\* InitiateSubscriptionPayment and RetrySubscriptionPayment find an order that is
\* too old to be paid (a younger one gets a payment session) ...
RefuseRead(s) ==
    /\ status[s] = "pending" /\ now - created[s] > StaleAfter
    /\ s \notin refusing /\ refusing' = refusing \cup {s}
    /\ UNCHANGED <<now, rows, user, creator, cancelling, hook, expirer, jobs, grants,
                   history, count>>

\* ... and expire it, whatever its status is by now.
RefuseWrite(s) ==
    /\ s \in refusing /\ refusing' = refusing \ {s}
    /\ WriteStatus(s, "expired")
    /\ UNCHANGED <<creator, cancelling, jobs, count>>

-----------------------------------------------------------------------------
(* Activation *)

\* ActivateSubscriptionTx.  The role is assigned whatever it was.
Activate(s) ==
    /\ status' = [status EXCEPT ![s] = "active"]
    /\ plan' = TRUE /\ role' = "subscriber"
    /\ granted' = [granted EXCEPT ![s] = @ + 1]
    /\ since' = [e \in Expirers |-> IF expirer[e] = NoExpiry THEN {} ELSE since[e] \cup {s}]
    /\ overtaken' = FALSE

\* Mutant of PaymentRead: an order is activated whatever its status.
PaymentReadUnchecked(h, s) ==
    /\ hook[h] = None
    /\ status[s] # "none"
    /\ Count("deliveries", MaxDeliveries)
    /\ hook' = [hook EXCEPT ![h] = s]
    /\ UNCHANGED <<now, rows, user, requests, expirer, jobs, grants, history>>

\* processSubscriptionPayment: a delivery, perhaps one more of the same payment,
\* reads the status of the subscription; only a pending one is gone on with.
PaymentRead(h, s) ==
    /\ hook[h] = None
    /\ status[s] # "none"
    /\ Count("deliveries", MaxDeliveries)
    /\ hook' = IF status[s] = "pending" THEN [hook EXCEPT ![h] = s] ELSE hook
    /\ UNCHANGED <<now, rows, user, requests, expirer, jobs, grants, history>>

\* The rest of the transaction; the provider is answered 200 if it fails, too.
PaymentActivate(h) ==
    /\ hook[h] # None /\ Unlocked(hook[h])
    /\ hook' = [hook EXCEPT ![h] = None]
    /\ \/ Activate(hook[h]) /\ UNCHANGED count
       \/ Count("failures", MaxFailures) /\ UNCHANGED <<status, user, since, overtaken>>
    /\ UNCHANGED <<now, created, expires, requests, expirer, jobs, grants, byHand>>

\* AdminActivateSubscription, of any status.
ActivateByHand(s) ==
    /\ status[s] # "none" /\ Unlocked(s)
    /\ Count("ops", MaxOps)
    /\ Activate(s)
    /\ byHand' = [byHand EXCEPT ![s] = @ + 1]
    /\ UNCHANGED <<now, created, expires, requests, hook, expirer, jobs, grants>>

\* AdminCreateSubscription reads the active subscription (an error counts as
\* none) ...
GrantRead ==
    /\ grantEnd = 0 /\ granting = None
    /\ Count("ops", MaxOps)
    /\ grantEnd' \in {NextExpiry, now + 1}
    /\ UNCHANGED <<now, rows, user, requests, hook, expirer, jobs, granting, history>>

\* ... inserts an active one ...
Grant(s) ==
    /\ grantEnd # 0
    /\ Insert(s, "active", grantEnd)
    /\ grantEnd' = 0 /\ granting' = s
    /\ UNCHANGED <<now, user, requests, hook, expirer, jobs, history, count>>

\* ... and then activates it, or logs that it could not.
GrantActivate ==
    /\ granting # None /\ Unlocked(granting)
    /\ granting' = None
    /\ \/ Activate(granting) /\ UNCHANGED count
       \/ Count("failures", MaxFailures) /\ UNCHANGED <<status, user, since, overtaken>>
    /\ UNCHANGED <<now, created, expires, requests, hook, expirer, jobs, grantEnd, byHand>>

\* CreateInternalSubscription: the same in one transaction, from now on.
GrantInternal(s) ==
    /\ Count("ops", MaxOps)
    /\ Insert(s, "active", now + 1) /\ Activate(s)
    /\ UNCHANGED <<now, requests, hook, expirer, jobs, grants, byHand>>

-----------------------------------------------------------------------------
(* Expiry *)

\* processExpiredSubscriptions: GetExpiredSubscriptions ...
ListOverdue ==
    /\ overdue = {} /\ expirer["cron"] = NoExpiry
    /\ overdue' = {s \in Subs : status[s] = "active" /\ expires[s] < now}
    /\ overdue' # {}
    /\ UNCHANGED <<now, rows, user, requests, hook, expirer, stale, grants, history, count>>

\* ... and for each, as for one that is expired by hand, ExpireSubscription ...
Expires(e, s) ==
    /\ expirer[e] = NoExpiry /\ Unlocked(s)
    /\ \/ e = "cron" /\ s \in overdue /\ overdue' = overdue \ {s} /\ UNCHANGED count
       \/ e = "admin" /\ status[s] # "none" /\ Count("ops", MaxOps)
          /\ UNCHANGED overdue
    /\ UNCHANGED <<now, rows, user, requests, hook, stale, grants, history>>

\* Mutant of ExpireCount: other subscriptions are not counted.
ExpireCountNothing(e, s) ==
    /\ Expires(e, s)
    /\ expirer' = [expirer EXCEPT ![e] = [sub |-> s, reset |-> TRUE,
                                          lower |-> role = "subscriber"]]

\* ... which counts the user's other active subscriptions and reads the role ...
ExpireCount(e, s) ==
    /\ Expires(e, s)
    /\ expirer' = [expirer EXCEPT ![e] = [sub |-> s, reset |-> Current \ {s} = {},
                                          lower |-> role = "subscriber"]]

\* Mutant of ExpireCommit: the status is not written.
ExpireCommitUser(e) ==
    /\ expirer[e] # NoExpiry
    /\ expirer' = [expirer EXCEPT ![e] = NoExpiry] /\ since' = [since EXCEPT ![e] = {}]
    /\ plan' = IF expirer[e].reset THEN FALSE ELSE plan
    /\ role' = IF expirer[e].reset /\ expirer[e].lower THEN "common" ELSE role
    /\ UNCHANGED <<now, rows, granted, requests, hook, jobs, grants, byHand, overtaken, count>>

\* ... and resets the user if there were none.  It fails as a whole.
ExpireCommit(e) ==
    LET done == expirer[e] IN
    /\ done # NoExpiry
    /\ expirer' = [expirer EXCEPT ![e] = NoExpiry] /\ since' = [since EXCEPT ![e] = {}]
    /\ \/ /\ status' = [status EXCEPT ![done.sub] = "expired"]
          /\ plan' = IF done.reset THEN FALSE ELSE plan
          /\ role' = IF done.reset /\ done.lower THEN "common" ELSE role
          /\ overtaken' = IF done.reset THEN (Current \cap since[e]) \ {done.sub} # {}
                          ELSE overtaken
          /\ UNCHANGED count
       \/ Count("failures", MaxFailures) /\ UNCHANGED <<status, plan, role, overtaken>>
    /\ UNCHANGED <<now, created, expires, granted, requests, hook, jobs, grants, byHand>>

\* cleanupStalePendingSubscriptions: GetPendingSubscriptionsOlderThan ...
ListStale ==
    /\ stale = {}
    /\ stale' = {s \in Subs : status[s] = "pending" /\ now - created[s] > StaleAfter}
    /\ stale' # {}
    /\ UNCHANGED <<now, rows, user, requests, hook, expirer, overdue, grants, history, count>>

\* ... and CleanupStalePendingSubscription, which does not look at the status.
CleanUp(s) ==
    /\ s \in stale /\ stale' = stale \ {s}
    /\ WriteStatus(s, "expired")
    /\ UNCHANGED <<requests, overdue, count>>

-----------------------------------------------------------------------------
(* Cancellation and refund *)

\* CancelSubscriptionRenewal finds the active subscription that ends last ...
CancelRead(s) ==
    /\ s \in Current /\ \A x \in Current : expires[x] <= expires[s]
    /\ Count("ops", MaxOps)
    /\ cancelling' = cancelling \cup {s}
    /\ UNCHANGED <<now, rows, user, creator, refusing, hook, expirer, jobs, grants, history>>

\* ... and cancels it, whatever its status is by now.
CancelWrite(s) ==
    /\ s \in cancelling /\ cancelling' = cancelling \ {s}
    /\ WriteStatus(s, "cancelled")
    /\ UNCHANGED <<creator, refusing, jobs, count>>

\* RefundSubscription.  The benefits are to be reverted if the subscription was
\* active, but the test comes after Updates, which assigns the values it writes
\* to the object as well: it never finds an active one.
Refund(s) ==
    /\ status[s] # "none"
    /\ Count("ops", MaxOps)
    /\ WriteStatus(s, "cancelled")
    /\ UNCHANGED <<requests, jobs>>

Tick ==
    /\ now < MaxTime /\ now' = now + 1
    /\ UNCHANGED <<rows, user, requests, hook, expirer, jobs, grants, history, count>>

-----------------------------------------------------------------------------

Order ==
    \/ \E c \in Creators :
           CheckOrders(c) \/ ComputeExpiry(c) \/ \E s \in Subs : InsertOrder(c, s)
    \/ \E s \in Subs : RefuseRead(s)

Pay == \E h \in Hooks, s \in Subs : PaymentRead(h, s)

Administer ==
    \/ GrantRead
    \/ \E s \in Subs : ActivateByHand(s) \/ GrantInternal(s) \/ ExpireCount("admin", s)

Stop == \E s \in Subs : CancelRead(s) \/ Refund(s)

\* Steps that finish what has begun.
Finish ==
    \/ \E h \in Hooks : PaymentActivate(h)
    \/ \E s \in Subs : RefuseWrite(s) \/ CancelWrite(s) \/ Grant(s)
    \/ GrantActivate
    \/ \E e \in Expirers : ExpireCommit(e)

ExpiryJob == ListOverdue \/ \E s \in Subs : ExpireCount("cron", s)

CleanupJob == ListStale \/ \E s \in Subs : CleanUp(s)

Next == Order \/ Pay \/ Administer \/ Stop \/ Finish \/ ExpiryJob \/ CleanupJob \/ Tick

Spec == Init /\ [][Next]_vars

\* Requests and transactions that have begun end, and the expiry job's ticker goes on.
FairSpec == Spec /\ WF_vars(Finish) /\ WF_vars(ExpiryJob)

-----------------------------------------------------------------------------
(* Properties *)

Statuses == {"none", "pending", "active", "expired", "cancelled"}

TypeOK ==
    /\ now \in 0..MaxTime /\ status \in [Subs -> Statuses]
    /\ created \in [Subs -> 0..MaxTime] /\ expires \in [Subs -> Nat]
    /\ plan \in BOOLEAN /\ role \in {"common", "subscriber", "admin"}
    /\ granted \in [Subs -> Nat]
    /\ creator \in [Creators -> Nat \cup {None}]
    /\ refusing \subseteq Subs /\ cancelling \subseteq Subs
    /\ hook \in [Hooks -> Subs \cup {None}]
    /\ expirer \in [Expirers -> {NoExpiry} \cup
                                [sub : Subs, reset : BOOLEAN, lower : BOOLEAN]]
    /\ overdue \subseteq Subs /\ stale \subseteq Subs
    /\ grantEnd \in Nat /\ granting \in Subs \cup {None}
    /\ byHand \in [Subs -> Nat]
    /\ since \in [Expirers -> SUBSET Subs] /\ overtaken \in BOOLEAN
    /\ count \in [{"deliveries", "ops", "failures"} -> Nat]

\* processSubscriptionPayment: however often a payment is delivered, and whatever
\* else happens to the subscription, its quota is credited at most once for each
\* delivery that can be under way at a time (and once for every activation by
\* hand): what comes after an activation finds it.
CreditsBounded ==
    \A s \in Subs : granted[s] <= Cardinality(Hooks) + byHand[s]

\* What the row lock of processSubscriptionPayment is for: a subscription's quota
\* is credited once (and once for every activation by hand), however deliveries
\* of its payment overlap.
QuotaGrantedOnce == \A s \in Subs : granted[s] <= 1 + byHand[s]

\* ExpireSubscription resets a user only if no other subscription is active: a
\* user with an active one that is not over has the plan, unless a transaction
\* failed, a grant is under way, or (overtaken) ExpireSubscription reset the user
\* after a subscription had been activated that it had not counted.
ActiveHasPlan ==
    (Current # {} /\ count.failures = 0 /\ granting = None) => plan \/ overtaken

\* CreateSubscription: there are never more pending orders than requests for one
\* can be under way at a time, so one if they come one after the other.
OrdersBounded ==
    Cardinality({s \in Subs : status[s] = "pending"}) <= Cardinality(Creators)

\* A subscription that is over does not stay active, although ExpireSubscription
\* may fail and other handlers may overtake it.
OverdueExpires ==
    \A s \in Subs :
        (status[s] = "active" /\ expires[s] < now) ~> status[s] # "active"

=============================================================================
