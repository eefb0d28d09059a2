----------------------------- MODULE DailyQuota -----------------------------
(***************************************************************************)
(* The daily quota of one subscriber, kept in the user's row: what         *)
(* requests consume is added to daily_used; who reaches daily_quota is     *)
(* moved to the fallback group; a cron job sets daily_used to zero and     *)
(* moves users back once a day.  Every step is a statement of its own, so  *)
(* requests, the job, an administrator's reset and a change of the         *)
(* subscription may overlap anywhere.                                      *)
(*                                                                         *)
(* A request reaches daily_used by PostConsumeQuota, which settles the     *)
(* difference between its cost and the quota held for it in advance.       *)
(* The day is not counted: `late' says that the last reset was before it.  *)
(***************************************************************************)
EXTENDS Integers

CONSTANTS
    Requests,    \* requests in flight at the same time
    Limits,      \* values of daily_quota; 0: unlimited
    Costs,       \* what a request may cost
    Holds,       \* what may have been held for it in advance
    MaxUsed,     \* bound: of daily_used
    MaxChanges,  \* bound: changes of the subscription
    MaxResets,   \* bound: resets by hand
    MaxFailures  \* bound: failing statements

ASSUME DailyQuotaAssumption ==
    /\ Limits \cup Costs \cup Holds \cup {MaxUsed, MaxChanges, MaxResets, MaxFailures}
           \subseteq Nat
    /\ Requests \cap {"job", "hand"} = {}

VARIABLES
    used,       \* users.daily_used
    limit,      \* users.daily_quota
    late,       \* users.last_daily_reset lies before today
    configured, \* users.base_group and fallback_group are set
    group,      \* users.group
    req,        \* per request: its step, cost and hold
    resetter,   \* step of ProcessDailyQuotaReset, for the job and by hand
    missed,     \* history: who goes on from what has been changed since
    overtaken,  \* history: one of them made the last write to group
    count       \* changes, resets by hand, failures

vars == <<used, limit, late, configured, group, req, resetter, missed, overtaken,
          count>>

row == <<used, limit, late, configured, group>>
history == <<missed, overtaken>>

Groups == {"base", "fallback", "default"}
Resetters == {"job", "hand"}
Idle == [pc |-> "idle", cost |-> 0, hold |-> 0]

Init ==
    /\ used = 0 /\ limit \in Limits /\ late \in BOOLEAN
    /\ configured = TRUE /\ group = "base"
    /\ req = [r \in Requests |-> Idle]
    /\ resetter = [e \in Resetters |-> "idle"]
    /\ missed = {} /\ overtaken = FALSE
    /\ count = [changes |-> 0, resets |-> 0, failures |-> 0]

Count(what, max) ==
    count[what] < max /\ count' = [count EXCEPT ![what] = @ + 1]

Exhausted == limit > 0 /\ used >= limit

\* History: those between reading the row and writing it, who miss a change.
Readers ==
    {r \in Requests : req[r].pc \in {"switch", "write"}}
    \cup {e \in Resetters : resetter[e] \in {"restore", "write"}}

-----------------------------------------------------------------------------
(* Requests *)

To(r, pc) == req' = [req EXCEPT ![r] = [@ EXCEPT !.pc = pc]]

\* A failing statement is logged; nothing after it is done.
Give(r) ==
    /\ Count("failures", MaxFailures)
    /\ req' = [req EXCEPT ![r] = Idle] /\ missed' = missed \ {r}
    /\ UNCHANGED <<row, resetter, overtaken>>

\* The quota of a request is held, or none if its owner is trusted.
Start(r) ==
    /\ req[r] = Idle
    /\ \E c \in Costs, h \in Holds :
           req' = [req EXCEPT ![r] = [pc |-> "running", cost |-> c, hold |-> h]]
    /\ UNCHANGED <<row, resetter, history, count>>

\* PostConsumeQuota and, of what exceeds the hold, IncreaseDailyUsed.
Settle(r) ==
    /\ req[r].pc = "running"
    /\ LET more == req[r].cost - req[r].hold
       IN  \/ /\ more > 0 /\ used + more <= MaxUsed
              /\ used' = used + more
              /\ To(r, "count")
              /\ missed' = missed \cup (Readers \cap Resetters)
              /\ UNCHANGED <<limit, late, configured, group, resetter, overtaken, count>>
           \/ /\ more <= 0
              /\ req' = [req EXCEPT ![r] = Idle]
              /\ UNCHANGED <<row, resetter, history, count>>
           \/ more > 0 /\ Give(r)

\* Mutant of Inform: nobody is switched.
InformNever(r) ==
    /\ req[r].pc = "count"
    /\ req' = [req EXCEPT ![r] = Idle]
    /\ UNCHANGED <<row, resetter, history, count>>

\* PostConsumeDailyQuota looks at the quota ...
Inform(r) ==
    /\ req[r].pc = "count"
    /\ \/ /\ IF Exhausted /\ configured /\ group # "fallback"
             THEN To(r, "switch")
             ELSE req' = [req EXCEPT ![r] = Idle]
          /\ UNCHANGED <<row, resetter, history, count>>
       \/ Give(r)

\* ... SwitchToFallbackGroup at the groups ...
SwitchRead(r) ==
    /\ req[r].pc = "switch"
    /\ \/ /\ IF configured /\ group # "fallback"
             THEN To(r, "write") /\ UNCHANGED missed
             ELSE req' = [req EXCEPT ![r] = Idle] /\ missed' = missed \ {r}
          /\ UNCHANGED <<row, resetter, overtaken, count>>
       \/ Give(r)

\* ... and moves the user.
SwitchWrite(r) ==
    /\ req[r].pc = "write"
    /\ \/ /\ group' = "fallback"
          /\ overtaken' = (r \in missed) /\ missed' = missed \ {r}
          /\ req' = [req EXCEPT ![r] = Idle]
          /\ UNCHANGED <<used, limit, late, configured, resetter, count>>
       \/ Give(r)

-----------------------------------------------------------------------------
(* Resets *)

Step(e, pc) == resetter' = [resetter EXCEPT ![e] = pc]

Abandon(e) ==
    /\ Count("failures", MaxFailures)
    /\ Step(e, "idle") /\ missed' = missed \ {e}
    /\ UNCHANGED <<row, req, overtaken>>

Midnight ==
    /\ late = FALSE /\ late' = TRUE
    /\ UNCHANGED <<used, limit, configured, group, req, resetter, history, count>>

\* processDailyQuotaResets finds the user by GetUsersNeedingDailyReset ...
List ==
    /\ resetter["job"] = "idle"
    /\ limit > 0 /\ late
    /\ Step("job", "listed")
    /\ UNCHANGED <<row, req, history, count>>

\* ... or ResetUserDailyQuota is called for the user.
Ask ==
    /\ resetter["hand"] = "idle"
    /\ Count("resets", MaxResets)
    /\ Step("hand", "listed")
    /\ UNCHANGED <<row, req, history>>

\* ResetDailyQuota, whatever the row has become since.
Reset(e) ==
    /\ resetter[e] = "listed"
    /\ \/ /\ used' = 0 /\ late' = FALSE
          /\ Step(e, "restore") /\ missed' = Readers
          /\ UNCHANGED <<limit, configured, group, req, overtaken, count>>
       \/ Abandon(e)

\* Mutant of RestoreRead: a user is never moved back.
RestoreReadNever(e) ==
    /\ resetter[e] = "restore"
    /\ Step(e, "idle") /\ missed' = missed \ {e}
    /\ UNCHANGED <<row, req, overtaken, count>>

\* RestoreToBaseGroup looks at the groups ...
RestoreRead(e) ==
    /\ resetter[e] = "restore"
    /\ \/ /\ IF configured /\ group # "base"
             THEN Step(e, "write") /\ UNCHANGED missed
             ELSE Step(e, "idle") /\ missed' = missed \ {e}
          /\ UNCHANGED <<row, req, overtaken, count>>
       \/ Abandon(e)

\* ... and moves the user back.
RestoreWrite(e) ==
    /\ resetter[e] = "write"
    /\ \/ /\ group' = "base"
          /\ overtaken' = (e \in missed) /\ missed' = missed \ {e}
          /\ Step(e, "idle")
          /\ UNCHANGED <<used, limit, late, configured, req, count>>
       \/ Abandon(e)

-----------------------------------------------------------------------------
(* Changes of the subscription, each one statement *)

Change(l, c, g) ==
    /\ Count("changes", MaxChanges)
    /\ limit' = l /\ configured' = c /\ group' = g
    /\ missed' = Readers
    /\ UNCHANGED <<req, resetter>>

\* Mutant of Configure: the group is left.
ConfigureLimitsOnly ==
    /\ \E l \in Limits : Change(l, TRUE, group)
    /\ overtaken' = FALSE
    /\ UNCHANGED <<used, late>>

\* UpdateUserSubscriptionConfig moves the user to the base group, daily_used or no:
\* the next request will see.
Configure ==
    \E l \in Limits :
        /\ Change(l, TRUE, "base")
        /\ overtaken' = (l > 0 /\ used >= l)
        /\ UNCHANGED <<used, late>>

\* ActivateSubscription.
Activate ==
    /\ \E l \in Limits : Change(l, TRUE, "base")
    /\ used' = 0 /\ late' = FALSE /\ overtaken' = FALSE

\* Mutant of Expire: the group is left.
ExpireLimitsOnly ==
    /\ Change(0, FALSE, group)
    /\ overtaken' = FALSE
    /\ UNCHANGED <<used, late>>

\* ExpireSubscription, of the last one that is active.
Expire ==
    /\ Change(0, FALSE, "default")
    /\ overtaken' = FALSE
    /\ UNCHANGED <<used, late>>

-----------------------------------------------------------------------------

Work(r) == Settle(r) \/ Inform(r) \/ SwitchRead(r) \/ SwitchWrite(r)

Process(e) == Reset(e) \/ RestoreRead(e) \/ RestoreWrite(e)

Next ==
    \/ \E r \in Requests : Start(r) \/ Work(r)
    \/ \E e \in Resetters : Process(e)
    \/ List \/ Ask \/ Midnight
    \/ Configure \/ Activate \/ Expire

Spec == Init /\ [][Next]_vars

\* Days pass, the job is started every minute, and what has begun goes on.
FairSpec ==
    /\ Spec
    /\ WF_vars(Midnight) /\ WF_vars(List)
    /\ \A e \in Resetters : WF_vars(Process(e))
    /\ \A r \in Requests : WF_vars(Work(r))

-----------------------------------------------------------------------------
(* Properties *)

Steps == {"idle", "running", "count", "switch", "write"}

TypeOK ==
    /\ used \in 0..MaxUsed /\ limit \in Limits \cup {0}
    /\ late \in BOOLEAN /\ configured \in BOOLEAN
    /\ missed \subseteq Readers /\ overtaken \in BOOLEAN
    /\ group \in Groups
    /\ req \in [Requests -> [pc : Steps, cost : Costs \cup {0}, hold : Holds \cup {0}]]
    /\ resetter \in [Resetters -> {"idle", "listed", "restore", "write"}]

Switching == \E r \in Requests : req[r].pc \in {"count", "switch", "write"}
Restoring == \E e \in Resetters : resetter[e] \in {"restore", "write"}
Failed == count.failures > 0

\* However requests and resets overlap, a user who has reached the daily quota is
\* in the fallback group or has a request on the way that will move it, unless a
\* statement failed or the group was written by one that had missed a change of
\* the row.
ExhaustedIsSwitched ==
    (Exhausted /\ configured /\ ~Failed /\ ~overtaken)
    => (group = "fallback" \/ Switching)

\* ... and a user who has quota left is not in the fallback group for longer than
\* a reset takes.
FallbackHasCause ==
    (group = "fallback" /\ ~Failed /\ ~overtaken) => (Exhausted \/ Restoring)

\* With the subscription its groups end.
GroupEndsWithSubscription ==
    (~configured /\ ~overtaken) => group = "default"

\* A user in the fallback group comes back to the base group, be it after a reset
\* that failed, as long as there is a daily quota: the job passes by the others.
FallbackEnds ==
    (group = "fallback" /\ limit > 0) ~> (group = "base" \/ limit = 0)

=============================================================================
