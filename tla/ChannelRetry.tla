---------------------------- MODULE ChannelRetry ----------------------------
(***************************************************************************)
(* The attempts of one relay request: the distributor selects the channel  *)
(* of the first one, Relay's loop those of the retries.  A request runs in *)
(* one group, or ("auto") walks through the user's auto groups.  The loop  *)
(* counts with a retry counter that CacheGetRandomSatisfiedChannel, called *)
(* in its body, resets; meanwhile other goroutines disable and enable      *)
(* channels.                                                               *)
(*                                                                         *)
(* A channel is represented by its priority level: which of the channels   *)
(* of one level is drawn (by weight, at random) changes nothing here.      *)
(***************************************************************************)
EXTENDS Integers, Sequences, FiniteSets, FiniteSetsExt

CONSTANTS
    NGroups,         \* length of the user's list of auto groups
    Levels,          \* priorities that channels can have
    RetryTimes,      \* common.RetryTimes
    MaxPoolChanges   \* bound: channels disabled or enabled by others

ASSUME RetryAssumption ==
    /\ NGroups \in Nat \ {0}
    /\ Levels \subseteq Int /\ IsFiniteSet(Levels)
    /\ RetryTimes \in Nat
    /\ MaxPoolChanges \in Nat

VARIABLES
    mode,        \* "auto", "group" (TokenGroup names one), "pinned" (to a channel)
    crossGroup,  \* ContextKeyTokenCrossGroupRetry
    pool,        \* [Groups -> SUBSET Levels], priorities with an enabled channel
    changes,     \* changes of the pool so far
    pc,          \* "distribute", "attempt", "select", "done" or, for good, "hung"
    result,      \* how the request ended
    retry,       \* RetryParam.Retry
    resetNext,   \* RetryParam.resetNextTry
    groupIndex,  \* ContextKeyAutoGroupIndex, from 0
    attempts     \* history: group, priority index and priority of each attempt

vars == <<mode, crossGroup, pool, changes, pc, result, retry, resetNext,
          groupIndex, attempts>>

Groups == 0..(NGroups - 1)

Results == {"", "served", "refused", "no_key", "no_channel", "exhausted"}

\* What an attempt can end with: a "channel:" error, one with skipRetry, a
\* status worth retrying, any other error, or an answer.
Outcomes == {"ok", "channel", "skip", "retryable", "final"}

Init ==
    /\ mode \in {"auto", "group", "pinned"}
    /\ crossGroup \in BOOLEAN
    /\ pool \in [Groups -> SUBSET Levels]
    /\ changes = 0
    /\ pc = "distribute" /\ result = ""
    /\ retry = 0 /\ resetNext = FALSE /\ groupIndex = 0
    /\ attempts = <<>>

-----------------------------------------------------------------------------
(* Selection *)

\* GetRandomSatisfiedChannel: the priority of index k from the highest, the
\* lowest when there are not so many.
Target(S, k) ==
    LET n == IF k >= Cardinality(S) THEN Cardinality(S) - 1 ELSE k
    IN  CHOOSE p \in S : Cardinality({x \in S : x > p}) = n

\* The auto groups from the cursor on that have a channel.
Candidates == {g \in Groups : g >= groupIndex /\ pool[g] # {}}

\* The channel of group g and priority index k is attempted next.
Attempt(g, k) ==
    /\ attempts' = Append(attempts, [group |-> g, index |-> k,
                                     level |-> Target(pool[g], k)])
    /\ pc' = "attempt"
    /\ UNCHANGED result

Give(up) == pc' = "done" /\ result' = up /\ UNCHANGED attempts

\* Mutant of Advance: the cursor stays on the group whose retries are used up.
AdvanceStaying(g, k, r) ==
    IF crossGroup /\ k >= RetryTimes
    THEN groupIndex' = g /\ retry' = 0 /\ resetNext' = TRUE
    ELSE groupIndex' = g /\ retry' = r /\ resetNext' = resetNext

\* Mutant of Advance: ResetRetryNextTry is not called.
AdvanceCounting(g, k, r) ==
    IF crossGroup /\ k >= RetryTimes
    THEN groupIndex' = g + 1 /\ retry' = 0 /\ resetNext' = resetNext
    ELSE groupIndex' = g /\ retry' = r /\ resetNext' = resetNext

\* Mutant of Advance: > for >=.
AdvanceLate(g, k, r) ==
    IF crossGroup /\ k > RetryTimes
    THEN groupIndex' = g + 1 /\ retry' = 0 /\ resetNext' = TRUE
    ELSE groupIndex' = g /\ retry' = r /\ resetNext' = resetNext

\* Group g was selected at priority index k; r is the counter as it stands.
\* With cross-group retry its last attempt moves the cursor on and starts the
\* counter again.
Advance(g, k, r) ==
    IF crossGroup /\ k >= RetryTimes
    THEN groupIndex' = g + 1 /\ retry' = 0 /\ resetNext' = TRUE
    ELSE groupIndex' = g /\ retry' = r /\ resetNext' = resetNext

\* CacheGetRandomSatisfiedChannel for "auto": groups without a channel are
\* passed, and passing one resets the counter.
SelectAuto ==
    IF Candidates = {}
    THEN /\ Give("no_channel")
         /\ groupIndex' = NGroups
         /\ retry' = IF groupIndex < NGroups THEN 0 ELSE retry
         /\ UNCHANGED resetNext
    ELSE LET g == Min(Candidates)
             k == IF g = groupIndex THEN retry ELSE 0
         IN  Attempt(g, k) /\ Advance(g, k, k)

\* For a named group (group 0); a pinned request's retries are drawn from the
\* group of its token as well.
SelectInGroup ==
    /\ IF pool[0] = {} THEN Give("no_channel") ELSE Attempt(0, retry)
    /\ UNCHANGED <<retry, resetNext, groupIndex>>

-----------------------------------------------------------------------------
(* Actions *)

\* Distribute: the first channel.  That no key of it is enabled is overlooked
\* here.  A pinned request takes its channel, whatever its group and priority.
DistributePinned(p) ==
    /\ pc = "distribute" /\ mode = "pinned"
    /\ \/ /\ attempts' = Append(attempts, [group |-> 0, index |-> 0, level |-> p])
          /\ pc' = "attempt" /\ UNCHANGED result
       \/ Give("refused")
    /\ UNCHANGED <<mode, crossGroup, pool, changes, retry, resetNext, groupIndex>>

DistributeInGroup ==
    /\ pc = "distribute" /\ mode = "group"
    /\ SelectInGroup
    /\ UNCHANGED <<mode, crossGroup, pool, changes>>

\* The distributor's RetryParam is its own: of what the selection does to it
\* only the cursor, which is kept in the context, remains.
DistributeAuto ==
    /\ pc = "distribute" /\ mode = "auto"
    /\ IF Candidates = {}
       THEN Give("no_channel") /\ groupIndex' = NGroups
       ELSE LET g == Min(Candidates)
            IN  /\ Attempt(g, 0)
                /\ groupIndex' = IF crossGroup /\ RetryTimes = 0 THEN g + 1 ELSE g
    /\ UNCHANGED <<mode, crossGroup, pool, changes, retry, resetNext>>

\* Mutant of Select: a retry waits until there is a channel.
SelectWaiting ==
    /\ pc = "select"
    /\ IF mode = "auto" THEN Candidates # {} /\ SelectAuto
       ELSE pool[0] # {} /\ SelectInGroup
    /\ UNCHANGED <<mode, crossGroup, pool, changes>>

\* getChannel in a retry ...
Select ==
    /\ pc = "select"
    /\ IF mode = "auto" THEN SelectAuto ELSE SelectInGroup
    /\ UNCHANGED <<mode, crossGroup, pool, changes>>

\* ... which fails if every key of the selected channel is disabled.
SelectKeyless ==
    /\ pc = "select"
    /\ IF mode = "auto" THEN Candidates # {} ELSE pool[0] # {}
    /\ Give("no_key")
    /\ UNCHANGED <<mode, crossGroup, pool, changes, retry, resetNext, groupIndex>>

\* shouldRetry.
ShouldRetry(o) ==
    \/ o = "channel"
    \/ o = "retryable" /\ RetryTimes - retry > 0 /\ mode # "pinned"

\* The attempt ends with o; IncreaseRetry and the condition of the loop.
Respond(o) ==
    /\ pc = "attempt"
    /\ IF o = "ok" THEN Give("served") /\ UNCHANGED <<retry, resetNext>>
       ELSE IF ~ShouldRetry(o)
            THEN /\ Give(IF o = "retryable" THEN "exhausted" ELSE "refused")
                 /\ UNCHANGED <<retry, resetNext>>
            ELSE /\ resetNext' = FALSE
                 /\ retry' = IF resetNext THEN retry ELSE retry + 1
                 /\ IF retry' <= RetryTimes
                    THEN pc' = "select" /\ UNCHANGED <<result, attempts>>
                    ELSE Give("exhausted")
    /\ UNCHANGED <<mode, crossGroup, pool, changes, groupIndex>>

\* The channel never answers the attempt.  RELAY_TIMEOUT is unset as shipped, and
\* the attempt has no context that ends when the caller leaves.
Hang ==
    /\ pc = "attempt"
    /\ pc' = "hung"
    /\ UNCHANGED <<mode, crossGroup, pool, changes, result, retry, resetNext,
                   groupIndex, attempts>>

\* Another goroutine disables or enables the channels of one priority.
ChangePool(g, p) ==
    /\ pc # "done"
    /\ changes < MaxPoolChanges
    /\ changes' = changes + 1
    /\ pool' = [pool EXCEPT ![g] = IF p \in @ THEN @ \ {p} ELSE @ \cup {p}]
    /\ UNCHANGED <<mode, crossGroup, pc, result, retry, resetNext, groupIndex,
                   attempts>>

Handle ==
    \/ DistributeInGroup \/ DistributeAuto \/ \E p \in Levels : DistributePinned(p)
    \/ Select \/ SelectKeyless
    \/ \E o \in Outcomes : Respond(o)

Next == Handle \/ Hang \/ \E g \in Groups, p \in Levels : ChangePool(g, p)

Spec == Init /\ [][Next]_vars

\* The request's goroutine runs, and an attempt is answered that does not hang.
FairSpec == Spec /\ WF_vars(Handle)

-----------------------------------------------------------------------------
(* Properties *)

AttemptRecords == [group : Groups, index : Nat, level : Levels]

TypeOK ==
    /\ mode \in {"auto", "group", "pinned"} /\ crossGroup \in BOOLEAN
    /\ pool \in [Groups -> SUBSET Levels] /\ changes \in 0..MaxPoolChanges
    /\ pc \in {"distribute", "attempt", "select", "done", "hung"}
    /\ result \in Results /\ (pc = "done" <=> result # "")
    /\ retry \in 0..(RetryTimes + 1) /\ resetNext \in BOOLEAN
    /\ groupIndex \in 0..NGroups
    /\ attempts \in Seq(AttemptRecords)

\* However often the selection resets the counter the loop counts with, and
\* whatever happens to the pool, a request makes RetryTimes + 1 attempts in each
\* of its groups at most.
AttemptsBounded ==
    Len(attempts) <= (RetryTimes + 1) * (IF mode = "auto" THEN NGroups ELSE 1)

\* In every group the attempts begin at the highest priority and go down one
\* index at a time, and no group is returned to.
TopDown ==
    \A n \in 2..Len(attempts) :
        LET before == attempts[n - 1] now == attempts[n]
        IN  \/ now.group = before.group /\ now.index = before.index + 1
            \/ now.group > before.group /\ now.index = 0

\* With cross-group retry a request that is given up for want of retries or of
\* channels has made all its attempts in every group that had a channel.
NoGroupForgotten ==
    (/\ pc = "done" /\ result \in {"exhausted", "no_channel"}
     /\ mode = "auto" /\ crossGroup /\ RetryTimes > 0 /\ changes = 0)
    => \A g \in Groups : pool[g] # {} =>
           \A k \in 0..RetryTimes :
               \E n \in 1..Len(attempts) :
                   attempts[n].group = g /\ attempts[n].index = k

\* However often the counter starts again and the pool changes, the loop ends,
\* unless a channel never answers: nothing else ends that attempt.
RequestEnds == <>(pc \in {"done", "hung"})

=============================================================================
