-------------------------- MODULE DailyQuotaProofs --------------------------
(***************************************************************************)
(* Theorems about the groups of a subscriber: any number of requests, any  *)
(* costs and limits, any number of changes, resets and failing statements. *)
(***************************************************************************)
EXTENDS DailyQuota, TLAPS

-----------------------------------------------------------------------------
(* The invariant                                                           *)

Writing(p) == (p \in Requests /\ req[p].pc = "write")
              \/ (p \in Resetters /\ resetter[p] = "write")

\* Who is about to write the group of a user whose subscription has ended has
\* missed that.
Departed == ~configured => \A p \in Requests \cup Resetters : Writing(p) => p \in missed

\* A request that is about to move the user, and has missed nothing, is right.
Informed == \A r \in Requests : req[r].pc \in {"switch", "write"} /\ r \notin missed
                                => Exhausted

\* A reset that is about to move a user back whose quota is used up has missed that.
Warned == Exhausted => \A e \in Resetters : resetter[e] \in {"restore", "write"}
                                            => e \in missed

\* The inductive invariant.
Inv == /\ TypeOK /\ count \in [{"changes", "resets", "failures"} -> Nat]
       /\ Departed /\ Informed /\ Warned
       /\ ExhaustedIsSwitched /\ FallbackHasCause /\ GroupEndsWithSubscription

-----------------------------------------------------------------------------
(* Types                                                                   *)

ReqTypes == [Requests -> [pc : Steps, cost : Costs \cup {0}, hold : Holds \cup {0}]]
ResetterTypes == [Resetters -> {"idle", "listed", "restore", "write"}]
Counters == {"changes", "resets", "failures"}

\* What a step of a request does to the requests ...
Moved(r, pc) == /\ req' \in ReqTypes /\ req'[r].pc = pc
                /\ \A q \in Requests \ {r} : req'[q] = req[q]

\* ... and a step of a reset to the resets.
Stepped(e, pc) == /\ resetter' \in ResetterTypes /\ resetter'[e] = pc
                  /\ \A d \in Resetters \ {e} : resetter'[d] = resetter[d]

LEMMA Moves == ASSUME TypeOK, NEW r \in Requests, NEW pc \in Steps, To(r, pc)
               PROVE  Moved(r, pc)
<1>1. req \in ReqTypes
  BY DEF TypeOK, ReqTypes
<1>2. [req[r] EXCEPT !.pc = pc] \in [pc : Steps, cost : Costs \cup {0}, hold : Holds \cup {0}]
      /\ [req[r] EXCEPT !.pc = pc].pc = pc
  BY <1>1 DEF ReqTypes
<1>3. req' = [req EXCEPT ![r] = [req[r] EXCEPT !.pc = pc]]
  BY DEF To
<1> QED BY <1>1, <1>2, <1>3 DEF ReqTypes, Moved

LEMMA Ends == ASSUME TypeOK, NEW r \in Requests, req' = [req EXCEPT ![r] = Idle]
              PROVE  Moved(r, "idle")
<1>1. req \in ReqTypes
  BY DEF TypeOK, ReqTypes
<1>2. Idle \in [pc : Steps, cost : Costs \cup {0}, hold : Holds \cup {0}] /\ Idle.pc = "idle"
  BY DEF Idle, Steps
<1> QED BY <1>1, <1>2 DEF ReqTypes, Moved

LEMMA Resets == ASSUME TypeOK, NEW e \in Resetters,
                       NEW pc \in {"idle", "listed", "restore", "write"}, Step(e, pc)
                PROVE  Stepped(e, pc)
<1>1. resetter \in ResetterTypes
  BY DEF TypeOK, ResetterTypes
<1>2. resetter' = [resetter EXCEPT ![e] = pc]
  BY DEF Step
<1> QED BY <1>1, <1>2 DEF ResetterTypes, Stepped

LEMMA NumberTypes == TypeOK => used \in Nat /\ limit \in Nat /\ MaxUsed \in Nat
BY DailyQuotaAssumption DEF TypeOK

LEMMA Counting ==
    ASSUME count \in [Counters -> Nat], NEW w \in Counters, NEW max, Count(w, max)
    PROVE  /\ count' \in [Counters -> Nat] /\ (Failed => Failed')
           /\ w = "failures" => Failed'
BY DEF Count, Counters, Failed

\* What is used up stays so while the quota does and the usage does not shrink.
LEMMA ExhaustedStays ==
    ASSUME TypeOK, limit' = limit, used' \in Int, used' >= used
    PROVE  Exhausted => Exhausted'
BY NumberTypes DEF Exhausted

-----------------------------------------------------------------------------
(* Steps that leave the row alone                                          *)

\* A request goes on, or ends.
LEMMA RequestGoes ==
    ASSUME Inv, NEW r \in Requests, NEW pc \in Steps, Moved(r, pc),
           UNCHANGED <<row, resetter, overtaken>>,
           count' \in [Counters -> Nat], Failed => Failed',
           missed' \in {missed, missed \ {r}}, r \in missed' => pc \in {"switch", "write"},
           pc = "write" => configured /\ req[r].pc = "switch" /\ missed' = missed,
           pc = "switch" => Exhausted,
           \/ pc \in {"count", "switch", "write"} \/ Failed'
           \/ req[r].pc \notin {"count", "switch", "write"}
           \/ ~(Exhausted /\ configured) \/ group = "fallback"
    PROVE  Inv'
<1>1. used' = used /\ limit' = limit /\ late' = late /\ configured' = configured
      /\ group' = group /\ resetter' = resetter /\ overtaken' = overtaken
  BY DEF row
<1>2. Exhausted' = Exhausted /\ Restoring' = Restoring
  BY <1>1 DEF Exhausted, Restoring
<1>3. missed' \subseteq Readers'
  BY <1>1, DailyQuotaAssumption DEF Inv, TypeOK, Readers, Moved
<1>4. TypeOK'
  BY <1>1, <1>3 DEF Inv, TypeOK, Moved, ReqTypes
<1>5. Departed'
  BY <1>1, DailyQuotaAssumption DEF Inv, Departed, Writing, Moved, Resetters
<1>6. Informed'
  BY <1>2 DEF Inv, Informed, Moved
<1>7. Warned'
  BY <1>1, <1>2, DailyQuotaAssumption DEF Inv, Warned, Resetters
<1>8. ExhaustedIsSwitched'
  <2>1. SUFFICES ASSUME Exhausted, configured, ~Failed', ~overtaken, group # "fallback"
                 PROVE  Switching'
    BY <1>1, <1>2 DEF ExhaustedIsSwitched
  <2>2. Switching
    BY <2>1 DEF Inv, ExhaustedIsSwitched
  <2>3. PICK q \in Requests : req[q].pc \in {"count", "switch", "write"}
    BY <2>2 DEF Switching
  <2>4. CASE q = r
    BY <2>1, <2>3, <2>4 DEF Switching, Moved
  <2>5. CASE q # r
    BY <2>3, <2>5 DEF Switching, Moved
  <2> QED BY <2>4, <2>5
<1>9. FallbackHasCause' /\ GroupEndsWithSubscription'
  BY <1>1, <1>2 DEF Inv, FallbackHasCause, GroupEndsWithSubscription
<1> QED BY <1>4, <1>5, <1>6, <1>7, <1>8, <1>9 DEF Inv, Counters

\* A reset goes on, or ends.
LEMMA ResetGoes ==
    ASSUME Inv, NEW e \in Resetters, NEW pc \in {"idle", "listed", "write"}, Stepped(e, pc),
           UNCHANGED <<row, req, overtaken>>,
           count' \in [Counters -> Nat], Failed => Failed',
           missed' \in {missed, missed \ {e}}, e \in missed' => pc = "write",
           pc = "write" => configured /\ resetter[e] = "restore" /\ missed' = missed,
           \/ pc = "write" \/ Failed' \/ resetter[e] \in {"idle", "listed"}
           \/ ~configured \/ group # "fallback"
    PROVE  Inv'
<1>1. used' = used /\ limit' = limit /\ late' = late /\ configured' = configured
      /\ group' = group /\ req' = req /\ overtaken' = overtaken
  BY DEF row
<1>2. Exhausted' = Exhausted /\ Switching' = Switching
  BY <1>1 DEF Exhausted, Switching
<1>3. missed' \subseteq Readers'
  BY <1>1, DailyQuotaAssumption DEF Inv, TypeOK, Readers, Stepped, Resetters
<1>4. TypeOK'
  BY <1>1, <1>3 DEF Inv, TypeOK, Stepped, ResetterTypes
<1>5. Departed'
  BY <1>1, DailyQuotaAssumption DEF Inv, Departed, Writing, Stepped, Resetters
<1>6. Informed'
  BY <1>1, <1>2, DailyQuotaAssumption DEF Inv, Informed, Resetters
<1>7. Warned'
  BY <1>2 DEF Inv, Warned, Stepped
<1>8. ExhaustedIsSwitched' /\ GroupEndsWithSubscription'
  BY <1>1, <1>2 DEF Inv, ExhaustedIsSwitched, GroupEndsWithSubscription
<1>9. FallbackHasCause'
  <2>1. SUFFICES ASSUME group = "fallback", ~Failed', ~overtaken, ~Exhausted
                 PROVE  Restoring'
    BY <1>1, <1>2 DEF FallbackHasCause
  <2>2. Restoring /\ configured
    BY <2>1 DEF Inv, FallbackHasCause, GroupEndsWithSubscription
  <2>3. PICK d \in Resetters : resetter[d] \in {"restore", "write"}
    BY <2>2 DEF Restoring
  <2>4. CASE d = e
    BY <2>1, <2>2, <2>3, <2>4 DEF Restoring, Stepped
  <2>5. CASE d # e
    BY <2>3, <2>5 DEF Restoring, Stepped
  <2> QED BY <2>4, <2>5
<1> QED BY <1>4, <1>5, <1>6, <1>7, <1>8, <1>9 DEF Inv, Counters

LEMMA GiveKeeps == ASSUME Inv, NEW r \in Requests, Give(r) PROVE Inv'
<1>1. count' \in [Counters -> Nat] /\ Failed'
  BY Counting DEF Give, Inv, Counters
<1>2. Moved(r, "idle")
  BY Ends DEF Give, Inv
<1>3. UNCHANGED <<row, resetter, overtaken>> /\ missed' = missed \ {r}
  BY DEF Give
<1>4. "idle" \in Steps
  BY DEF Steps
<1>5. r \notin missed'
  BY <1>3
<1> HIDE DEF Steps
<1> QED BY <1>1, <1>2, <1>3, <1>4, <1>5, RequestGoes

LEMMA AbandonKeeps == ASSUME Inv, NEW e \in Resetters, Abandon(e) PROVE Inv'
<1>1. count' \in [Counters -> Nat] /\ Failed'
  BY Counting DEF Abandon, Inv, Counters
<1>2. Stepped(e, "idle")
  BY Resets DEF Abandon, Inv
<1>3. UNCHANGED <<row, req, overtaken>> /\ missed' = missed \ {e}
  BY DEF Abandon
<1> QED BY <1>1, <1>2, <1>3, ResetGoes

LEMMA StartKeeps == ASSUME Inv, NEW r \in Requests, Start(r) PROVE Inv'
<1>1. PICK c \in Costs, h \in Holds :
          req' = [req EXCEPT ![r] = [pc |-> "running", cost |-> c, hold |-> h]]
  BY DEF Start
<1>2. req[r].pc = "idle" /\ UNCHANGED <<row, resetter, history, count>>
  BY DEF Start, Idle
<1>3. Moved(r, "running")
  <2>1. [pc |-> "running", cost |-> c, hold |-> h]
            \in [pc : Steps, cost : Costs \cup {0}, hold : Holds \cup {0}]
    BY DEF Steps
  <2>2. req \in ReqTypes
    BY DEF Inv, TypeOK, ReqTypes
  <2> QED BY <1>1, <2>1, <2>2 DEF ReqTypes, Moved
<1>4. r \notin missed'
  BY <1>2, DailyQuotaAssumption DEF Inv, TypeOK, Readers, Resetters, history
<1>5. UNCHANGED <<row, resetter, overtaken>> /\ missed' = missed /\ Failed' = Failed
      /\ count' \in [Counters -> Nat] /\ "running" \in Steps
  BY <1>2 DEF history, Inv, Counters, Failed, Steps
<1> QED BY <1>2, <1>3, <1>4, <1>5, RequestGoes

LEMMA InformKeeps == ASSUME Inv, NEW r \in Requests, Inform(r) PROVE Inv'
<1>1. CASE Give(r)
  BY <1>1, GiveKeeps
<1>2. ASSUME req[r].pc = "count",
             IF Exhausted /\ configured /\ group # "fallback"
             THEN To(r, "switch") ELSE req' = [req EXCEPT ![r] = Idle],
             UNCHANGED <<row, resetter, history, count>>
      PROVE  Inv'
  <2>1. UNCHANGED <<row, resetter, overtaken>> /\ missed' = missed /\ Failed' = Failed
        /\ count' \in [Counters -> Nat] /\ "switch" \in Steps /\ "idle" \in Steps
    BY <1>2 DEF history, Inv, Counters, Failed, Steps
  <2>2. r \notin missed'
    BY <1>2, <2>1, DailyQuotaAssumption DEF Inv, TypeOK, Readers, Resetters
  <2>3. CASE Exhausted /\ configured /\ group # "fallback"
    <3>1. Moved(r, "switch")
      BY <1>2, <2>1, <2>3, Moves DEF Inv
    <3> QED BY <2>1, <2>2, <2>3, <3>1, RequestGoes
  <2>4. CASE ~(Exhausted /\ configured /\ group # "fallback")
    <3>1. Moved(r, "idle")
      BY <1>2, <2>4, Ends DEF Inv
    <3> QED BY <2>1, <2>2, <2>4, <3>1, RequestGoes
  <2> QED BY <2>3, <2>4
<1> QED BY <1>1, <1>2 DEF Inform

LEMMA SwitchReadKeeps == ASSUME Inv, NEW r \in Requests, SwitchRead(r) PROVE Inv'
<1>1. CASE Give(r)
  BY <1>1, GiveKeeps
<1>2. ASSUME req[r].pc = "switch", UNCHANGED <<row, resetter, overtaken, count>>
      PROVE  /\ UNCHANGED <<row, resetter, overtaken>> /\ Failed' = Failed
             /\ count' \in [Counters -> Nat] /\ "write" \in Steps /\ "idle" \in Steps
  BY <1>2 DEF Inv, Counters, Failed, Steps
<1>3. ASSUME req[r].pc = "switch", UNCHANGED <<row, resetter, overtaken, count>>,
             configured, To(r, "write"), UNCHANGED missed
      PROVE  Inv'
  <2>1. Moved(r, "write")
    BY <1>2, <1>3, Moves DEF Inv
  <2> QED BY <1>2, <1>3, <2>1, RequestGoes
<1>4. ASSUME req[r].pc = "switch", UNCHANGED <<row, resetter, overtaken, count>>,
             ~(configured /\ group # "fallback"),
             req' = [req EXCEPT ![r] = Idle], missed' = missed \ {r}
      PROVE  Inv'
  <2>1. Moved(r, "idle")
    BY <1>4, Ends DEF Inv
  <2>2. r \notin missed'
    BY <1>4
  <2> QED BY <1>2, <1>4, <2>1, <2>2, RequestGoes
<1> QED BY <1>1, <1>3, <1>4 DEF SwitchRead

LEMMA RestoreReadKeeps == ASSUME Inv, NEW e \in Resetters, RestoreRead(e) PROVE Inv'
<1>1. CASE Abandon(e)
  BY <1>1, AbandonKeeps
<1>2. ASSUME UNCHANGED <<row, req, overtaken, count>>
      PROVE  UNCHANGED <<row, req, overtaken>> /\ Failed' = Failed
             /\ count' \in [Counters -> Nat]
  BY <1>2 DEF Inv, Counters, Failed
<1>3. ASSUME resetter[e] = "restore", UNCHANGED <<row, req, overtaken, count>>,
             configured, Step(e, "write"), UNCHANGED missed
      PROVE  Inv'
  <2>1. Stepped(e, "write")
    BY <1>3, Resets DEF Inv
  <2> QED BY <1>2, <1>3, <2>1, ResetGoes
<1>4. ASSUME resetter[e] = "restore", UNCHANGED <<row, req, overtaken, count>>,
             ~(configured /\ group # "base"), Step(e, "idle"), missed' = missed \ {e}
      PROVE  Inv'
  <2>1. Stepped(e, "idle")
    BY <1>4, Resets DEF Inv
  <2>2. e \notin missed' /\ (~configured \/ group # "fallback")
    BY <1>4
  <2> QED BY <1>2, <1>4, <2>1, <2>2, ResetGoes
<1> QED BY <1>1, <1>3, <1>4 DEF RestoreRead

LEMMA ListKeeps == ASSUME Inv, List \/ Ask PROVE Inv'
<1>1. PICK e \in Resetters : resetter[e] = "idle" /\ Step(e, "listed")
      /\ UNCHANGED <<row, req, history>> /\ (UNCHANGED count \/ Count("resets", MaxResets))
  BY Zenon DEF List, Ask, Resetters
<1>2. Stepped(e, "listed")
  BY <1>1, Resets DEF Inv
<1>3. count' \in [Counters -> Nat] /\ (Failed => Failed')
  BY <1>1, Counting DEF Inv, Counters, Failed
<1>4. missed' = missed /\ UNCHANGED <<row, req, overtaken>>
  BY <1>1 DEF history
<1>5. e \notin missed'
  BY <1>1, <1>4, DailyQuotaAssumption DEF Inv, TypeOK, Readers, Resetters
<1> QED BY <1>1, <1>2, <1>3, <1>4, <1>5, ResetGoes

-----------------------------------------------------------------------------
(* Steps that write the row                                                *)

LEMMA SettleKeeps == ASSUME Inv, NEW r \in Requests, Settle(r) PROVE Inv'
<1> DEFINE more == req[r].cost - req[r].hold
<1>1. CASE Give(r)
  BY <1>1, GiveKeeps
<1>2. ASSUME req[r].pc = "running", req' = [req EXCEPT ![r] = Idle],
             UNCHANGED <<row, resetter, history, count>>
      PROVE  Inv'
  <2>1. UNCHANGED <<row, resetter, overtaken>> /\ missed' = missed /\ Failed' = Failed
        /\ count' \in [Counters -> Nat] /\ "idle" \in Steps
    BY <1>2 DEF history, Inv, Counters, Failed, Steps
  <2>2. r \notin missed'
    BY <1>2, <2>1, DailyQuotaAssumption DEF Inv, TypeOK, Readers, Resetters
  <2>3. Moved(r, "idle")
    BY <1>2, Ends DEF Inv
  <2> QED BY <1>2, <2>1, <2>2, <2>3, RequestGoes
<1>3. ASSUME req[r].pc = "running", more > 0, used + more <= MaxUsed, used' = used + more,
             To(r, "count"), missed' = missed \cup (Readers \cap Resetters),
             UNCHANGED <<limit, late, configured, group, resetter, overtaken, count>>
      PROVE  Inv'
  <2>1. Moved(r, "count")
    <3>1. "count" \in Steps
      BY DEF Steps
    <3> QED BY <1>3, <3>1, Moves DEF Inv
  <2>2. used' \in 0..MaxUsed /\ used' >= used
    <3>1. req[r].cost \in Int /\ req[r].hold \in Int /\ used \in Nat /\ MaxUsed \in Nat
      BY DailyQuotaAssumption DEF Inv, TypeOK
    <3> QED BY <1>3, <3>1
  <2>3. Exhausted => Exhausted'
    BY <1>3, <2>2, ExhaustedStays DEF Inv
  <2>4. Failed' = Failed /\ Restoring' = Restoring /\ Switching'
    BY <1>3, <2>1 DEF Failed, Restoring, Switching, Moved
  <2>5. missed' \subseteq Readers'
    BY <1>3, <2>1, DailyQuotaAssumption DEF Inv, TypeOK, Readers, Moved, Resetters
  <2>6. TypeOK'
    BY <1>3, <2>1, <2>2, <2>5 DEF Inv, TypeOK, Moved, ReqTypes
  <2>7. Departed'
    BY <1>3, <2>1 DEF Inv, Departed, Writing, Moved
  <2>8. Informed'
    BY <1>3, <2>1, <2>3 DEF Inv, Informed, Moved
  <2>9. Warned'
    BY <1>3 DEF Warned, Readers
  <2>10. ExhaustedIsSwitched' /\ FallbackHasCause' /\ GroupEndsWithSubscription'
    BY <1>3, <2>3, <2>4
       DEF Inv, ExhaustedIsSwitched, FallbackHasCause, GroupEndsWithSubscription
  <2> QED BY <1>3, <2>6, <2>7, <2>8, <2>9, <2>10 DEF Inv
<1> QED BY <1>1, <1>2, <1>3 DEF Settle

\* The user is in the fallback group; a request that missed nothing was right.
LEMMA SwitchWriteKeeps == ASSUME Inv, NEW r \in Requests, SwitchWrite(r) PROVE Inv'
<1>1. CASE Give(r)
  BY <1>1, GiveKeeps
<1>2. ASSUME req[r].pc = "write", group' = "fallback", overtaken' = (r \in missed),
             missed' = missed \ {r}, req' = [req EXCEPT ![r] = Idle],
             UNCHANGED <<used, limit, late, configured, resetter, count>>
      PROVE  Inv'
  <2>1. Moved(r, "idle")
    BY <1>2, Ends DEF Inv
  <2>2. Exhausted' = Exhausted
    BY <1>2 DEF Exhausted
  <2>3. r \in missed \/ (Exhausted /\ configured)
    BY <1>2 DEF Inv, Informed, Departed, Writing
  <2>4. missed' \subseteq Readers'
    BY <1>2, <2>1, DailyQuotaAssumption DEF Inv, TypeOK, Readers, Moved
  <2>5. TypeOK'
    BY <1>2, <2>1, <2>4 DEF Inv, TypeOK, Moved, ReqTypes, Groups
  <2>6. Departed'
    BY <1>2, <2>1, DailyQuotaAssumption DEF Inv, Departed, Writing, Moved, Resetters
  <2>7. Informed'
    BY <1>2, <2>1, <2>2 DEF Inv, Informed, Moved
  <2>8. Warned'
    BY <1>2, <2>2, DailyQuotaAssumption DEF Inv, Warned, Resetters
  <2>9. ExhaustedIsSwitched' /\ FallbackHasCause' /\ GroupEndsWithSubscription'
    BY <1>2, <2>2, <2>3 DEF ExhaustedIsSwitched, FallbackHasCause, GroupEndsWithSubscription
  <2> QED BY <1>2, <2>5, <2>6, <2>7, <2>8, <2>9 DEF Inv
<1> QED BY <1>1, <1>2 DEF SwitchWrite

\* Everybody on the way has missed the reset, which now moves the user back.
LEMMA ResetKeeps == ASSUME Inv, NEW e \in Resetters, Reset(e) PROVE Inv'
<1>1. CASE Abandon(e)
  BY <1>1, AbandonKeeps
<1>2. ASSUME used' = 0, late' = FALSE, Step(e, "restore"), missed' = Readers,
             resetter[e] = "listed",
             UNCHANGED <<limit, configured, group, req, overtaken, count>>
      PROVE  Inv'
  <2>1. Stepped(e, "restore")
    BY <1>2, Resets DEF Inv
  <2>2. ~Exhausted' /\ used' \in 0..MaxUsed
    BY <1>2, NumberTypes DEF Inv, Exhausted
  <2>3. Restoring' /\ Failed' = Failed
    BY <1>2, <2>1 DEF Restoring, Stepped, Failed
  <2>4. missed' \subseteq Readers'
    BY <1>2, <2>1 DEF Readers, Stepped
  <2>5. TypeOK'
    BY <1>2, <2>1, <2>2, <2>4 DEF Inv, TypeOK, Stepped, ResetterTypes
  <2>6. Departed'
    BY <1>2, <2>1 DEF Inv, Departed, Writing, Stepped, Readers
  <2>7. Informed'
    BY <1>2 DEF Informed, Readers
  <2>8. Warned' /\ ExhaustedIsSwitched' /\ FallbackHasCause'
    BY <2>2, <2>3 DEF Warned, ExhaustedIsSwitched, FallbackHasCause
  <2>9. GroupEndsWithSubscription'
    BY <1>2 DEF Inv, GroupEndsWithSubscription
  <2> QED BY <1>2, <2>5, <2>6, <2>7, <2>8, <2>9 DEF Inv
<1> QED BY <1>1, <1>2 DEF Reset

\* The user is in the base group; a reset that missed nothing was right.
LEMMA RestoreWriteKeeps == ASSUME Inv, NEW e \in Resetters, RestoreWrite(e) PROVE Inv'
<1>1. CASE Abandon(e)
  BY <1>1, AbandonKeeps
<1>2. ASSUME resetter[e] = "write", group' = "base", overtaken' = (e \in missed),
             missed' = missed \ {e}, Step(e, "idle"),
             UNCHANGED <<used, limit, late, configured, req, count>>
      PROVE  Inv'
  <2>1. Stepped(e, "idle")
    BY <1>2, Resets DEF Inv
  <2>2. Exhausted' = Exhausted
    BY <1>2 DEF Exhausted
  <2>3. e \in missed \/ (~Exhausted /\ configured)
    BY <1>2 DEF Inv, Warned, Departed, Writing
  <2>4. missed' \subseteq Readers'
    BY <1>2, <2>1, DailyQuotaAssumption DEF Inv, TypeOK, Readers, Stepped, Resetters
  <2>5. TypeOK'
    BY <1>2, <2>1, <2>4 DEF Inv, TypeOK, Stepped, ResetterTypes, Groups
  <2>6. Departed'
    BY <1>2, <2>1, DailyQuotaAssumption DEF Inv, Departed, Writing, Stepped, Resetters
  <2>7. Informed'
    BY <1>2, <2>2, DailyQuotaAssumption DEF Inv, Informed, Resetters
  <2>8. Warned'
    BY <1>2, <2>1, <2>2 DEF Inv, Warned, Stepped
  <2>9. ExhaustedIsSwitched' /\ FallbackHasCause' /\ GroupEndsWithSubscription'
    BY <1>2, <2>2, <2>3 DEF ExhaustedIsSwitched, FallbackHasCause, GroupEndsWithSubscription
  <2> QED BY <1>2, <2>5, <2>6, <2>7, <2>8, <2>9 DEF Inv
<1> QED BY <1>1, <1>2 DEF RestoreWrite

LEMMA MidnightKeeps == ASSUME Inv, Midnight PROVE Inv'
<1>1. UNCHANGED <<used, limit, configured, group, req, resetter, missed, overtaken, count>>
      /\ late' = TRUE
  BY DEF Midnight, history
<1>2. TypeOK'
  BY <1>1 DEF Inv, TypeOK, Readers
<1>3. Departed' /\ Informed' /\ Warned'
  BY <1>1 DEF Inv, Departed, Informed, Warned, Writing, Exhausted
<1>4. ExhaustedIsSwitched' /\ FallbackHasCause' /\ GroupEndsWithSubscription'
  BY <1>1 DEF Inv, ExhaustedIsSwitched, FallbackHasCause, GroupEndsWithSubscription,
              Exhausted, Failed, Switching, Restoring
<1> QED BY <1>1, <1>2, <1>3, <1>4 DEF Inv

\* Everybody on the way has missed the change.
LEMMA ChangeKeeps ==
    ASSUME Inv, NEW l \in Limits \cup {0}, NEW c \in BOOLEAN, NEW g \in Groups,
           Change(l, c, g), used' \in {used, 0}, late' \in BOOLEAN, overtaken' \in BOOLEAN,
           c => g = "base" /\ (~overtaken' => ~Exhausted'),
           ~c => g = "default"
    PROVE  Inv'
<1>1. limit' = l /\ configured' = c /\ group' = g /\ missed' = Readers
      /\ req' = req /\ resetter' = resetter
  BY DEF Change
<1>2. count' \in [Counters -> Nat]
  BY Counting DEF Change, Inv, Counters
<1>3. TypeOK'
  <2>1. used' \in 0..MaxUsed
    BY DailyQuotaAssumption DEF Inv, TypeOK
  <2> QED BY <1>1, <2>1 DEF Inv, TypeOK, Readers
<1>4. Departed' /\ Informed' /\ Warned'
  BY <1>1 DEF Departed, Informed, Warned, Writing, Readers
<1>5. ExhaustedIsSwitched' /\ FallbackHasCause' /\ GroupEndsWithSubscription'
  BY <1>1 DEF ExhaustedIsSwitched, FallbackHasCause, GroupEndsWithSubscription
<1> QED BY <1>2, <1>3, <1>4, <1>5 DEF Inv, Counters

LEMMA ConfigureKeeps == ASSUME Inv, Configure PROVE Inv'
<1>1. PICK l \in Limits : /\ Change(l, TRUE, "base") /\ overtaken' = (l > 0 /\ used >= l)
                          /\ UNCHANGED <<used, late>>
  BY DEF Configure
<1>2. ~overtaken' => ~Exhausted'
  BY <1>1 DEF Change, Exhausted
<1>3. "base" \in Groups /\ late' \in BOOLEAN /\ overtaken' \in BOOLEAN
  BY <1>1 DEF Groups, Inv, TypeOK
<1> QED BY <1>1, <1>2, <1>3, ChangeKeeps

LEMMA ActivateKeeps == ASSUME Inv, Activate PROVE Inv'
<1>1. PICK l \in Limits : Change(l, TRUE, "base")
  BY DEF Activate
<1>2. used' = 0 /\ late' = FALSE /\ overtaken' = FALSE
  BY DEF Activate
<1>3. ~Exhausted' /\ "base" \in Groups
  <2>1. limit' \in Nat
    BY <1>1, DailyQuotaAssumption DEF Change
  <2> QED BY <1>2, <2>1 DEF Exhausted, Groups
<1> QED BY <1>1, <1>2, <1>3, ChangeKeeps

LEMMA ExpireKeeps == ASSUME Inv, Expire PROVE Inv'
<1>1. Change(0, FALSE, "default") /\ overtaken' = FALSE /\ UNCHANGED <<used, late>>
  BY DEF Expire
<1>2. "default" \in Groups /\ late' \in BOOLEAN
  BY <1>1 DEF Groups, Inv, TypeOK
<1> QED BY <1>1, <1>2, ChangeKeeps

-----------------------------------------------------------------------------
(* Theorems                                                                *)

LEMMA InitHolds == Init => Inv
<1> SUFFICES ASSUME Init PROVE Inv
  OBVIOUS
<1>1. Idle \in [pc : Steps, cost : Costs \cup {0}, hold : Holds \cup {0}] /\ Idle.pc = "idle"
  BY DEF Idle, Steps
<1>2. TypeOK
  <2>1. used \in 0..MaxUsed /\ limit \in Nat
    BY DailyQuotaAssumption DEF Init
  <2>2. req \in ReqTypes /\ resetter \in ResetterTypes
    BY <1>1 DEF Init, ReqTypes, ResetterTypes
  <2> QED BY <2>1, <2>2 DEF Init, TypeOK, Groups, ReqTypes, ResetterTypes
<1>3. count \in [Counters -> Nat]
  BY DEF Init, Counters
<1>4. Departed /\ Informed /\ Warned
  BY <1>1, NumberTypes, <1>2 DEF Init, Exhausted, Departed, Informed, Warned
<1>5. ExhaustedIsSwitched /\ FallbackHasCause /\ GroupEndsWithSubscription
  <2>1. ~Exhausted
    BY <1>2, NumberTypes DEF Init, Exhausted
  <2> QED BY <2>1 DEF Init, ExhaustedIsSwitched, FallbackHasCause, GroupEndsWithSubscription
<1> QED BY <1>2, <1>3, <1>4, <1>5 DEF Inv, Counters

LEMMA StepKeeps == Inv /\ [Next]_vars => Inv'
<1> SUFFICES ASSUME Inv, [Next]_vars PROVE Inv'
  OBVIOUS
<1>1. ASSUME NEW r \in Requests, Start(r) \/ Work(r) PROVE Inv'
  BY <1>1, StartKeeps, SettleKeeps, InformKeeps, SwitchReadKeeps, SwitchWriteKeeps DEF Work
<1>2. ASSUME NEW e \in Resetters, Process(e) PROVE Inv'
  BY <1>2, ResetKeeps, RestoreReadKeeps, RestoreWriteKeeps DEF Process
<1>3. CASE List \/ Ask \/ Midnight
  BY <1>3, ListKeeps, MidnightKeeps
<1>4. CASE Configure \/ Activate \/ Expire
  BY <1>4, ConfigureKeeps, ActivateKeeps, ExpireKeeps
<1>5. CASE UNCHANGED vars
  <2>1. TypeOK' /\ Departed' /\ Informed' /\ Warned'
    BY <1>5 DEF vars, Inv, TypeOK, Readers, Departed, Informed, Warned, Writing, Exhausted
  <2>2. ExhaustedIsSwitched' /\ FallbackHasCause' /\ GroupEndsWithSubscription'
    BY <1>5 DEF vars, Inv, ExhaustedIsSwitched, FallbackHasCause, Exhausted, Failed,
                GroupEndsWithSubscription, Switching, Restoring
  <2> QED BY <1>5, <2>1, <2>2 DEF vars, Inv
<1> QED BY <1>1, <1>2, <1>3, <1>4, <1>5 DEF Next

\* The invariant holds throughout.
THEOREM Invariant == Spec => []Inv
BY InitHolds, StepKeeps, PTL DEF Spec

\* The row's columns keep their types, and only who is between reading the row
\* and writing it can have missed a change.
THEOREM TypeCorrect == Spec => []TypeOK
<1>1. Inv => TypeOK
  BY DEF Inv
<1> QED BY <1>1, Invariant, PTL

\* PostConsumeDailyQuota: with any requests, resets and changes overlapping, who
\* has used up the quota is in the fallback group or is being moved.
THEOREM ExhaustedAreSwitched == Spec => []ExhaustedIsSwitched
<1>1. Inv => ExhaustedIsSwitched
  BY DEF Inv
<1> QED BY <1>1, Invariant, PTL

\* ProcessDailyQuotaReset: nobody else is there, or only until a reset that has
\* begun moves them back.
THEOREM FallbackIsCaused == Spec => []FallbackHasCause
<1>1. Inv => FallbackHasCause
  BY DEF Inv
<1> QED BY <1>1, Invariant, PTL

\* ExpireSubscription: the plan's groups end with the subscription.
THEOREM GroupsEnd == Spec => []GroupEndsWithSubscription
<1>1. Inv => GroupEndsWithSubscription
  BY DEF Inv
<1> QED BY <1>1, Invariant, PTL

=============================================================================
