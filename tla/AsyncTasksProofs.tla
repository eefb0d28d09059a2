-------------------------- MODULE AsyncTasksProofs --------------------------
(***************************************************************************)
(* Theorems about the money of tasks: any number of tasks of any kinds,    *)
(* any prices, and any number of failing statements, restarts and          *)
(* questions.                                                              *)
(***************************************************************************)
EXTENDS AsyncTasks, TLAPS

-----------------------------------------------------------------------------
(* The invariant                                                           *)

\* Where the poller is with task t: not at it, at one of its statements,
\* done with it while other songs are left, or still to ask about it.
Place(t) == IF t \notin poll.todo THEN "out"
            ELSE IF poll.task = t THEN poll.at
            ELSE IF poll.at \in {"suno", "sunoSave"} /\ kind[t] = "suno"
                    /\ t \notin poll.items THEN "heard"
            ELSE "pending"

\* What the poller's variables say together.
Shape ==
    /\ IF poll.at \in {"idle", "choose", "suno", "hung"} THEN poll.task = 0
                                                ELSE poll.task \in poll.todo
    /\ poll.items \subseteq poll.todo
    /\ poll.at \notin {"suno", "sunoSave"} => poll.items = {}
    /\ poll.at = "sunoSave" => poll.task \in poll.items
    /\ \A t \in poll.items : kind[t] = "suno" /\ poll.answer[t] # "none"

\* A row is there once it was inserted, and costs nothing before.
Born(t) ==
    /\ submit[t] \in {"idle", "accepted"} => row[t].status = "none"
    /\ submit[t] \in {"inserted", "done"} => row[t].status # "none"
    /\ row[t].status = "none" => paid[t] = 0 /\ refunds[t] = 0
    /\ submit[t] # "idle" => upstream[t] # "none"
    /\ row[t].status # "none" /\ submit[t] = "lost" => "crash" \in blame[t]

\* Songs and videos are handled apart.
Kind(t) ==
    /\ Place(t) \in {"heard", "sunoSave"} => kind[t] = "suno"
    /\ Place(t) \in {"recharge", "save", "refund"} => kind[t] # "suno"
    /\ kind[t] # "suno" /\ row[t].status = "running" => ~row[t].full
    /\ asked[t] # "none" => kind[t] # "suno" /\ row[t].status # "none"

\* What the poller knows of the row by its copy.
Copied(t) ==
    /\ Place(t) # "out" => row[t].status # "none"
    /\ Place(t) \notin {"out", "save"} => poll.copy[t].quota = row[t].quota
    /\ Place(t) = "pending" => poll.copy[t].status = "running" /\ ~poll.copy[t].full
    /\ Place(t) \in {"recharge", "save", "sunoSave"} => poll.copy[t].status # "none"
    /\ Place(t) \in {"recharge", "save"} =>
          /\ poll.owed <=> poll.copy[t].status = "failure"
          /\ poll.copy[t].full <=> poll.copy[t].status # "running"
    /\ Place(t) = "refund" /\ "fetch" \notin blame[t] =>
          row[t].status = "failure" /\ row[t].full

\* What excuses a second refund.
Excused(t) == \/ "fetch" \in blame[t]
              \/ kind[t] = "suno" /\ blame[t] \cap {"statement", "crash"} # {}

\* The row t will have after the save that the poller is at, if it is at one
\* for a song.
Last(t) == IF Place(t) = "sunoSave" THEN poll.copy[t] ELSE row[t]

Ended(r) == r.status # "none" /\ (r.status # "running" \/ r.full)

\* A refund comes once, and ends the task.
Once(t) == ~Excused(t) =>
    /\ refunds[t] = 0 \/ (refunds[t] = 1 /\ Ended(Last(t)))
    /\ Place(t) \in {"pending", "recharge", "save", "refund"} => refunds[t] = 0

\* With nothing to blame the refund is there exactly when the task has failed,
\* but for the moment between the row and the account.
Marked(t) == blame[t] = {} /\ Place(t) # "refund" =>
    (refunds[t] = 0 <=> (Ended(Last(t)) => Last(t).status = "success"))

\* The price the poller has charged, which the row may not say yet.
Amount(t) == IF Place(t) = "save" THEN poll.copy[t].quota ELSE row[t].quota

\* With nothing to blame the user has paid this.
Sum(t) == blame[t] = {} /\ row[t].status # "none" =>
    paid[t] = (IF submit[t] = "done" THEN 0 ELSE -Price)
              + (IF refunds[t] = 0 THEN Amount(t) ELSE 0)

Fine(t) == Born(t) /\ Kind(t) /\ Copied(t) /\ Once(t) /\ Marked(t) /\ Sum(t)

\* The inductive invariant.
Inv == TypeOK /\ Shape /\ \A t \in Tasks : Fine(t)

-----------------------------------------------------------------------------
(* Types                                                                   *)

LEMMA IdleTypes == Idle \in Pollers
BY AsyncTasksAssumption DEF Idle, NoRow, Row, Pollers, Tasks, Known

LEMMA WithoutTypes ==
    ASSUME poll \in Pollers, NEW ts PROVE Without(ts) \in Pollers
<1> DEFINE c == [t \in Tasks |-> IF t \in ts THEN NoRow ELSE poll.copy[t]]
           todo == poll.todo \ ts
<1>1. c \in [Tasks -> Row] /\ todo \in SUBSET Tasks
  BY DEF NoRow, Row, Pollers, Known
<1>2. CASE poll.todo \subseteq ts
  BY <1>2, IdleTypes DEF Without
<1>3. CASE ~(poll.todo \subseteq ts)
  <2>1. Without(ts) = [Idle EXCEPT !.at = "choose", !.todo = todo, !.copy = c]
    BY <1>3 DEF Without
  <2> HIDE DEF c, todo
  <2> QED BY <1>1, <2>1, IdleTypes DEF Pollers
<1> QED BY <1>2, <1>3

LEMMA InitTypes == Init => TypeOK
BY AsyncTasksAssumption, IdleTypes DEF Init, TypeOK, NoRow, Row, Known

LEMMA PollTypes ==
    ASSUME TypeOK, PollOnly, poll' \in Pollers, row' \in [Tasks -> Row],
           paid' \in [Tasks -> Int], refunds' \in [Tasks -> Nat],
           \/ UNCHANGED <<faults, blame>>
           \/ Fault /\ UNCHANGED blame
           \/ UNCHANGED faults /\ blame' \in [Tasks -> SUBSET {"statement", "crash", "fetch", "bulk"}]
           \/ Fault /\ blame' \in [Tasks -> SUBSET {"statement", "crash", "fetch", "bulk"}]
    PROVE  TypeOK'
<1>1. faults' \in 0..MaxFaults
  BY AsyncTasksAssumption DEF TypeOK, Fault
<1>2. blame' \in [Tasks -> SUBSET {"statement", "crash", "fetch", "bulk"}]
  BY DEF TypeOK
<1> QED BY <1>1, <1>2 DEF TypeOK, PollOnly

LEMMA BlameTypes ==
    ASSUME TypeOK, NEW t, NEW c \in {"statement", "crash", "fetch", "bulk"}, Blame(t, c)
    PROVE  blame' \in [Tasks -> SUBSET {"statement", "crash", "fetch", "bulk"}]
BY DEF TypeOK, Blame

LEMMA GiveBackTypes ==
    ASSUME TypeOK, NEW t, Pay(t, -poll.copy[t].quota), refunds' = [refunds EXCEPT ![t] = @ + 1]
    PROVE  paid' \in [Tasks -> Int] /\ refunds' \in [Tasks -> Nat]
<1>1. ASSUME NEW x \in Tasks PROVE poll.copy[x].quota \in Nat
  BY DEF TypeOK, Pollers, Row
<1>2. CASE t \in Tasks
  <2>1. poll.copy[t].quota \in Nat
    BY <1>1, <1>2
  <2> HIDE DEF Pay
  <2> DEFINE q == poll.copy[t].quota
  <2>2. paid' = [paid EXCEPT ![t] = paid[t] - q]
    BY <1>2, <2>1 DEF TypeOK, Pay
  <2> HIDE DEF q
  <2> QED BY <1>2, <2>1, <2>2 DEF TypeOK, q
<1>3. CASE t \notin Tasks
  BY <1>3 DEF TypeOK, Pay
<1> QED BY <1>2, <1>3

LEMMA RequestTypes ==
    ASSUME TypeOK, NEW t \in Tasks,
           \/ Accept(t) \/ Insert(t) \/ Charge(t) \/ End(t) \/ FetchAsk(t) \/ FetchSave(t)
    PROVE  TypeOK'
<1> USE AsyncTasksAssumption DEF Fault, Pay, Blame, Fails
<1>1. CASE Accept(t)
  BY <1>1 DEF TypeOK, Accept, Known
<1>2. CASE Insert(t)
  <2>1. row' \in [Tasks -> Row]
    <3>1. [status |-> "running", full |-> FALSE, quota |-> Price] \in Row
      BY DEF Row, Known
    <3> QED BY <1>2, <3>1 DEF TypeOK, Insert
  <2>2. faults' \in 0..MaxFaults
    BY <1>2 DEF TypeOK, Insert
  <2> QED BY <1>2, <2>1, <2>2 DEF TypeOK, Insert
<1>3. CASE Charge(t)
  <2>1. faults' \in 0..MaxFaults /\ paid' \in [Tasks -> Int]
    BY <1>3 DEF TypeOK, Charge
  <2> QED BY <1>3, <2>1 DEF TypeOK, Charge
<1>4. CASE End(t)
  BY <1>4 DEF TypeOK, End, Known
<1>5. CASE FetchAsk(t)
  BY <1>5 DEF TypeOK, FetchAsk
<1>6. CASE FetchSave(t)
  <2> DEFINE full == asked[t] # "running"
  <2>1. full \in BOOLEAN /\ asked[t] \in Known
    BY <1>6 DEF FetchSave, TypeOK
  <2>2. \/ row' = [row EXCEPT ![t].status = asked[t], ![t].full = full]
        \/ UNCHANGED row
    BY <1>6 DEF FetchSave
  <2>3. row' \in [Tasks -> Row]
    <3> HIDE DEF full
    <3> QED BY <2>1, <2>2 DEF TypeOK, Row
  <2>4. blame' \in [Tasks -> SUBSET {"statement", "crash", "fetch", "bulk"}]
    BY <1>6 DEF TypeOK, FetchSave
  <2> QED BY <1>6, <2>3, <2>4 DEF TypeOK, FetchSave
<1> QED BY <1>1, <1>2, <1>3, <1>4, <1>5, <1>6

LEMMA CrashTypes == ASSUME TypeOK, Crash PROVE TypeOK'
<1>1. faults' \in 0..MaxFaults
  BY AsyncTasksAssumption DEF TypeOK, Crash, Fault
<1>2. /\ submit' \in [Tasks -> {"idle", "accepted", "inserted", "done", "lost"}]
      /\ blame' \in [Tasks -> SUBSET {"statement", "crash", "fetch", "bulk"}]
  BY DEF TypeOK, Crash
<1> QED BY <1>1, <1>2, IdleTypes DEF TypeOK, Crash

LEMMA VideoTypes ==
    ASSUME TypeOK, NEW t \in Tasks, NEW answer \in {"none"} \cup Known, NEW at \in {"recharge", "save"},
           poll' = [poll EXCEPT
                !.at = at, !.task = t,
                !.owed = answer = "failure" /\ poll.copy[t].status # "failure",
                !.copy[t] = [@ EXCEPT !.status = answer, !.full = answer # "running"]]
    PROVE  poll' \in Pollers
<1> DEFINE owed == answer = "failure" /\ poll.copy[t].status # "failure"
           full == answer # "running"
           c == [poll.copy EXCEPT ![t] = [@ EXCEPT !.status = answer, !.full = full]]
<1>1. owed \in BOOLEAN /\ full \in BOOLEAN
  OBVIOUS
<1>2. c \in [Tasks -> Row]
  <2> HIDE DEF full
  <2> QED BY <1>1 DEF TypeOK, Pollers, Row
<1>3. poll' = [poll EXCEPT !.at = at, !.task = t, !.owed = owed, !.copy = c]
  BY DEF TypeOK, Pollers
<1>4. t \in 0..N
  BY AsyncTasksAssumption DEF Tasks
<1> HIDE DEF owed, full, c
<1> QED BY <1>1, <1>2, <1>3, <1>4 DEF TypeOK, Pollers

LEMMA SunoTypes ==
    ASSUME TypeOK, NEW t \in Tasks, PollSunoItem(t)
    PROVE  poll' \in Pollers
<1> DEFINE c == [poll.copy EXCEPT ![t] = SunoCopy(t)]
<1>1. SunoCopy(t) \in Row
  <2>1. poll.copy[t] \in Row /\ poll.answer[t] \in {"none", "reason"} \cup Known
    BY DEF TypeOK, Pollers
  <2> QED BY <2>1 DEF SunoCopy, Row
<1>2. c \in [Tasks -> Row]
  BY <1>1 DEF TypeOK, Pollers
<1>3. CASE poll' = [poll EXCEPT !.at = "sunoSave", !.task = t, !.copy[t] = SunoCopy(t)]
  <2>1. poll' = [poll EXCEPT !.at = "sunoSave", !.task = t, !.copy = c]
    BY <1>3 DEF TypeOK, Pollers
  <2>2. t \in 0..N
    BY AsyncTasksAssumption DEF Tasks
  <2> HIDE DEF c
  <2> QED BY <1>2, <2>1, <2>2 DEF TypeOK, Pollers
<1>4. CASE poll' = [poll EXCEPT !.items = @ \ {t}]
  BY <1>4 DEF TypeOK, Pollers
<1> QED BY <1>3, <1>4, WithoutTypes DEF TypeOK, PollSunoItem

LEMMA StepTypes == ASSUME TypeOK, Next PROVE TypeOK'
<1>1. ASSUME NEW t \in Tasks, Accept(t) \/ Insert(t) \/ Charge(t) \/ End(t) \/ FetchAsk(t) \/ FetchSave(t)
      PROVE  TypeOK'
  BY <1>1, RequestTypes
<1>2. ASSUME RemoveChannel PROVE TypeOK'
  BY <1>2 DEF TypeOK, RemoveChannel
<1>3. ASSUME Crash PROVE TypeOK'
  BY <1>3, CrashTypes
<1>4. ASSUME PollList PROVE TypeOK'
  <2> DEFINE c == [t \in Tasks |-> IF t \in Listed THEN row[t] ELSE NoRow]
  <2>1. c \in [Tasks -> Row] /\ Listed \in SUBSET Tasks
    BY DEF TypeOK, Row, NoRow, Listed
  <2>2. poll' = [Idle EXCEPT !.at = "choose", !.todo = Listed, !.copy = c]
    BY <1>4 DEF PollList
  <2> HIDE DEF c
  <2>3. poll' \in Pollers
    BY <2>1, <2>2, IdleTypes DEF Pollers
  <2> QED BY <1>4, <2>3, PollTypes DEF PollList, TypeOK
<1>5. ASSUME NEW k \in Kinds, PollGiveUp(k) PROVE TypeOK'
  <2>1. row' \in [Tasks -> Row] /\ blame' \in [Tasks -> SUBSET {"statement", "crash", "fetch", "bulk"}]
    <3>1. ASSUME NEW x \in Tasks
          PROVE  [row[x] EXCEPT !.status = "failure", !.full = TRUE] \in Row
      BY DEF TypeOK, Row, Known
    <3>2. row' \in [Tasks -> Row]
      <4>1. CASE UNCHANGED row
        BY <4>1 DEF TypeOK
      <4>2. CASE row' = [t \in Tasks |-> IF t \in Group(k)
                        THEN [row[t] EXCEPT !.status = "failure", !.full = TRUE]
                        ELSE row[t]]
        BY <4>2, <3>1 DEF TypeOK
      <4> QED BY <1>5, <4>1, <4>2 DEF PollGiveUp
    <3>3. blame' \in [Tasks -> SUBSET {"statement", "crash", "fetch", "bulk"}]
      <4> DEFINE causes == SUBSET {"statement", "crash", "fetch", "bulk"}
      <4>1. ASSUME NEW x \in Tasks PROVE blame[x] \in causes /\ blame[x] \cup {"bulk"} \in causes
        BY DEF TypeOK
      <4>2. blame \in [Tasks -> causes]
        BY DEF TypeOK
      <4> HIDE DEF causes
      <4>3. blame' \in [Tasks -> causes]
        BY <1>5, <4>1, <4>2 DEF PollGiveUp
      <4> QED BY <4>3 DEF causes
    <3> QED BY <3>2, <3>3
  <2> QED BY <1>5, <2>1, WithoutTypes, PollTypes DEF PollGiveUp, TypeOK
<1>6. ASSUME PollSunoAsk PROVE TypeOK'
  <2>1. ASSUME NEW heard \in SUBSET Group("suno"), HearOf(heard)
        PROVE  poll' \in Pollers
    <3>1. PICK a \in [heard -> {"reason"} \cup Known] :
             poll' = [poll EXCEPT !.at = "suno", !.items = heard,
                        !.answer = [t \in Tasks |-> IF t \in heard THEN a[t] ELSE "none"]]
      BY <2>1 DEF HearOf
    <3> DEFINE b == [t \in Tasks |-> IF t \in heard THEN a[t] ELSE "none"]
    <3>2. b \in [Tasks -> {"none", "reason"} \cup Known]
      OBVIOUS
    <3>3. heard \in SUBSET Tasks
      BY DEF Group, TypeOK, Pollers
    <3>4. poll' = [poll EXCEPT !.at = "suno", !.items = heard, !.answer = b]
      BY <3>1
    <3> HIDE DEF b
    <3> QED BY <3>2, <3>3, <3>4 DEF TypeOK, Pollers
  <2>2. poll' \in Pollers
    BY <1>6, <2>1, WithoutTypes DEF PollSunoAsk, TypeOK
  <2> QED BY <1>6, <2>2, PollTypes DEF PollSunoAsk, TypeOK
<1>7. ASSUME NEW t \in Tasks, PollSunoItem(t) PROVE TypeOK'
  <2>1. \/ SunoRefund(t) \/ UNCHANGED <<paid, refunds, faults, blame>>
    BY <1>7 DEF PollSunoItem
  <2>2. paid' \in [Tasks -> Int] /\ refunds' \in [Tasks -> Nat]
    BY <2>1, GiveBackTypes DEF SunoRefund, TypeOK
  <2>3. \/ UNCHANGED <<faults, blame>>
        \/ UNCHANGED faults /\ blame' \in [Tasks -> SUBSET {"statement", "crash", "fetch", "bulk"}]
        \/ Fault /\ blame' \in [Tasks -> SUBSET {"statement", "crash", "fetch", "bulk"}]
    BY <2>1, BlameTypes DEF SunoRefund, Fails
  <2> QED BY <1>7, <2>2, <2>3, SunoTypes, PollTypes DEF PollSunoItem, TypeOK
<1>8. ASSUME PollSunoSave PROVE TypeOK'
  <2>1. \/ poll' = Without(Group("suno"))
        \/ \E b \in BOOLEAN : poll' = [poll EXCEPT !.at = "suno", !.items = @ \ {poll.task},
                                                   !.task = 0, !.err = b]
    BY <1>8 DEF PollSunoSave
  <2>2. poll' \in Pollers
    <3>1. poll \in Pollers /\ 0 \in 0..N
      BY AsyncTasksAssumption DEF TypeOK
    <3>2. ASSUME NEW b \in BOOLEAN
          PROVE  [poll EXCEPT !.at = "suno", !.items = @ \ {poll.task}, !.task = 0,
                              !.err = b] \in Pollers
      BY <3>1 DEF Pollers
    <3> QED BY <2>1, <3>1, <3>2, WithoutTypes
  <2>3. row' \in [Tasks -> Row]
    <3>1. ASSUME NEW x \in Tasks PROVE poll.copy[x] \in Row
      BY DEF TypeOK, Pollers
    <3> QED BY <1>8, <3>1 DEF TypeOK, PollSunoSave
  <2> QED BY <1>8, <2>2, <2>3, PollTypes, BlameTypes DEF PollSunoSave, TypeOK, Fails
<1>9. ASSUME NEW t \in Tasks, PollVideoAsk(t) PROVE TypeOK'
  <2>1. \/ poll' = Without({t})
        \/ \E answer \in {upstream[t], "failure"}, at \in {"recharge", "save"} :
              poll' = [poll EXCEPT
                !.at = at, !.task = t,
                !.owed = answer = "failure" /\ poll.copy[t].status # "failure",
                !.copy[t] = [@ EXCEPT !.status = answer, !.full = answer # "running"]]
    BY <1>9 DEF PollVideoAsk
  <2>2. poll' \in Pollers
    <3>1. upstream[t] \in {"none"} \cup Known /\ "failure" \in Known /\ poll \in Pollers
      BY DEF TypeOK, Known
    <3>2. ASSUME NEW answer \in {upstream[t], "failure"}, NEW at \in {"recharge", "save"},
                 poll' = [poll EXCEPT
                    !.at = at, !.task = t,
                    !.owed = answer = "failure" /\ poll.copy[t].status # "failure",
                    !.copy[t] = [@ EXCEPT !.status = answer, !.full = answer # "running"]]
          PROVE  poll' \in Pollers
      <4>1. answer \in {"none"} \cup Known
        BY <3>1
      <4> QED BY <3>2, <4>1, VideoTypes
    <3> QED BY <2>1, <3>1, <3>2, WithoutTypes
  <2> QED BY <1>9, <2>2, PollTypes DEF PollVideoAsk, TypeOK
<1>10. ASSUME PollRecharge PROVE TypeOK'
  <2> DEFINE c == [poll.copy EXCEPT ![poll.task].quota = actual[poll.task]]
  <2>1. c \in [Tasks -> Row]
    <3>1. poll.copy \in [Tasks -> Row] /\ actual \in [Tasks -> Nat]
      BY DEF Pollers, TypeOK
    <3>2. ASSUME NEW x \in Tasks
          PROVE  [poll.copy[x] EXCEPT !.quota = actual[x]] \in Row
      BY <3>1 DEF Row
    <3>3. CASE poll.task \in Tasks
      <4> DEFINE u == poll.task
                 e == [poll.copy[u] EXCEPT !.quota = actual[u]]
      <4>1. e \in Row
        BY <3>2, <3>3
      <4>2. c = [poll.copy EXCEPT ![u] = e]
        BY <3>1, <3>3
      <4> HIDE DEF c, e
      <4> QED BY <3>1, <4>1, <4>2
    <3>4. CASE poll.task \notin Tasks
      BY <3>1, <3>4
    <3> QED BY <3>3, <3>4
  <2>2. poll' = [poll EXCEPT !.at = "save", !.copy = c] \/ poll' = [poll EXCEPT !.at = "save"]
    BY <1>10 DEF PollRecharge, TypeOK, Pollers
  <2>3. poll' \in Pollers
    <3> HIDE DEF c
    <3> QED BY <2>1, <2>2 DEF TypeOK, Pollers
  <2>4. paid' \in [Tasks -> Int]
    <3>1. ASSUME NEW x \in Tasks PROVE poll.copy[x].quota \in Nat /\ actual[x] \in Nat
      BY DEF TypeOK, Pollers, Row
    <3>2. CASE poll.task \in Tasks
      BY <1>10, <3>1, <3>2 DEF TypeOK, PollRecharge, Pay
    <3>3. CASE poll.task \notin Tasks
      BY <1>10, <3>3 DEF TypeOK, PollRecharge, Pay
    <3> QED BY <3>2, <3>3
  <2> QED BY <1>10, <2>3, <2>4, PollTypes DEF PollRecharge, TypeOK
<1>11. ASSUME PollVideoSave PROVE TypeOK'
  <2>1. [poll EXCEPT !.at = "refund"] \in Pollers
    BY DEF TypeOK, Pollers
  <2>2. poll' \in Pollers
    BY <1>11, <2>1, WithoutTypes DEF PollVideoSave, TypeOK
  <2>3. row' \in [Tasks -> Row]
    <3>1. ASSUME NEW x \in Tasks PROVE poll.copy[x] \in Row
      BY DEF TypeOK, Pollers
    <3> QED BY <1>11, <3>1 DEF TypeOK, PollVideoSave
  <2> QED BY <1>11, <2>2, <2>3, PollTypes, BlameTypes DEF PollVideoSave, TypeOK, Fails
<1>12. ASSUME PollRefund PROVE TypeOK'
  <2>1. paid' \in [Tasks -> Int] /\ refunds' \in [Tasks -> Nat]
    BY <1>12, GiveBackTypes DEF PollRefund, TypeOK
  <2> QED BY <1>12, <2>1, WithoutTypes, PollTypes, BlameTypes DEF PollRefund, TypeOK, Fails
<1>13. ASSUME PollHang PROVE TypeOK'
  <2>1. poll' \in Pollers
    BY <1>13 DEF PollHang, TypeOK, Pollers
  <2> QED BY <1>13, <2>1, PollTypes DEF PollHang, TypeOK
<1> QED BY <1>1, <1>2, <1>3, <1>4, <1>5, <1>6, <1>7, <1>8, <1>9, <1>10, <1>11, <1>12, <1>13
        DEF Next, Poll

-----------------------------------------------------------------------------
(* Where the poller is                                                     *)

\* The poller without the tasks ts is between two questions.
LEMMA WithoutFields ==
    ASSUME NEW ts
    PROVE  /\ Without(ts).at \in {"idle", "choose"} /\ Without(ts).task = 0
           /\ Without(ts).items = {} /\ Without(ts).todo = poll.todo \ ts
           /\ \A t \in Tasks : t \in poll.todo \ ts => Without(ts).copy[t] = poll.copy[t]
<1>1. CASE poll.todo \subseteq ts
  BY <1>1 DEF Without, Idle
<1>2. CASE ~(poll.todo \subseteq ts)
  BY <1>2 DEF Without, Idle
<1> QED BY <1>1, <1>2

LEMMA PlaceValues ==
    ASSUME TypeOK, Shape, NEW t \in Tasks
    PROVE  /\ Place(t) \in {"out", "pending", "heard", "sunoSave", "recharge", "save", "refund"}
           /\ poll.at \in {"idle", "choose"} => Place(t) \in {"out", "pending"}
           /\ poll.at \in {"recharge", "save", "refund"} /\ poll.task # t =>
                 Place(t) \in {"out", "pending"}
           /\ poll.at \in {"sunoSave", "recharge", "save", "refund"} /\ poll.task = t =>
                 Place(t) = poll.at
           /\ Place(t) \in {"sunoSave", "recharge", "save", "refund"} =>
                 poll.task = t /\ poll.at = Place(t)
           /\ poll.at = "suno" /\ t \in poll.items => Place(t) = "pending"
<1>1. /\ poll.task # 0 => poll.at \in {"sunoSave", "recharge", "save", "refund"}
      /\ poll.at \in {"sunoSave", "recharge", "save", "refund"} => poll.task \in poll.todo
      /\ t # 0
  BY DEF TypeOK, Pollers, Shape, Tasks
<1> QED BY <1>1 DEF Place, Shape

\* Taking others from the list changes nothing for a task that is waiting.
LEMMA WithoutPlace ==
    ASSUME TypeOK, NEW ts, poll' = Without(ts), NEW t \in Tasks, t \notin ts,
           Place(t) \in {"out", "pending"}
    PROVE  Place(t)' = Place(t) /\ (Place(t) # "out" => poll'.copy[t] = poll.copy[t])
<1>1. /\ poll'.todo = poll.todo \ ts /\ poll'.task = 0 /\ poll'.at \in {"idle", "choose"}
      /\ t \in poll.todo \ ts => poll'.copy[t] = poll.copy[t]
  BY WithoutFields
<1>2. t # 0
  BY DEF Tasks
<1>3. Place(t) = "out" <=> t \notin poll.todo
  BY DEF Place, TypeOK, Pollers
<1> QED BY <1>1, <1>2, <1>3 DEF Place

LEMMA WithoutOut ==
    ASSUME NEW ts, poll' = Without(ts), NEW t \in ts PROVE Place(t)' = "out"
<1>1. poll'.todo = poll.todo \ ts
  BY WithoutFields
<1> QED BY <1>1 DEF Place

LEMMA WithoutShape == ASSUME NEW ts, poll' = Without(ts) PROVE Shape'
<1>1. poll'.at \in {"idle", "choose"} /\ poll'.task = 0 /\ poll'.items = {}
  BY WithoutFields
<1> QED BY <1>1 DEF Shape

LEMMA StepShape == ASSUME TypeOK, Shape, Next PROVE Shape'
<1>1. CASE UNCHANGED <<poll, kind>>
  BY <1>1 DEF Shape
<1>2. CASE poll' = Idle
  BY <1>2 DEF Shape, Idle
<1>3. ASSUME NEW t \in Tasks, Accept(t) \/ Insert(t) \/ Charge(t) \/ End(t) \/ FetchAsk(t) \/ FetchSave(t)
      PROVE  Shape'
  BY <1>1, <1>3 DEF Accept, Insert, Charge, End, FetchAsk, FetchSave
<1>4. ASSUME PollList PROVE Shape'
  BY <1>4 DEF PollList, Shape, Idle
<1>5. ASSUME PollSunoAsk PROVE Shape'
  <2>1. CASE poll' = Without(Group("suno"))
    BY <2>1, WithoutShape
  <2>2. ASSUME NEW heard \in SUBSET Group("suno"), HearOf(heard)
        PROVE  Shape'
    <3>1. PICK a \in [heard -> {"reason"} \cup Known] :
             poll' = [poll EXCEPT !.at = "suno", !.items = heard,
                        !.answer = [t \in Tasks |-> IF t \in heard THEN a[t] ELSE "none"]]
      BY <2>2 DEF HearOf
    <3>2. /\ poll'.at = "suno" /\ poll'.items = heard /\ poll'.task = poll.task
          /\ poll'.todo = poll.todo
          /\ \A t \in heard : t \in Tasks => poll'.answer[t] # "none"
      BY <3>1 DEF TypeOK, Pollers, Known
    <3>3. /\ heard \subseteq poll.todo /\ heard \subseteq Tasks
          /\ \A t \in heard : kind[t] = "suno"
      BY DEF Group, TypeOK, Pollers
    <3>4. poll.task = 0 /\ kind' = kind
      BY <1>5 DEF Shape, PollSunoAsk, PollOnly
    <3> QED BY <3>2, <3>3, <3>4 DEF Shape
  <2> QED BY <1>5, <2>1, <2>2 DEF PollSunoAsk
<1>6. ASSUME NEW t \in Tasks, PollSunoItem(t) PROVE Shape'
  <2>1. kind' = kind /\ poll.at = "suno" /\ t \in poll.items
    BY <1>6 DEF PollSunoItem, PollOnly
  <2>2. CASE poll' = [poll EXCEPT !.at = "sunoSave", !.task = t, !.copy[t] = SunoCopy(t)]
    <3>1. /\ poll'.at = "sunoSave" /\ poll'.task = t /\ poll'.items = poll.items
          /\ poll'.todo = poll.todo /\ poll'.answer = poll.answer
      BY <2>2 DEF TypeOK, Pollers
    <3> QED BY <2>1, <3>1 DEF Shape
  <2>3. CASE poll' = [poll EXCEPT !.items = @ \ {t}]
    <3>1. /\ poll'.at = poll.at /\ poll'.task = poll.task /\ poll'.items = poll.items \ {t}
          /\ poll'.todo = poll.todo /\ poll'.answer = poll.answer
      BY <2>3 DEF TypeOK, Pollers
    <3> QED BY <2>1, <3>1 DEF Shape
  <2> QED BY <1>6, <2>2, <2>3, WithoutShape DEF PollSunoItem
<1>7. ASSUME PollSunoSave PROVE Shape'
  <2>1. CASE poll' = Without(Group("suno"))
    BY <2>1, WithoutShape
  <2>2. CASE poll' # Without(Group("suno"))
    <3>1. /\ poll'.at = "suno" /\ poll'.task = 0 /\ poll'.items = poll.items \ {poll.task}
          /\ poll'.todo = poll.todo /\ poll'.answer = poll.answer /\ kind' = kind
      BY <1>7, <2>2 DEF TypeOK, Pollers, PollSunoSave, PollOnly
    <3> QED BY <3>1 DEF Shape
  <2> QED BY <2>1, <2>2
<1>8. ASSUME NEW t \in Tasks, PollVideoAsk(t) PROVE Shape'
  <2>1. CASE poll' = Without({t})
    BY <2>1, WithoutShape
  <2>2. CASE poll' # Without({t})
    <3>1. /\ poll'.at \in {"recharge", "save"} /\ poll'.task = t /\ poll'.items = poll.items
          /\ poll'.todo = poll.todo /\ kind' = kind /\ t \in poll.todo /\ poll.at = "choose"
      BY <1>8, <2>2 DEF TypeOK, Pollers, PollVideoAsk, PollOnly
    <3> QED BY <3>1 DEF Shape
  <2> QED BY <2>1, <2>2
<1>9. ASSUME PollRecharge PROVE Shape'
  <2>1. /\ poll'.at = "save" /\ poll'.task = poll.task /\ poll'.items = poll.items
        /\ poll'.todo = poll.todo /\ kind' = kind /\ poll.at = "recharge"
    BY <1>9 DEF TypeOK, Pollers, PollRecharge, PollOnly
  <2> QED BY <2>1 DEF Shape
<1>10. ASSUME PollVideoSave PROVE Shape'
  <2>1. CASE poll' = Without({poll.task})
    BY <2>1, WithoutShape
  <2>2. CASE poll' # Without({poll.task})
    <3>1. /\ poll'.at = "refund" /\ poll'.task = poll.task /\ poll'.items = poll.items
          /\ poll'.todo = poll.todo /\ kind' = kind /\ poll.at = "save"
      BY <1>10, <2>2 DEF TypeOK, Pollers, PollVideoSave, PollOnly
    <3> QED BY <3>1 DEF Shape
  <2> QED BY <2>1, <2>2
<1>11. ASSUME NEW k \in Kinds, PollGiveUp(k) PROVE Shape'
  BY <1>11, WithoutShape DEF PollGiveUp
<1>12. ASSUME PollRefund PROVE Shape'
  BY <1>12, WithoutShape DEF PollRefund
<1>13. CASE RemoveChannel
  BY <1>1, <1>13 DEF RemoveChannel
<1>14. CASE Crash
  BY <1>2, <1>14 DEF Crash
<1>15. ASSUME PollHang PROVE Shape'
  <2>1. /\ poll'.at = "hung" /\ poll'.task = poll.task /\ poll'.items = poll.items
        /\ poll'.todo = poll.todo /\ kind' = kind /\ poll.at = "choose"
    BY <1>15 DEF TypeOK, Pollers, PollHang, PollOnly
  <2> QED BY <2>1 DEF Shape
<1> QED BY <1>3, <1>4, <1>5, <1>6, <1>7, <1>8, <1>9, <1>10, <1>11, <1>12, <1>13, <1>14, <1>15
        DEF Next, Poll

-----------------------------------------------------------------------------
(* The money of a task                                                     *)

\* Nothing that the account of task t depends on has changed but, perhaps,
\* where the poller is.
Kept(t) ==
    /\ row'[t] = row[t] /\ kind'[t] = kind[t] /\ submit'[t] = submit[t]
    /\ paid'[t] = paid[t] /\ refunds'[t] = refunds[t] /\ blame'[t] = blame[t]
    /\ asked'[t] = asked[t] /\ upstream'[t] = upstream[t]

\* Nor has that.
LEMMA Untouched ==
    ASSUME NEW t \in Tasks, Fine(t), Kept(t), Place(t)' = Place(t),
           Place(t) # "out" => poll'.copy[t] = poll.copy[t],
           Place(t) \in {"recharge", "save"} => poll'.owed = poll.owed
    PROVE  Fine(t)'
<1> USE DEF Kept
<1>1. Born(t)' /\ Kind(t)'
  BY DEF Fine, Born, Kind
<1>2. Copied(t)'
  BY DEF Fine, Copied
<1>3. Last(t)' = Last(t) /\ Amount(t)' = Amount(t) /\ Excused(t)' = Excused(t)
  BY DEF Last, Amount, Excused
<1>4. Once(t)' /\ Marked(t)' /\ Sum(t)'
  BY <1>3 DEF Fine, Once, Marked, Sum
<1> QED BY <1>1, <1>2, <1>4 DEF Fine

LEMMA InitFine == ASSUME Init, NEW t \in Tasks PROVE Fine(t)
<1>1. /\ row[t] = NoRow /\ paid[t] = 0 /\ refunds[t] = 0 /\ blame[t] = {}
      /\ submit[t] = "idle" /\ asked[t] = "none" /\ poll.todo = {}
  BY DEF Init, Idle
<1>2. Place(t) = "out"
  BY <1>1 DEF Place
<1> QED BY <1>1, <1>2 DEF Fine, Born, Kind, Copied, Once, Marked, Sum, Last, Amount, Ended, NoRow

\* The request, the provider and the administrator leave the poller alone.
LEMMA SamePlace ==
    ASSUME UNCHANGED <<poll, kind>>, NEW t
    PROVE  Place(t)' = Place(t) /\ poll' = poll
BY DEF Place

LEMMA AcceptFine ==
    ASSUME NEW t \in Tasks, Fine(t), TypeOK, NEW u \in Tasks, Accept(u)
    PROVE  Fine(t)'
<1>1. Place(t)' = Place(t) /\ poll' = poll
  BY SamePlace DEF Accept
<1>2. CASE t # u
  <2>1. Kept(t)
    BY <1>2 DEF Kept, Accept, TypeOK
  <2> QED BY <1>1, <2>1, Untouched
<1>3. CASE t = u
  <2>1. /\ submit[t] = "idle" /\ submit'[t] = "accepted" /\ upstream'[t] = "running"
        /\ UNCHANGED <<row, kind, paid, refunds, blame, asked, poll>>
    BY <1>3 DEF Accept, TypeOK
  <2>2. row[t].status = "none"
    BY <2>1 DEF Fine, Born
  <2>3. Last(t)' = Last(t) /\ Amount(t)' = Amount(t) /\ Excused(t)' = Excused(t)
    BY <1>1, <2>1 DEF Last, Amount, Excused
  <2>4. Born(t)' /\ Kind(t)' /\ Copied(t)'
    BY <1>1, <2>1, <2>2 DEF Fine, Born, Kind, Copied
  <2>5. Once(t)' /\ Marked(t)' /\ Sum(t)'
    BY <1>1, <2>1, <2>2, <2>3 DEF Fine, Once, Marked, Sum
  <2> QED BY <2>4, <2>5 DEF Fine
<1> QED BY <1>2, <1>3

LEMMA InsertFine ==
    ASSUME NEW t \in Tasks, Fine(t), TypeOK, NEW u \in Tasks, Insert(u)
    PROVE  Fine(t)'
<1>1. Place(t)' = Place(t) /\ poll' = poll
  BY SamePlace DEF Insert
<1>2. CASE t # u
  <2>1. Kept(t)
    BY <1>2 DEF Kept, Insert, TypeOK
  <2> QED BY <1>1, <2>1, Untouched
<1>3. CASE t = u
  <2>1. /\ submit[t] = "accepted" /\ UNCHANGED <<kind, paid, refunds, blame, asked, poll>>
    BY <1>3 DEF Insert, TypeOK
  <2>2. /\ row[t].status = "none" /\ paid[t] = 0 /\ refunds[t] = 0 /\ asked[t] = "none"
        /\ Place(t) = "out"
    BY <2>1 DEF Fine, Born, Kind, Copied
  <2>3. CASE /\ submit'[t] = "inserted" /\ upstream' = upstream
             /\ row'[t] = [status |-> "running", full |-> FALSE, quota |-> Price]
    <3>1. Born(t)' /\ Kind(t)' /\ Copied(t)'
      BY <1>1, <2>1, <2>2, <2>3 DEF Fine, Born, Kind, Copied
    <3>2. Last(t)' = row'[t] /\ Amount(t)' = Price
      BY <1>1, <2>2, <2>3 DEF Last, Amount
    <3>3. Once(t)' /\ Marked(t)'
      BY <1>1, <2>1, <2>2, <2>3, <3>2 DEF Once, Marked, Ended
    <3>4. Sum(t)'
      BY AsyncTasksAssumption, <1>1, <2>1, <2>2, <2>3, <3>2 DEF Sum
    <3> QED BY <3>1, <3>3, <3>4 DEF Fine
  <2>4. CASE submit'[t] = "idle" /\ row' = row
    <3>1. Last(t)' = Last(t) /\ Amount(t)' = Amount(t) /\ Excused(t)' = Excused(t)
      BY <1>1, <2>1, <2>4 DEF Last, Amount, Excused
    <3>2. Born(t)' /\ Kind(t)' /\ Copied(t)'
      BY <1>1, <2>1, <2>2, <2>4 DEF Fine, Born, Kind, Copied
    <3>3. Once(t)' /\ Marked(t)' /\ Sum(t)'
      BY <1>1, <2>1, <2>2, <2>4, <3>1 DEF Fine, Once, Marked, Sum
    <3> QED BY <3>2, <3>3 DEF Fine
  <2> QED BY <1>3, <2>3, <2>4 DEF Insert, TypeOK
<1> QED BY <1>2, <1>3

LEMMA ChargeFine ==
    ASSUME NEW t \in Tasks, Fine(t), TypeOK, NEW u \in Tasks, Charge(u)
    PROVE  Fine(t)'
<1>1. Place(t)' = Place(t) /\ poll' = poll
  BY SamePlace DEF Charge
<1>2. CASE t # u
  <2>1. Kept(t)
    BY <1>2 DEF Kept, Charge, Pay, Fails, Blame, TypeOK
  <2> QED BY <1>1, <2>1, Untouched
<1>3. CASE t = u
  <2>1. /\ submit[t] = "inserted" /\ submit'[t] = "done"
        /\ UNCHANGED <<row, kind, upstream, refunds, asked, poll>>
    BY <1>3 DEF Charge, TypeOK
  <2>2. \/ paid'[t] = paid[t] + Price /\ blame' = blame
        \/ paid' = paid /\ blame'[t] = blame[t] \cup {"statement"}
    BY <1>3 DEF Charge, TypeOK, Pay, Fails, Blame
  <2>3. row[t].status # "none"
    BY <2>1 DEF Fine, Born
  <2>4. Last(t)' = Last(t) /\ Amount(t)' = Amount(t) /\ (Excused(t) => Excused(t)')
    BY <1>1, <2>1, <2>2 DEF Last, Amount, Excused
  <2>5. Born(t)' /\ Kind(t)' /\ Copied(t)'
    BY <1>1, <2>1, <2>2, <2>3 DEF Fine, Born, Kind, Copied
  <2>6. Once(t)' /\ Marked(t)'
    BY <1>1, <2>1, <2>2, <2>3, <2>4 DEF Fine, Once, Marked
  <2>7. Sum(t)'
    <3>1. paid[t] \in Int /\ Price \in Nat /\ Amount(t) \in Nat
      BY AsyncTasksAssumption DEF TypeOK, Pollers, Amount, Row
    <3>2. CASE paid'[t] = paid[t] + Price /\ blame' = blame
      BY <2>1, <2>3, <2>4, <3>1, <3>2 DEF Fine, Sum
    <3>3. CASE "statement" \in blame'[t]
      BY <3>3 DEF Sum
    <3> QED BY <2>2, <3>2, <3>3
  <2> QED BY <2>5, <2>6, <2>7 DEF Fine
<1> QED BY <1>2, <1>3

LEMMA EndFine ==
    ASSUME NEW t \in Tasks, Fine(t), TypeOK, NEW u \in Tasks, End(u)
    PROVE  Fine(t)'
<1>1. Place(t)' = Place(t) /\ poll' = poll
  BY SamePlace DEF End
<1>2. /\ UNCHANGED <<row, kind, submit, paid, refunds, blame, asked>>
      /\ upstream'[t] = upstream[t] \/ upstream'[t] \in Known
  BY DEF End, TypeOK, Known
<1>3. CASE Kept(t)
  BY <1>1, <1>3, Untouched
<1>4. CASE upstream'[t] \in Known
  <2>1. Born(t)'
    BY <1>2, <1>4 DEF Fine, Born, Known
  <2>2. Last(t)' = Last(t) /\ Amount(t)' = Amount(t) /\ Excused(t)' = Excused(t)
    BY <1>1, <1>2 DEF Last, Amount, Excused
  <2>3. Kind(t)' /\ Copied(t)'
    BY <1>1, <1>2 DEF Fine, Kind, Copied
  <2>4. Once(t)' /\ Marked(t)' /\ Sum(t)'
    BY <1>1, <1>2, <2>2 DEF Fine, Once, Marked, Sum
  <2> QED BY <2>1, <2>3, <2>4 DEF Fine
<1> QED BY <1>2, <1>3, <1>4 DEF Kept

LEMMA FetchAskFine ==
    ASSUME NEW t \in Tasks, Fine(t), TypeOK, NEW u \in Tasks, FetchAsk(u)
    PROVE  Fine(t)'
<1>1. Place(t)' = Place(t) /\ poll' = poll
  BY SamePlace DEF FetchAsk
<1>2. CASE t # u
  <2>1. Kept(t)
    BY <1>2 DEF Kept, FetchAsk, TypeOK
  <2> QED BY <1>1, <2>1, Untouched
<1>3. CASE t = u
  <2>1. /\ kind[t] = "gemini" /\ row[t].status # "none"
        /\ UNCHANGED <<row, kind, submit, upstream, paid, refunds, blame, poll>>
    BY <1>3 DEF FetchAsk, TypeOK
  <2>2. Last(t)' = Last(t) /\ Amount(t)' = Amount(t) /\ Excused(t)' = Excused(t)
    BY <1>1, <2>1 DEF Last, Amount, Excused
  <2>3. Born(t)' /\ Kind(t)' /\ Copied(t)'
    BY <1>1, <2>1 DEF Fine, Born, Kind, Copied
  <2>4. Once(t)' /\ Marked(t)' /\ Sum(t)'
    BY <1>1, <2>1, <2>2 DEF Fine, Once, Marked, Sum
  <2> QED BY <2>3, <2>4 DEF Fine
<1> QED BY <1>2, <1>3

\* A question's answer that is not to blame says that an unfinished task goes
\* on or has succeeded, or nothing new.
LEMMA FetchSaveFine ==
    ASSUME NEW t \in Tasks, Fine(t), TypeOK, Shape, NEW u \in Tasks, FetchSave(u)
    PROVE  Fine(t)'
<1>1. Place(t)' = Place(t) /\ poll' = poll
  BY SamePlace DEF FetchSave
<1>2. CASE t # u
  <2>1. Kept(t)
    BY <1>2 DEF Kept, FetchSave, Blame, TypeOK
  <2> QED BY <1>1, <2>1, Untouched
<1>3. CASE t = u
  <2>1. /\ kind[t] # "suno" /\ row[t].status # "none" /\ asked[t] \in Known /\ asked'[t] = "none"
        /\ UNCHANGED <<kind, submit, upstream, paid, refunds, poll>>
    BY <1>3 DEF FetchSave, TypeOK, Fine, Kind
  <2>2. \/ UNCHANGED <<row, blame>>
        \/ /\ row'[t].status = asked[t] /\ (row'[t].full <=> asked[t] # "running")
           /\ row'[t].quota = row[t].quota
           /\ \/ blame'[t] = blame[t] \cup {"fetch"}
              \/ blame' = blame /\ (asked[t] = row[t].status \/ (~Finished(t) /\ asked[t] # "failure"))
    <3>1. row[t] \in Row
      BY DEF TypeOK
    <3>2. CASE UNCHANGED <<row, blame>>
      BY <3>2
    <3>3. CASE ~UNCHANGED <<row, blame>>
      <4>1. row' = [row EXCEPT ![t].status = asked[t], ![t].full = asked[t] # "running"]
        BY <1>3, <3>3 DEF FetchSave
      <4>2. /\ row'[t].status = asked[t] /\ (row'[t].full <=> asked[t] # "running")
            /\ row'[t].quota = row[t].quota
        <5> DEFINE full == asked[t] # "running"
        <5>1. row'[t] = [row[t] EXCEPT !.status = asked[t], !.full = full]
          BY <4>1 DEF TypeOK
        <5> HIDE DEF full
        <5>2. row'[t].status = asked[t] /\ row'[t].full = full /\ row'[t].quota = row[t].quota
          BY <3>1, <5>1 DEF Row
        <5> QED BY <5>2 DEF full
      <4>3. \/ blame'[t] = blame[t] \cup {"fetch"}
            \/ blame' = blame /\ (asked[t] = row[t].status \/ (~Finished(t) /\ asked[t] # "failure"))
        BY <1>3, <3>3 DEF FetchSave, Blame, TypeOK
      <4> QED BY <4>2, <4>3
    <3> QED BY <3>2, <3>3
  <2>3. Place(t) # "sunoSave" /\ Place(t) # "heard"
    BY <2>1 DEF Fine, Kind
  <2>4. CASE UNCHANGED <<row, blame>>
    <3>1. Last(t)' = Last(t) /\ Amount(t)' = Amount(t) /\ Excused(t)' = Excused(t)
      BY <1>1, <2>1, <2>4 DEF Last, Amount, Excused
    <3>2. Born(t)' /\ Kind(t)' /\ Copied(t)'
      BY <1>1, <2>1, <2>4 DEF Fine, Born, Kind, Copied
    <3>3. Once(t)' /\ Marked(t)' /\ Sum(t)'
      BY <1>1, <2>1, <2>4, <3>1 DEF Fine, Once, Marked, Sum
    <3> QED BY <3>2, <3>3 DEF Fine
  <2>5. CASE /\ row'[t].status = asked[t] /\ (row'[t].full <=> asked[t] # "running")
             /\ row'[t].quota = row[t].quota /\ blame'[t] = blame[t] \cup {"fetch"}
    <3>1. Born(t)' /\ Kind(t)'
      BY <1>1, <2>1, <2>5 DEF Fine, Born, Kind, Known
    <3>2. Copied(t)'
      BY <1>1, <2>1, <2>5 DEF Fine, Copied, Known
    <3>3. Once(t)' /\ Marked(t)' /\ Sum(t)'
      BY <2>5 DEF Once, Marked, Sum, Excused
    <3> QED BY <3>1, <3>2, <3>3 DEF Fine
  <2>6. CASE /\ row'[t].status = asked[t] /\ (row'[t].full <=> asked[t] # "running")
             /\ row'[t].quota = row[t].quota /\ blame' = blame
             /\ asked[t] = row[t].status \/ (~Finished(t) /\ asked[t] # "failure")
    <3>1. Born(t)' /\ Kind(t)'
      BY <1>1, <2>1, <2>6 DEF Fine, Born, Kind, Known
    <3>2. /\ Last(t) = row[t] /\ Last(t)' = row'[t] /\ Amount(t)' = Amount(t)
          /\ Excused(t)' = Excused(t) /\ (Finished(t) <=> Ended(row[t]))
      BY <1>1, <2>1, <2>3, <2>6 DEF Last, Amount, Excused, Finished, Unfinished, Ended
    <3>3. row[t].status \in Known
      BY <2>1 DEF TypeOK, Row
    <3>4. \/ Ended(row[t]) /\ Ended(row'[t]) /\ row'[t].status = row[t].status
          \/ ~Ended(row[t]) /\ ~Ended(row'[t]) /\ row'[t].status = row[t].status
          \/ ~Ended(row[t]) /\ Ended(row'[t]) /\ row'[t].status = "success"
      BY <2>1, <2>6, <3>2, <3>3 DEF Ended, Known, Fine, Kind
    <3>5. Copied(t)'
      BY <1>1, <2>1, <2>6, <3>1, <3>4 DEF Fine, Copied, Known, Ended
    <3>6. Once(t)'
      BY <1>1, <2>1, <3>2, <3>4 DEF Fine, Once
    <3>7. Marked(t)' /\ Sum(t)'
      BY <1>1, <2>1, <2>6, <3>2, <3>4 DEF Fine, Marked, Sum
    <3> QED BY <3>1, <3>5, <3>6, <3>7 DEF Fine
  <2> QED BY <2>2, <2>4, <2>5, <2>6
<1> QED BY <1>2, <1>3

LEMMA RemoveChannelFine ==
    ASSUME NEW t \in Tasks, Fine(t), RemoveChannel PROVE Fine(t)'
<1>1. Place(t)' = Place(t) /\ poll' = poll
  BY SamePlace DEF RemoveChannel
<1> QED BY <1>1, Untouched DEF Kept, RemoveChannel

\* A restart forgets the poller; only the task it had in hand, and one that
\* was not charged yet, are left in the middle.
LEMMA CrashFine ==
    ASSUME NEW t \in Tasks, Fine(t), TypeOK, Shape, Crash
    PROVE  Fine(t)'
<1>1. /\ UNCHANGED <<row, kind, upstream, paid, refunds>> /\ asked'[t] = "none"
      /\ submit'[t] = IF submit[t] \in {"accepted", "inserted"} THEN "lost" ELSE submit[t]
      /\ blame'[t] = IF t = poll.task \/ submit[t] = "inserted"
                     THEN blame[t] \cup {"crash"} ELSE blame[t]
  BY DEF Crash, TypeOK
<1>2. Place(t)' = "out"
  BY DEF Crash, Place, Idle
<1>3. Last(t)' = row[t] /\ Amount(t)' = row[t].quota
  BY <1>1, <1>2 DEF Last, Amount
<1>4. Born(t)' /\ Kind(t)' /\ Copied(t)'
  BY <1>1, <1>2 DEF Fine, Born, Kind, Copied
<1>5. CASE t = poll.task
  <2>1. Marked(t)' /\ Sum(t)'
    BY <1>1, <1>5 DEF Marked, Sum
  <2>2. Once(t)'
    <3>1. CASE kind[t] = "suno"
      BY <1>1, <1>5, <3>1 DEF Once, Excused
    <3>2. CASE kind[t] # "suno"
      BY <1>1, <1>2, <1>3, <3>2 DEF Fine, Once, Excused, Last, Kind
    <3> QED BY <3>1, <3>2
  <2> QED BY <1>4, <2>1, <2>2 DEF Fine
<1>6. CASE t # poll.task
  <2>1. Place(t) \notin {"sunoSave", "recharge", "save", "refund"}
    BY <1>6, PlaceValues
  <2>2. Last(t) = row[t] /\ Amount(t) = row[t].quota /\ (Excused(t) => Excused(t)')
    BY <1>1, <2>1 DEF Last, Amount, Excused
  <2>3. Once(t)' /\ Marked(t)'
    BY <1>1, <1>2, <1>3, <2>1, <2>2 DEF Fine, Once, Marked
  <2>4. Sum(t)'
    BY <1>1, <1>2, <1>3, <2>1, <2>2 DEF Fine, Sum, Born
  <2> QED BY <1>4, <2>3, <2>4 DEF Fine
<1> QED BY <1>5, <1>6

-----------------------------------------------------------------------------
(* The poller's statements                                                 *)

\* A task the poller has not asked about, or a song it is done with, is let go.
LEMMA LetGo ==
    ASSUME NEW t \in Tasks, Fine(t), Kept(t), Place(t) \in {"pending", "heard"},
           \/ Place(t)' = "out"
           \/ Place(t)' = "heard" /\ kind[t] = "suno" /\ poll'.copy[t] = poll.copy[t]
    PROVE  Fine(t)'
<1> USE DEF Kept
<1>1. Born(t)' /\ Kind(t)' /\ Copied(t)'
  BY DEF Fine, Born, Kind, Copied
<1>2. /\ Last(t) = row[t] /\ Last(t)' = row[t] /\ Amount(t)' = row[t].quota
      /\ Amount(t) = row[t].quota /\ Excused(t)' = Excused(t)
  BY DEF Last, Amount, Excused
<1>3. Once(t)' /\ Marked(t)' /\ Sum(t)'
  BY <1>2 DEF Fine, Once, Marked, Sum
<1> QED BY <1>1, <1>3 DEF Fine

LEMMA KeptByPoll ==
    ASSUME PollOnly, NEW t \in Tasks, row'[t] = row[t], paid'[t] = paid[t],
           refunds'[t] = refunds[t], blame'[t] = blame[t]
    PROVE  Kept(t)
BY DEF PollOnly, Kept

\* One question is over while the poller is between two, or at the last of
\* its statements about a video.
LEMMA OthersWait ==
    ASSUME NEW t \in Tasks, TypeOK, Shape, Fine(t), Kept(t), NEW ts,
           poll' = Without(ts),
           \/ poll.at = "choose"
           \/ poll.at \in {"recharge", "save", "refund"} /\ t # poll.task
           \/ Place(t) \in {"out", "pending"},
           t \notin ts
    PROVE  Fine(t)'
<1>1. Place(t) \in {"out", "pending"}
  BY PlaceValues
<1>2. Place(t)' = Place(t) /\ (Place(t) # "out" => poll'.copy[t] = poll.copy[t])
  BY <1>1, WithoutPlace
<1> QED BY <1>1, <1>2, Untouched

LEMMA ListFine ==
    ASSUME NEW t \in Tasks, Fine(t), TypeOK, PollList
    PROVE  Fine(t)'
<1>1. Kept(t) /\ Place(t) = "out"
  BY KeptByPoll DEF PollList, Place, Idle
<1>2. /\ poll'.todo = Listed /\ poll'.at = "choose" /\ poll'.task = 0
      /\ t \in Listed => poll'.copy[t] = row[t]
  BY DEF PollList, Idle
<1>3. CASE t \notin Listed
  <2>1. Place(t)' = "out"
    BY <1>2, <1>3 DEF Place
  <2> QED BY <1>1, <2>1, Untouched
<1>4. CASE t \in Listed
  <2>1. Place(t)' = "pending"
    BY <1>2, <1>4 DEF Place, Tasks
  <2>2. row[t].status = "running" /\ ~row[t].full
    BY <1>4 DEF Listed, Unfinished
  <2>3. /\ Last(t) = row[t] /\ Last(t)' = row[t] /\ Amount(t)' = row[t].quota
        /\ Amount(t) = row[t].quota /\ Excused(t)' = Excused(t)
    BY <1>1, <2>1 DEF Last, Amount, Excused, Kept
  <2>4. Born(t)' /\ Kind(t)'
    BY <1>1, <2>1 DEF Fine, Born, Kind, Kept
  <2>5. Copied(t)'
    BY <1>1, <1>2, <1>4, <2>1, <2>2 DEF Copied, Kept
  <2>6. Once(t)' /\ Marked(t)' /\ Sum(t)'
    BY <1>1, <2>1, <2>2, <2>3 DEF Fine, Once, Marked, Sum, Kept, Ended
  <2> QED BY <2>4, <2>5, <2>6 DEF Fine
<1> QED BY <1>3, <1>4

LEMMA GiveUpFine ==
    ASSUME NEW t \in Tasks, Fine(t), TypeOK, Shape, NEW k \in Kinds, PollGiveUp(k)
    PROVE  Fine(t)'
<1>1. /\ poll.at = "choose" /\ poll' = Without(Group(k)) /\ PollOnly
      /\ UNCHANGED <<paid, refunds>>
  BY DEF PollGiveUp
<1>2. CASE t \notin Group(k)
  <2>1. Kept(t)
    BY <1>1, <1>2, KeptByPoll DEF PollGiveUp
  <2> QED BY <1>1, <1>2, <2>1, OthersWait
<1>3. CASE t \in Group(k)
  <2>1. Place(t)' = "out"
    BY <1>1, <1>3, WithoutOut
  <2>2. Place(t) = "pending"
    BY <1>1, <1>3, PlaceValues DEF Group, Place
  <2>3. CASE UNCHANGED <<row, blame>>
    <3>1. Kept(t)
      BY <1>1, <2>3, KeptByPoll
    <3> QED BY <2>1, <2>2, <3>1, LetGo
  <2>4. CASE /\ row'[t] = [row[t] EXCEPT !.status = "failure", !.full = TRUE]
             /\ blame'[t] = blame[t] \cup {"bulk"}
    <3>1. row'[t].status = "failure" /\ row'[t].full
      BY <2>4 DEF TypeOK, Row
    <3>2. UNCHANGED <<kind, submit, upstream, asked, paid, refunds>>
      BY <1>1 DEF PollOnly
    <3>3. row[t].status # "none"
      BY <2>2 DEF Fine, Copied
    <3>4. Born(t)' /\ Kind(t)' /\ Copied(t)'
      BY <2>1, <2>4, <3>1, <3>2, <3>3 DEF Fine, Born, Kind, Copied
    <3>5. Once(t)'
      BY <2>1, <2>2, <2>4, <3>2 DEF Fine, Once, Excused
    <3>6. Marked(t)' /\ Sum(t)'
      BY <2>4 DEF Marked, Sum
    <3> QED BY <3>4, <3>5, <3>6 DEF Fine
  <2> QED BY <1>3, <2>3, <2>4 DEF PollGiveUp
<1> QED BY <1>2, <1>3

LEMMA SunoAskFine ==
    ASSUME NEW t \in Tasks, Fine(t), TypeOK, Shape, PollSunoAsk
    PROVE  Fine(t)'
<1>1. poll.at = "choose" /\ PollOnly /\ UNCHANGED <<row, paid, refunds, blame>>
  BY DEF PollSunoAsk
<1>2. Kept(t) /\ Place(t) \in {"out", "pending"} /\ poll.task = 0
  BY <1>1, KeptByPoll, PlaceValues DEF Shape
<1>3. CASE poll' = Without(Group("suno"))
  <2>1. CASE t \notin Group("suno")
    BY <1>1, <1>2, <1>3, <2>1, OthersWait
  <2>2. CASE t \in Group("suno")
    <3>1. Place(t) = "pending"
      BY <1>2, <2>2 DEF Group, Place, Tasks
    <3>2. Place(t)' = "out"
      BY <1>3, <2>2, WithoutOut
    <3> QED BY <1>2, <3>1, <3>2, LetGo
  <2> QED BY <2>1, <2>2
<1>4. ASSUME NEW heard \in SUBSET Group("suno"), HearOf(heard)
      PROVE  Fine(t)'
  <2>1. /\ poll'.at = "suno" /\ poll'.items = heard /\ poll'.task = 0
        /\ poll'.todo = poll.todo /\ poll'.copy = poll.copy /\ poll'.owed = poll.owed
    BY <1>2, <1>4 DEF HearOf, TypeOK, Pollers
  <2>2. kind' = kind /\ poll.at = "choose"
    BY <1>1 DEF PollOnly
  <2>3. CASE t \in Group("suno") \ heard
    <3>1. Place(t) = "pending" /\ kind[t] = "suno"
      BY <1>2, <2>3 DEF Place, Group, Tasks
    <3>2. Place(t)' = "heard"
      BY <2>1, <2>2, <2>3 DEF Place, Group, Tasks
    <3> QED BY <1>2, <2>1, <3>1, <3>2, LetGo
  <2>4. CASE t \notin Group("suno") \ heard
    <3>1. Place(t)' = Place(t)
      BY <1>2, <2>1, <2>2, <2>4 DEF Place, Group, Tasks
    <3> QED BY <1>2, <2>1, <3>1, Untouched
  <2> QED BY <2>3, <2>4
<1> QED BY <1>3, <1>4 DEF PollSunoAsk

\* The poller waits for good and keeps its list.
LEMMA HangFine ==
    ASSUME NEW t \in Tasks, Fine(t), TypeOK, Shape, PollHang
    PROVE  Fine(t)'
<1>1. /\ poll.at = "choose" /\ PollOnly /\ UNCHANGED <<row, paid, refunds, blame>>
      /\ kind' = kind
  BY DEF PollHang, PollOnly
<1>2. Kept(t) /\ Place(t) \in {"out", "pending"} /\ poll.task = 0
  BY <1>1, KeptByPoll, PlaceValues DEF Shape
<1>3. /\ poll'.at = "hung" /\ poll'.items = poll.items /\ poll'.task = 0
      /\ poll'.todo = poll.todo /\ poll'.copy = poll.copy /\ poll'.owed = poll.owed
  BY <1>2 DEF PollHang, TypeOK, Pollers
<1>4. Place(t)' = Place(t)
  BY <1>1, <1>2, <1>3 DEF Place, Tasks
<1> QED BY <1>2, <1>3, <1>4, Untouched

\* The songs are over.
LEMMA SongsOver ==
    ASSUME NEW t \in Tasks, Fine(t), TypeOK, Shape, Kept(t), poll.at \in {"suno", "sunoSave"},
           poll' = Without(Group("suno")), t \notin poll.items
    PROVE  Fine(t)'
<1>1. poll.task # t
  BY DEF Shape, Tasks
<1>2. CASE t \in Group("suno")
  <2>1. Place(t) = "heard"
    BY <1>1, <1>2 DEF Place, Group
  <2>2. Place(t)' = "out"
    BY <1>2, WithoutOut
  <2> QED BY <2>1, <2>2, LetGo
<1>3. CASE t \notin Group("suno")
  <2>1. Place(t) \in {"out", "pending"}
    BY <1>1, <1>3 DEF Place, Group
  <2> QED BY <1>3, <2>1, OthersWait
<1> QED BY <1>2, <1>3

LEMMA SunoItemFine ==
    ASSUME NEW t \in Tasks, Fine(t), TypeOK, Shape, NEW u \in Tasks, PollSunoItem(u)
    PROVE  Fine(t)'
<1>1. /\ poll.at = "suno" /\ u \in poll.items /\ PollOnly /\ UNCHANGED row /\ poll.task = 0
      /\ kind' = kind /\ kind[u] = "suno" /\ u \in poll.todo
  BY DEF PollSunoItem, Shape, PollOnly
<1>2. t # u => Kept(t)
  BY <1>1, KeptByPoll DEF PollSunoItem, SunoRefund, Pay, Blame, Fails, TypeOK
<1>3. CASE /\ poll.answer[u] = "running" /\ UNCHANGED <<paid, refunds, faults, blame>>
           /\ poll' = IF poll.items = {u} THEN Without(Group("suno"))
                      ELSE [poll EXCEPT !.items = @ \ {u}]
  <2>1. Kept(t)
    BY <1>1, <1>3, KeptByPoll
  <2>2. CASE poll.items = {u}
    <3>1. CASE t # u
      BY <1>1, <1>3, <2>1, <2>2, <3>1, SongsOver
    <3>2. CASE t = u
      <4>1. Place(t) = "pending"
        BY <1>1, <3>2, PlaceValues
      <4>2. Place(t)' = "out"
        BY <1>1, <1>3, <2>2, <3>2, WithoutOut DEF Group
      <4> QED BY <2>1, <4>1, <4>2, LetGo
    <3> QED BY <3>1, <3>2
  <2>3. CASE poll.items # {u}
    <3>1. /\ poll'.at = "suno" /\ poll'.items = poll.items \ {u} /\ poll'.task = 0
          /\ poll'.todo = poll.todo /\ poll'.copy = poll.copy /\ poll'.owed = poll.owed
      BY <1>1, <1>3, <2>3 DEF TypeOK, Pollers
    <3>2. CASE t # u
      <4>1. Place(t)' = Place(t)
        BY <1>1, <3>1, <3>2 DEF Place, Tasks
      <4> QED BY <2>1, <3>1, <4>1, Untouched
    <3>3. CASE t = u
      <4>1. Place(t) = "pending"
        BY <1>1, <3>3, PlaceValues
      <4>2. Place(t)' = "heard"
        BY <1>1, <3>1, <3>3 DEF Place, Tasks
      <4> QED BY <1>1, <2>1, <3>1, <3>3, <4>1, <4>2, LetGo
    <3> QED BY <3>2, <3>3
  <2> QED BY <2>2, <2>3
<1>4. CASE /\ SunoRefund(u)
           /\ poll' = [poll EXCEPT !.at = "sunoSave", !.task = u, !.copy[u] = SunoCopy(u)]
  <2>1. /\ poll'.at = "sunoSave" /\ poll'.items = poll.items /\ poll'.task = u
        /\ poll'.todo = poll.todo /\ poll'.owed = poll.owed
        /\ poll'.copy = [poll.copy EXCEPT ![u] = SunoCopy(u)]
    BY <1>4 DEF TypeOK, Pollers
  <2>2. CASE t # u
    <3>1. Place(t)' = Place(t)
      BY <1>1, <2>1, <2>2 DEF Place, Tasks
    <3>2. poll'.copy[t] = poll.copy[t]
      BY <2>1, <2>2 DEF TypeOK, Pollers
    <3> QED BY <1>2, <2>1, <2>2, <3>1, <3>2, Untouched
  <2>3. CASE t = u
    <3>1. Place(t) = "pending" /\ Place(t)' = "sunoSave"
      BY <1>1, <2>1, <2>3, PlaceValues DEF Place
    <3>2. /\ poll.copy[t] \in Row /\ poll.answer[t] \in {"reason"} \cup Known
          /\ poll.copy[t].status = "running" /\ ~poll.copy[t].full
          /\ poll.copy[t].quota = row[t].quota /\ row[t].status # "none"
      BY <1>1, <2>3, <3>1 DEF Fine, Copied, TypeOK, Pollers, Shape
    <3>3. poll'.copy[t] = SunoCopy(t)
      BY <2>1, <2>3 DEF TypeOK, Pollers
    <3>4. /\ SunoCopy(t).quota = row[t].quota /\ SunoCopy(t).status # "none"
          /\ Ended(SunoCopy(t)) <=> poll.answer[t] # "running"
          /\ SunoCopy(t).status = "success" <=> poll.answer[t] = "success"
      <4>1. CASE poll.answer[t] = "running"
        BY <3>2, <4>1 DEF SunoCopy, Ended
      <4>2. CASE poll.answer[t] = "reason"
        BY <3>2, <4>2 DEF SunoCopy, Ended, Row
      <4>3. CASE poll.answer[t] \in {"success", "failure"}
        BY <3>2, <4>3 DEF SunoCopy, Ended, Row
      <4> QED BY <3>2, <4>1, <4>2, <4>3 DEF Known
    <3>5. /\ Last(t)' = SunoCopy(t) /\ Amount(t) = row[t].quota /\ Amount(t)' = row[t].quota
          /\ UNCHANGED <<row, kind, submit, upstream, asked>>
      BY <1>1, <3>1, <3>3 DEF Last, Amount, PollOnly
    <3>6. \/ poll.answer[t] \notin {"failure", "reason"} /\ UNCHANGED <<paid, refunds, blame>>
          \/ /\ poll.answer[t] \in {"failure", "reason"}
             /\ "statement" \in blame'[t] /\ UNCHANGED <<paid, refunds>>
             /\ blame[t] \subseteq blame'[t]
          \/ /\ poll.answer[t] \in {"failure", "reason"} /\ blame' = blame
             /\ paid'[t] = paid[t] - row[t].quota /\ refunds'[t] = refunds[t] + 1
      <4>1. CASE poll.answer[t] \notin {"failure", "reason"}
        BY <1>4, <2>3, <4>1 DEF SunoRefund
      <4>2. CASE poll.answer[t] \in {"failure", "reason"}
        <5>1. CASE Blame(t, "statement") /\ UNCHANGED <<paid, refunds>>
          BY <4>2, <5>1 DEF Blame, TypeOK
        <5>2. CASE /\ Pay(t, -poll.copy[t].quota) /\ UNCHANGED <<faults, blame>>
                   /\ refunds' = [refunds EXCEPT ![t] = @ + 1]
          <6>1. paid[t] \in Int /\ row[t].quota \in Nat
            BY DEF TypeOK, Row
          <6>2. paid'[t] = paid[t] + -poll.copy[t].quota
            BY <5>2 DEF Pay, TypeOK
          <6> QED BY <3>2, <4>2, <5>2, <6>1, <6>2 DEF TypeOK
        <5> QED BY <1>4, <2>3, <4>2, <5>1, <5>2 DEF SunoRefund, Fails
      <4> QED BY <4>1, <4>2
    <3>7. row[t].status # "none" /\ kind[t] = "suno"
      BY <1>1, <2>3, <3>2
    <3>8. Born(t)'
      BY <3>2, <3>5, <3>6 DEF Fine, Born
    <3>9. Kind(t)'
      BY <3>1, <3>5, <3>7 DEF Fine, Kind
    <3>10. Copied(t)'
      BY <3>1, <3>2, <3>3, <3>4, <3>5 DEF Copied
    <3>11. Once(t)'
      <4>1. CASE "statement" \in blame'[t]
        BY <3>5, <3>7, <4>1 DEF Once, Excused
      <4>2. CASE "statement" \notin blame'[t]
        <5>1. blame' = blame /\ Excused(t)' = Excused(t)
          BY <3>5, <3>6, <4>2 DEF Excused
        <5>2. ~Excused(t) => refunds[t] = 0
          BY <3>1 DEF Fine, Once
        <5> QED BY <3>1, <3>4, <3>5, <3>6, <4>2, <5>1, <5>2 DEF Once
      <4> QED BY <4>1, <4>2
    <3>12. Marked(t)' /\ Sum(t)'
      <4>1. CASE blame'[t] # {}
        BY <4>1 DEF Marked, Sum
      <4>2. CASE blame'[t] = {}
        <5>1. blame' = blame /\ refunds[t] = 0
          BY <3>1, <3>6, <4>2 DEF Fine, Once, Excused
        <5>2. paid[t] = (IF submit[t] = "done" THEN 0 ELSE -Price) + row[t].quota
          BY <3>2, <3>5, <4>2, <5>1 DEF Fine, Sum
        <5>3. row[t].quota \in Nat /\ Price \in Nat
          BY AsyncTasksAssumption DEF TypeOK, Row
        <5>4. Marked(t)'
          <6>1. refunds'[t] = 0 <=> poll.answer[t] \notin {"failure", "reason"}
            BY <3>6, <4>2, <5>1
          <6>2. refunds'[t] = 0 <=> (Ended(SunoCopy(t)) => SunoCopy(t).status = "success")
            BY <3>2, <3>4, <6>1 DEF Known
          <6> QED BY <3>5, <6>2 DEF Marked
        <5>5. Sum(t)'
          BY <3>5, <3>6, <4>2, <5>1, <5>2, <5>3 DEF Sum
        <5> QED BY <5>4, <5>5
      <4> QED BY <4>1, <4>2
    <3> QED BY <3>8, <3>9, <3>10, <3>11, <3>12 DEF Fine
  <2> QED BY <2>2, <2>3
<1> QED BY <1>3, <1>4 DEF PollSunoItem

LEMMA SunoSaveFine ==
    ASSUME NEW t \in Tasks, Fine(t), TypeOK, Shape, PollSunoSave
    PROVE  Fine(t)'
<1> DEFINE u == poll.task
<1>1. /\ poll.at = "sunoSave" /\ u \in poll.items /\ u \in poll.todo /\ u \in Tasks
      /\ PollOnly /\ UNCHANGED <<paid, refunds>> /\ kind' = kind /\ kind[u] = "suno"
  BY DEF PollSunoSave, Shape, PollOnly, TypeOK, Pollers
<1>2. \/ poll.items = {u} /\ poll' = Without(Group("suno"))
      \/ /\ poll.items # {u} /\ poll'.at = "suno" /\ poll'.items = poll.items \ {u}
         /\ poll'.task = 0 /\ poll'.todo = poll.todo /\ poll'.copy = poll.copy
         /\ poll'.owed = poll.owed
  BY DEF PollSunoSave, TypeOK, Pollers
<1>3. CASE t # u
  <2>1. Kept(t)
    BY <1>1, <1>3, KeptByPoll DEF PollSunoSave, Fails, Blame, TypeOK
  <2>2. CASE poll.items = {u}
    BY <1>1, <1>2, <1>3, <2>1, <2>2, SongsOver
  <2>3. CASE poll.items # {u}
    <3>1. Place(t)' = Place(t)
      BY <1>1, <1>2, <1>3, <2>3 DEF Place, Tasks
    <3> QED BY <1>2, <2>1, <2>3, <3>1, Untouched
  <2> QED BY <2>2, <2>3
<1>4. CASE t = u
  <2>1. Place(t) = "sunoSave"
    BY <1>1, <1>4, PlaceValues
  <2>2. Place(t)' \in {"out", "heard"}
    <3>1. CASE poll.items = {u}
      BY <1>1, <1>2, <1>4, <3>1, WithoutOut DEF Group
    <3>2. CASE poll.items # {u}
      BY <1>1, <1>2, <1>4, <3>2 DEF Place, Tasks
    <3> QED BY <3>1, <3>2
  <2>3. Place(t)' = "heard" => poll'.copy[t] = poll.copy[t]
    <3>1. CASE poll.items = {u}
      BY <1>1, <1>2, <1>4, <3>1, WithoutOut DEF Group
    <3> QED BY <1>2, <3>1
  <2>4. /\ row[t].status # "none" /\ poll.copy[t].status # "none"
        /\ poll.copy[t].quota = row[t].quota /\ kind[t] = "suno"
    BY <1>1, <1>4, <2>1 DEF Fine, Copied
  <2>5. UNCHANGED <<kind, submit, upstream, asked, paid, refunds>>
    BY <1>1 DEF PollOnly
  <2>6. CASE row'[t] = poll.copy[t] /\ blame' = blame
    <3>1. /\ Last(t) = row'[t] /\ Last(t)' = row'[t] /\ Amount(t) = row[t].quota
          /\ Amount(t)' = row[t].quota /\ Excused(t)' = Excused(t)
      BY <2>1, <2>2, <2>4, <2>5, <2>6 DEF Last, Amount, Excused
    <3>2. Born(t)' /\ Kind(t)'
      BY <2>2, <2>4, <2>5, <2>6 DEF Fine, Born, Kind
    <3>3. Copied(t)'
      BY <2>2, <2>3, <2>4, <2>6 DEF Copied
    <3>4. Once(t)' /\ Marked(t)' /\ Sum(t)'
      BY <2>1, <2>2, <2>4, <2>5, <2>6, <3>1 DEF Fine, Once, Marked, Sum
    <3> QED BY <3>2, <3>3, <3>4 DEF Fine
  <2>7. CASE row' = row /\ blame'[t] = blame[t] \cup {"statement"}
    <3>1. Born(t)' /\ Kind(t)'
      BY <2>2, <2>4, <2>5, <2>7 DEF Fine, Born, Kind
    <3>2. Copied(t)'
      BY <2>2, <2>3, <2>4, <2>7 DEF Copied
    <3>3. Once(t)' /\ Marked(t)' /\ Sum(t)'
      BY <2>4, <2>5, <2>7 DEF Once, Excused, Marked, Sum
    <3> QED BY <3>1, <3>2, <3>3 DEF Fine
  <2> QED BY <1>1, <1>4, <2>6, <2>7 DEF PollSunoSave, Fails, Blame, TypeOK
<1> QED BY <1>3, <1>4

LEMMA VideoAskFine ==
    ASSUME NEW t \in Tasks, Fine(t), TypeOK, Shape, NEW u \in Tasks, PollVideoAsk(u)
    PROVE  Fine(t)'
<1>1. /\ poll.at = "choose" /\ u \in poll.todo /\ PollOnly /\ kind' = kind
      /\ kind[u] # "suno" /\ UNCHANGED <<row, paid, refunds, blame>> /\ poll.task = 0
      /\ poll.items = {}
  BY DEF PollVideoAsk, PollOnly, Shape
<1>2. Kept(t) /\ Place(t) \in {"out", "pending"}
  BY <1>1, KeptByPoll, PlaceValues
<1>3. CASE poll' = Without({u})
  <2>1. CASE t # u
    BY <1>1, <1>2, <1>3, <2>1, OthersWait
  <2>2. CASE t = u
    <3>1. Place(t) = "pending"
      BY <1>1, <1>2, <2>2 DEF Place, Tasks
    <3>2. Place(t)' = "out"
      BY <1>3, <2>2, WithoutOut
    <3> QED BY <1>2, <3>1, <3>2, LetGo
  <2> QED BY <2>1, <2>2
<1>4. ASSUME NEW answer \in {upstream[u], "failure"},
             poll' = [poll EXCEPT
                !.at = IF answer = "success" /\ actual[u] \notin {0, poll.copy[u].quota}
                       THEN "recharge" ELSE "save",
                !.task = u,
                !.owed = answer = "failure" /\ poll.copy[u].status # "failure",
                !.copy[u] = [@ EXCEPT !.status = answer, !.full = answer # "running"]]
      PROVE Fine(t)'
  <2> DEFINE owed == answer = "failure" /\ poll.copy[u].status # "failure"
             full == answer # "running"
  <2>1. /\ poll'.at \in {"recharge", "save"} /\ poll'.task = u /\ poll'.todo = poll.todo
        /\ poll'.items = poll.items
        /\ poll'.copy = [poll.copy EXCEPT ![u] = [@ EXCEPT !.status = answer, !.full = full]]
    BY <1>4 DEF TypeOK, Pollers
  <2>2. poll'.owed = owed
    <3> HIDE DEF owed
    <3> QED BY <1>4 DEF TypeOK, Pollers, owed
  <2>3. CASE t # u
    <3>1. Place(t)' = Place(t)
      BY <1>1, <1>2, <2>1, <2>3 DEF Place, Tasks
    <3>2. poll'.copy[t] = poll.copy[t]
      BY <2>1, <2>3 DEF TypeOK, Pollers
    <3> QED BY <1>2, <3>1, <3>2, Untouched
  <2>4. CASE t = u
    <3>1. Place(t) = "pending" /\ Place(t)' \in {"recharge", "save"}
      BY <1>1, <1>2, <2>1, <2>4 DEF Place, Tasks
    <3>2. /\ poll.copy[t].status = "running" /\ poll.copy[t].quota = row[t].quota
          /\ row[t].status # "none" /\ answer # "none" /\ poll.copy[t] \in Row
      BY <2>4, <3>1 DEF Fine, Copied, Born, TypeOK, Pollers
    <3>3. /\ poll'.copy[t].status = answer /\ poll'.copy[t].full = full
          /\ poll'.copy[t].quota = row[t].quota
      <4> HIDE DEF full
      <4> QED BY <2>1, <2>4, <3>2 DEF TypeOK, Pollers, Row
    <3>4. /\ poll'.owed <=> answer = "failure"
          /\ poll'.copy[t].full <=> answer # "running"
      BY <2>2, <2>4, <3>2, <3>3
    <3>5. /\ Last(t) = row[t] /\ Last(t)' = row[t] /\ Amount(t) = row[t].quota
          /\ Amount(t)' = row[t].quota /\ Excused(t)' = Excused(t)
      BY <1>2, <3>1, <3>3 DEF Last, Amount, Excused, Kept
    <3>6. Born(t)' /\ Kind(t)'
      BY <1>1, <1>2, <2>4, <3>1 DEF Fine, Born, Kind, Kept
    <3>7. Copied(t)'
      BY <1>2, <3>1, <3>2, <3>3, <3>4 DEF Copied, Kept
    <3>8. Once(t)' /\ Marked(t)' /\ Sum(t)'
      BY <1>2, <3>1, <3>5 DEF Fine, Once, Marked, Sum, Kept
    <3> QED BY <3>6, <3>7, <3>8 DEF Fine
  <2> QED BY <2>3, <2>4
<1> QED BY <1>3, <1>4 DEF PollVideoAsk

LEMMA RechargeFine ==
    ASSUME NEW t \in Tasks, Fine(t), TypeOK, Shape, PollRecharge
    PROVE  Fine(t)'
<1> DEFINE u == poll.task
<1>1. /\ poll.at = "recharge" /\ u \in poll.todo /\ u \in Tasks /\ PollOnly /\ kind' = kind
      /\ UNCHANGED <<row, refunds, blame>>
  BY DEF PollRecharge, PollOnly, Shape, TypeOK, Pollers
<1>2. /\ poll'.at = "save" /\ poll'.task = u /\ poll'.items = poll.items
      /\ poll'.todo = poll.todo /\ poll'.owed = poll.owed
      /\ \/ poll'.copy = poll.copy /\ UNCHANGED paid
         \/ /\ poll'.copy = [poll.copy EXCEPT ![u].quota = actual[u]]
            /\ Pay(u, actual[u] - poll.copy[u].quota)
  BY DEF PollRecharge, TypeOK, Pollers
<1>3. CASE t # u
  <2>1. Kept(t) /\ poll'.copy[t] = poll.copy[t]
    BY <1>1, <1>2, <1>3, KeptByPoll DEF Pay, TypeOK, Pollers
  <2>2. Place(t)' = Place(t)
    BY <1>1, <1>2, <1>3 DEF Place
  <2> QED BY <1>2, <2>1, <2>2, Untouched
<1>4. CASE t = u
  <2>1. Place(t) = "recharge" /\ Place(t)' = "save"
    BY <1>1, <1>2, <1>4 DEF Place
  <2>2. poll.copy[t] \in Row /\ paid[t] \in Int /\ actual[t] \in Nat /\ row[t] \in Row
    BY DEF TypeOK, Pollers
  <2>3. /\ row[t].status # "none" /\ poll.copy[t].quota = row[t].quota
        /\ poll.copy[t].status # "none"
        /\ poll.owed <=> poll.copy[t].status = "failure"
        /\ poll.copy[t].full <=> poll.copy[t].status # "running"
    BY <2>1 DEF Fine, Copied
  <2>4. /\ poll'.copy[t].status = poll.copy[t].status /\ poll'.copy[t].full = poll.copy[t].full
        /\ paid'[t] - poll'.copy[t].quota = paid[t] - row[t].quota
        /\ paid'[t] \in Int /\ poll'.copy[t].quota \in Nat
    <3>1. CASE poll'.copy = poll.copy /\ UNCHANGED paid
      BY <2>2, <2>3, <3>1 DEF Row
    <3>2. CASE /\ poll'.copy = [poll.copy EXCEPT ![u].quota = actual[u]]
               /\ Pay(u, actual[u] - poll.copy[u].quota)
      <4>1. poll'.copy[t] = [poll.copy[t] EXCEPT !.quota = actual[t]]
        BY <1>4, <3>2 DEF TypeOK, Pollers
      <4>2. /\ poll'.copy[t].status = poll.copy[t].status
            /\ poll'.copy[t].full = poll.copy[t].full /\ poll'.copy[t].quota = actual[t]
        BY <2>2, <4>1 DEF Row
      <4>3. paid'[t] = paid[t] + (actual[t] - poll.copy[t].quota)
        BY <1>4, <3>2 DEF Pay, TypeOK
      <4>4. row[t].quota \in Nat
        BY <2>2 DEF Row
      <4> QED BY <2>2, <2>3, <4>2, <4>3, <4>4
    <3> QED BY <1>2, <3>1, <3>2
  <2>5. UNCHANGED <<kind, submit, upstream, asked, row, refunds, blame>>
    BY <1>1 DEF PollOnly
  <2>6. Born(t)' /\ Kind(t)'
    BY <2>1, <2>3, <2>5 DEF Fine, Born, Kind
  <2>7. Copied(t)'
    BY <1>2, <2>1, <2>3, <2>4, <2>5 DEF Copied
  <2>8. /\ Last(t) = row[t] /\ Last(t)' = row[t] /\ Amount(t) = row[t].quota
        /\ Amount(t)' = poll'.copy[t].quota /\ Excused(t)' = Excused(t)
    BY <2>1, <2>5 DEF Last, Amount, Excused
  <2>9. Once(t)' /\ Marked(t)'
    BY <2>1, <2>5, <2>8 DEF Fine, Once, Marked
  <2>10. Sum(t)'
    <3>1. blame[t] = {} => refunds[t] = 0
      BY <2>1 DEF Fine, Once, Excused
    <3>2. row[t].quota \in Nat /\ Price \in Nat
      BY <2>2, AsyncTasksAssumption DEF Row
    <3>3. blame[t] = {} =>
             paid[t] = (IF submit[t] = "done" THEN 0 ELSE -Price) + row[t].quota
      BY <2>3, <2>8, <3>1 DEF Fine, Sum
    <3>4. blame[t] = {} =>
             paid'[t] = (IF submit[t] = "done" THEN 0 ELSE -Price) + poll'.copy[t].quota
      BY <2>2, <2>4, <3>2, <3>3
    <3> QED BY <2>5, <2>8, <3>1, <3>4 DEF Sum
  <2> QED BY <2>6, <2>7, <2>9, <2>10 DEF Fine
<1> QED BY <1>3, <1>4

LEMMA VideoSaveFine ==
    ASSUME NEW t \in Tasks, Fine(t), TypeOK, Shape, PollVideoSave
    PROVE  Fine(t)'
<1> DEFINE u == poll.task
<1>1. /\ poll.at = "save" /\ u \in poll.todo /\ u \in Tasks /\ PollOnly /\ kind' = kind
      /\ UNCHANGED <<paid, refunds>> /\ poll.items = {}
  BY DEF PollVideoSave, PollOnly, Shape, TypeOK, Pollers
<1>2. \/ /\ row' = [row EXCEPT ![u] = poll.copy[u]] /\ UNCHANGED blame
         /\ poll' = IF poll.owed THEN [poll EXCEPT !.at = "refund"] ELSE Without({u})
      \/ Blame(u, "statement") /\ poll' = Without({u}) /\ UNCHANGED row
  BY DEF PollVideoSave, Fails
<1>3. CASE t # u
  <2>1. Kept(t)
    BY <1>1, <1>2, <1>3, KeptByPoll DEF Blame, TypeOK
  <2>2. CASE poll' = Without({u})
    BY <1>1, <1>3, <2>1, <2>2, OthersWait
  <2>3. CASE poll' = [poll EXCEPT !.at = "refund"]
    <3>1. /\ poll'.at = "refund" /\ poll'.task = u /\ poll'.items = poll.items
          /\ poll'.todo = poll.todo /\ poll'.owed = poll.owed /\ poll'.copy = poll.copy
      BY <2>3 DEF TypeOK, Pollers
    <3>2. Place(t)' = Place(t)
      BY <1>1, <1>3, <3>1 DEF Place
    <3> QED BY <2>1, <3>1, <3>2, Untouched
  <2> QED BY <1>2, <2>2, <2>3
<1>4. CASE t = u
  <2>1. Place(t) = "save"
    BY <1>1, <1>4 DEF Place
  <2>2. /\ row[t].status # "none" /\ poll.copy[t].status # "none" /\ kind[t] # "suno"
        /\ poll.owed <=> poll.copy[t].status = "failure"
        /\ poll.copy[t].full <=> poll.copy[t].status # "running"
        /\ ~Excused(t) => refunds[t] = 0
    BY <2>1 DEF Fine, Copied, Kind, Once
  <2>3. UNCHANGED <<kind, submit, upstream, asked, paid, refunds>>
    BY <1>1 DEF PollOnly
  <2>4. CASE /\ row' = [row EXCEPT ![u] = poll.copy[u]] /\ UNCHANGED blame
             /\ poll' = IF poll.owed THEN [poll EXCEPT !.at = "refund"] ELSE Without({u})
    <3>1. row'[t] = poll.copy[t]
      BY <1>4, <2>4 DEF TypeOK
    <3>2. CASE poll.owed
      <4>1. /\ poll'.at = "refund" /\ poll'.task = u /\ poll'.todo = poll.todo
            /\ poll'.copy = poll.copy
        BY <2>4, <3>2 DEF TypeOK, Pollers
      <4>2. Place(t)' = "refund"
        BY <1>1, <1>4, <4>1 DEF Place
      <4>3. Born(t)' /\ Kind(t)'
        BY <2>2, <2>3, <2>4, <3>1, <4>2 DEF Fine, Born, Kind
      <4>4. Copied(t)'
        BY <2>2, <3>1, <3>2, <4>1, <4>2 DEF Copied
      <4>5. Amount(t)' = Amount(t) /\ Excused(t)' = Excused(t) /\ Last(t)' = row'[t]
        BY <2>1, <2>3, <2>4, <3>1, <4>2 DEF Amount, Excused, Last
      <4>6. Once(t)' /\ Marked(t)' /\ Sum(t)'
        BY <2>2, <2>3, <2>4, <3>1, <4>2, <4>5 DEF Fine, Once, Marked, Sum
      <4> QED BY <4>3, <4>4, <4>6 DEF Fine
    <3>3. CASE ~poll.owed
      <4>1. Place(t)' = "out"
        BY <1>4, <2>4, <3>3, WithoutOut
      <4>2. Born(t)' /\ Kind(t)'
        BY <2>2, <2>3, <2>4, <3>1, <4>1 DEF Fine, Born, Kind
      <4>3. Copied(t)'
        BY <4>1 DEF Copied
      <4>4. /\ Amount(t)' = Amount(t) /\ Excused(t)' = Excused(t) /\ Last(t)' = row'[t]
            /\ Ended(row'[t]) => row'[t].status = "success"
        <5>1. Amount(t)' = Amount(t) /\ Excused(t)' = Excused(t) /\ Last(t)' = row'[t]
          BY <2>1, <2>3, <2>4, <3>1, <4>1 DEF Amount, Excused, Last
        <5>2. poll.copy[t].status \in {"running", "success"}
          BY <2>2, <3>3 DEF TypeOK, Pollers, Row, Known
        <5> QED BY <2>2, <3>1, <5>1, <5>2 DEF Ended
      <4>5. Once(t)'
        BY <2>2, <2>3, <4>1, <4>4 DEF Once
      <4>6. Marked(t)'
        BY <2>2, <2>3, <2>4, <4>4 DEF Marked, Excused
      <4>7. Sum(t)'
        BY <2>2, <2>3, <2>4, <3>1, <4>4 DEF Fine, Sum
      <4> QED BY <4>2, <4>3, <4>5, <4>6, <4>7 DEF Fine
    <3> QED BY <3>2, <3>3
  <2>5. CASE Blame(u, "statement") /\ poll' = Without({u}) /\ UNCHANGED row
    <3>1. Place(t)' = "out"
      BY <1>4, <2>5, WithoutOut
    <3>2. blame'[t] = blame[t] \cup {"statement"}
      BY <1>4, <2>5 DEF Blame, TypeOK
    <3>3. Born(t)' /\ Kind(t)' /\ Copied(t)'
      BY <2>2, <2>3, <2>5, <3>1, <3>2 DEF Fine, Born, Kind, Copied
    <3>4. Once(t)' /\ Marked(t)' /\ Sum(t)'
      BY <2>2, <2>3, <3>1, <3>2 DEF Once, Excused, Marked, Sum
    <3> QED BY <3>3, <3>4 DEF Fine
  <2> QED BY <1>2, <2>4, <2>5
<1> QED BY <1>3, <1>4

LEMMA RefundFine ==
    ASSUME NEW t \in Tasks, Fine(t), TypeOK, Shape, PollRefund
    PROVE  Fine(t)'
<1> DEFINE u == poll.task
<1>1. /\ poll.at = "refund" /\ u \in poll.todo /\ u \in Tasks /\ PollOnly /\ kind' = kind
      /\ UNCHANGED row /\ poll' = Without({u})
  BY DEF PollRefund, PollOnly, Shape, TypeOK, Pollers
<1>2. \/ /\ Pay(u, -poll.copy[u].quota) /\ refunds' = [refunds EXCEPT ![u] = @ + 1]
         /\ UNCHANGED blame
      \/ Blame(u, "statement") /\ UNCHANGED <<paid, refunds>>
  BY DEF PollRefund, Fails
<1>3. CASE t # u
  <2>1. Kept(t)
    BY <1>1, <1>2, <1>3, KeptByPoll DEF Blame, Pay, TypeOK
  <2> QED BY <1>1, <1>3, <2>1, OthersWait
<1>4. CASE t = u
  <2>1. Place(t) = "refund" /\ Place(t)' = "out"
    BY <1>1, <1>4, WithoutOut DEF Place
  <2>2. /\ row[t].status # "none" /\ kind[t] # "suno" /\ poll.copy[t].quota = row[t].quota
        /\ "fetch" \notin blame[t] => row[t].status = "failure" /\ row[t].full
        /\ ~Excused(t) => refunds[t] = 0
    BY <2>1 DEF Fine, Copied, Kind, Once
  <2>3. UNCHANGED <<kind, submit, upstream, asked, row>>
    BY <1>1 DEF PollOnly
  <2>4. Kind(t)' /\ Copied(t)'
    BY <2>1, <2>2, <2>3 DEF Fine, Kind, Copied
  <2>5. Last(t)' = row[t] /\ Amount(t) = row[t].quota /\ Amount(t)' = row[t].quota
    BY <2>1, <2>3 DEF Last, Amount
  <2>6. CASE /\ Pay(u, -poll.copy[u].quota) /\ refunds' = [refunds EXCEPT ![u] = @ + 1]
             /\ UNCHANGED blame
    <3>1. paid[t] \in Int /\ row[t].quota \in Nat /\ Price \in Nat
      BY AsyncTasksAssumption DEF TypeOK, Row
    <3>2. paid'[t] = paid[t] - row[t].quota /\ refunds'[t] = refunds[t] + 1
      <4>1. paid'[t] = paid[t] + -poll.copy[t].quota
        BY <1>4, <2>6 DEF Pay, TypeOK
      <4> QED BY <1>4, <2>2, <2>6, <3>1, <4>1 DEF TypeOK
    <3>3. Born(t)'
      BY <2>2, <2>3, <2>6 DEF Fine, Born
    <3>4. Excused(t)' = Excused(t)
      BY <2>3, <2>6 DEF Excused
    <3>5. Once(t)'
      BY <2>1, <2>2, <2>5, <3>2, <3>4 DEF Once, Excused, Ended
    <3>6. Marked(t)' /\ Sum(t)'
      <4>1. CASE blame[t] # {}
        BY <2>6, <4>1 DEF Marked, Sum
      <4>2. CASE blame[t] = {}
        <5>1. refunds[t] = 0 /\ row[t].status = "failure"
          BY <2>2, <4>2 DEF Excused
        <5>2. paid[t] = (IF submit[t] = "done" THEN 0 ELSE -Price) + row[t].quota
          BY <2>2, <2>5, <4>2, <5>1 DEF Fine, Sum
        <5>3. Marked(t)'
          BY <2>5, <3>2, <5>1 DEF Marked, Ended
        <5>4. Sum(t)'
          BY <2>3, <2>5, <3>1, <3>2, <5>1, <5>2 DEF Sum
        <5> QED BY <5>3, <5>4
      <4> QED BY <4>1, <4>2
    <3> QED BY <2>4, <3>3, <3>5, <3>6 DEF Fine
  <2>7. CASE Blame(u, "statement") /\ UNCHANGED <<paid, refunds>>
    <3>1. blame'[t] = blame[t] \cup {"statement"}
      BY <1>4, <2>7 DEF Blame, TypeOK
    <3>2. Born(t)'
      BY <2>2, <2>3, <2>7, <3>1 DEF Fine, Born
    <3>3. Once(t)' /\ Marked(t)' /\ Sum(t)'
      BY <2>1, <2>2, <2>3, <2>7, <3>1 DEF Once, Excused, Marked, Sum
    <3> QED BY <2>4, <3>2, <3>3 DEF Fine
  <2> QED BY <1>2, <2>6, <2>7
<1> QED BY <1>3, <1>4

-----------------------------------------------------------------------------
(* Theorems                                                                *)

LEMMA StepFine ==
    ASSUME TypeOK, Shape, Next, NEW t \in Tasks, Fine(t) PROVE Fine(t)'
BY AcceptFine, InsertFine, ChargeFine, EndFine, FetchAskFine, FetchSaveFine, RemoveChannelFine,
   CrashFine, ListFine, GiveUpFine, SunoAskFine, SunoItemFine, SunoSaveFine, VideoAskFine,
   RechargeFine, VideoSaveFine, RefundFine, HangFine DEF Next, Poll

LEMMA Invariance == Spec => []Inv
<1>1. Init => Inv
  BY InitTypes, InitFine DEF Inv, Init, Shape, Idle
<1>2. Inv /\ [Next]_vars => Inv'
  <2>1. ASSUME Inv, Next PROVE Inv'
    <3>1. TypeOK' /\ Shape'
      BY <2>1, StepTypes, StepShape DEF Inv
    <3>2. \A t \in Tasks : Fine(t)'
      BY <2>1, StepFine DEF Inv
    <3> QED BY <3>1, <3>2 DEF Inv, Tasks
  <2>2. ASSUME Inv, UNCHANGED vars PROVE Inv'
    BY <2>2 DEF Inv, TypeOK, Shape, Fine, Born, Kind, Copied, Once, Marked, Sum, Excused, Last,
                Amount, Place, vars
  <2> QED BY <2>1, <2>2
<1> QED BY <1>1, <1>2, PTL DEF Spec

\* Every variable keeps its type, whatever fails.
THEOREM TypeCorrect == Spec => []TypeOK
BY Invariance, PTL DEF Inv

\* However many statements fail and however often the process is restarted,
\* the poller refunds a task at most once, unless it is a song whose row was
\* not saved or a video that a user's question has written.
THEOREM RefundOnce == Spec => []RefundedOnce
<1>1. Inv => RefundedOnce
  <2>1. ASSUME Inv, NEW t \in Tasks, refunds[t] > 1 PROVE Excused(t)
    BY <2>1 DEF Inv, Fine, Once, TypeOK
  <2> QED BY <2>1 DEF RefundedOnce, Excused
<1> QED BY <1>1, Invariance, PTL

\* A task that has ended and has nothing to blame costs what its row says,
\* and nothing if it failed.
THEOREM ExactLedger == Spec => []LedgerExact
<1>1. Inv => LedgerExact
  <2>1. ASSUME Inv, NEW t \in Tasks, Finished(t), submit[t] = "done", t \notin poll.todo,
               blame[t] = {}
        PROVE  paid[t] = IF row[t].status = "success" THEN row[t].quota ELSE 0
    <3>1. Place(t) = "out"
      BY <2>1 DEF Place
    <3>2. Last(t) = row[t] /\ Amount(t) = row[t].quota /\ Ended(row[t]) /\ row[t].status # "none"
      BY <2>1, <3>1 DEF Last, Amount, Ended, Finished, Unfinished
    <3>3. refunds[t] = 0 <=> row[t].status = "success"
      BY <2>1, <3>1, <3>2 DEF Inv, Fine, Marked
    <3>4. row[t].quota \in Nat
      BY <2>1 DEF Inv, TypeOK, Row
    <3> QED BY <2>1, <3>2, <3>3, <3>4 DEF Inv, Fine, Sum
  <2> QED BY <2>1 DEF LedgerExact
<1> QED BY <1>1, Invariance, PTL

=============================================================================
