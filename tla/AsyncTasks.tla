----------------------------- MODULE AsyncTasks -----------------------------
(***************************************************************************)
(* Tasks that a provider works on after the request that asked for them   *)
(* was answered: songs (Suno) and videos. The request inserts a row and   *)
(* charges the price; one poller asks the provider about the unfinished   *)
(* rows, writes what it hears and gives the price of a failed task back;  *)
(* for Gemini videos the user's own question about a task writes the row  *)
(* as well. The row and the account are different statements everywhere.  *)
(*                                                                         *)
(* The poller works on the copies of rows it has listed, one group of the *)
(* same platform after the other. The three kinds of task differ in how   *)
(* money follows the row: "suno" refunds before it saves, a video after;   *)
(* "doubao" may be charged again by tokens; "gemini" has a second writer.  *)
(***************************************************************************)
EXTENDS Integers, FiniteSetsExt

CONSTANTS
    N,            \* number of tasks; a task is its row id
    Limits,       \* rows the poller may list at a time (TaskQueryLimit)
    Price,        \* what a task costs when it is asked for
    Actuals,      \* prices by tokens; 0 stands for none reported
    MaxFaults,    \* bound: failing statements, useless answers and crashes
    MaxFetches    \* bound: questions of users that reach the provider

ASSUME AsyncTasksAssumption ==
    /\ N \in Nat \ {0} /\ Limits \subseteq Nat \ {0} /\ Price \in Nat \ {0}
    /\ Actuals \subseteq Nat /\ MaxFaults \in Nat /\ MaxFetches \in Nat

VARIABLES
    limit,       \* rows the poller lists at a time
    kind,        \* what each task is; "unnamed" if the provider gave no id
    upstream,    \* what the provider knows of each task
    actual,      \* the price by tokens the provider will report
    row,         \* the row of each task in the database
    submit,      \* where the request for each task is
    poll,        \* the poller: its copies, answers and place
    asked,       \* the answer a user's question is about to write
    fetches,     \* questions so far
    channel,     \* the channel of the tasks exists
    paid,        \* what the user has paid for each task, net
    refunds,     \* refunds of each task as failed
    faults,      \* faults so far
    blame        \* history: what has happened to each task

vars == <<limit, kind, upstream, actual, row, submit, poll, asked, fetches, channel,
          paid, refunds, faults, blame>>

Tasks == 1..N
Kinds == {"suno", "doubao", "gemini", "unnamed"}
Known == {"running", "success", "failure"}

(* full: the progress is "100%".                                           *)
Row == [status : {"none"} \cup Known, full : BOOLEAN, quota : Nat]
NoRow == [status |-> "none", full |-> FALSE, quota |-> 0]

Idle == [at |-> "idle", todo |-> {}, items |-> {}, task |-> 0, err |-> FALSE,
         owed |-> FALSE, copy |-> [t \in Tasks |-> NoRow],
         answer |-> [t \in Tasks |-> "none"]]

Pollers == [at : {"idle", "choose", "suno", "sunoSave", "recharge", "save", "refund", "hung"},
            todo : SUBSET Tasks, items : SUBSET Tasks, task : 0..N,
            err : BOOLEAN, owed : BOOLEAN, copy : [Tasks -> Row],
            answer : [Tasks -> {"none", "reason"} \cup Known]]

Unfinished(t) == row[t].status = "running" /\ ~row[t].full
Finished(t) == row[t].status # "none" /\ ~Unfinished(t)

TypeOK ==
    /\ limit \in Limits /\ kind \in [Tasks -> Kinds]
    /\ upstream \in [Tasks -> {"none"} \cup Known]
    /\ actual \in [Tasks -> Nat]
    /\ row \in [Tasks -> Row]
    /\ submit \in [Tasks -> {"idle", "accepted", "inserted", "done", "lost"}]
    /\ poll \in Pollers
    /\ asked \in [Tasks -> {"none"} \cup Known]
    /\ fetches \in 0..MaxFetches /\ faults \in 0..MaxFaults
    /\ channel \in BOOLEAN
    /\ paid \in [Tasks -> Int] /\ refunds \in [Tasks -> Nat]
    /\ blame \in [Tasks -> SUBSET {"statement", "crash", "fetch", "bulk"}]

Init ==
    /\ limit \in Limits /\ kind \in [Tasks -> Kinds]
    /\ upstream = [t \in Tasks |-> "none"] /\ actual = [t \in Tasks |-> 0]
    /\ row = [t \in Tasks |-> NoRow]
    /\ submit = [t \in Tasks |-> "idle"]
    /\ poll = Idle
    /\ asked = [t \in Tasks |-> "none"] /\ fetches = 0
    /\ channel = TRUE
    /\ paid = [t \in Tasks |-> 0] /\ refunds = [t \in Tasks |-> 0]
    /\ faults = 0
    /\ blame = [t \in Tasks |-> {}]

Fault == faults < MaxFaults /\ faults' = faults + 1
Blame(t, cause) == blame' = [blame EXCEPT ![t] = @ \cup {cause}]
Pay(t, amount) == paid' = [paid EXCEPT ![t] = @ + amount]

\* A failing statement about task t: nothing is written.
Fails(t) == Fault /\ Blame(t, "statement")

-----------------------------------------------------------------------------
(* The request that asks for a task                                        *)

\* The provider accepts the task and its id is sent to the user.
Accept(t) ==
    /\ submit[t] = "idle" /\ channel
    /\ submit' = [submit EXCEPT ![t] = "accepted"]
    /\ upstream' = [upstream EXCEPT ![t] = "running"]
    /\ UNCHANGED <<limit, kind, actual, row, poll, asked, fetches, channel, paid, refunds,
                   faults, blame>>

\* The row is inserted; when that fails nothing is charged, and the request
\* is tried again from the start.
Insert(t) ==
    /\ submit[t] = "accepted"
    /\ \/ /\ row' = [row EXCEPT ![t] =
                        [status |-> "running", full |-> FALSE, quota |-> Price]]
          /\ submit' = [submit EXCEPT ![t] = "inserted"]
          /\ UNCHANGED <<upstream, actual, faults>>
       \/ /\ Fault
          /\ submit' = [submit EXCEPT ![t] = "idle"]
          /\ upstream' = [upstream EXCEPT ![t] = "none"]
          /\ actual' = [actual EXCEPT ![t] = 0]
          /\ UNCHANGED row
    /\ UNCHANGED <<limit, kind, poll, asked, fetches, channel, paid, refunds, blame>>

\* The deferred charge; its failure is only logged.
Charge(t) ==
    /\ submit[t] = "inserted"
    /\ submit' = [submit EXCEPT ![t] = "done"]
    /\ \/ Pay(t, Price) /\ UNCHANGED <<faults, blame>>
       \/ Fails(t) /\ UNCHANGED paid
    /\ UNCHANGED <<limit, kind, upstream, actual, row, poll, asked, fetches, channel, refunds>>

\* The provider ends a task, with a price by tokens for some videos.
End(t) ==
    /\ upstream[t] = "running"
    /\ \/ upstream' = [upstream EXCEPT ![t] = "failure"] /\ UNCHANGED actual
       \/ /\ upstream' = [upstream EXCEPT ![t] = "success"]
          /\ IF kind[t] = "doubao"
             THEN \E a \in Actuals : actual' = [actual EXCEPT ![t] = a]
             ELSE UNCHANGED actual
    /\ UNCHANGED <<limit, kind, row, submit, poll, asked, fetches, channel, paid, refunds,
                   faults, blame>>

\* An administrator deletes the channel.
RemoveChannel ==
    /\ channel /\ channel' = FALSE
    /\ UNCHANGED <<limit, kind, upstream, actual, row, submit, poll, asked, fetches, paid,
                   refunds, faults, blame>>

-----------------------------------------------------------------------------
(* The poller                                                              *)

PollOnly == UNCHANGED <<limit, kind, upstream, actual, submit, asked, fetches, channel>>

\* The first unfinished rows by id.
Listed == {t \in Tasks : /\ Unfinished(t)
                         /\ Cardinality({u \in 1..t : Unfinished(u)}) <= limit}

PollList ==
    /\ poll = Idle /\ Listed # {}
    /\ poll' = [Idle EXCEPT !.at = "choose", !.todo = Listed,
                            !.copy = [t \in Tasks |-> IF t \in Listed THEN row[t]
                                                                      ELSE NoRow]]
    /\ PollOnly /\ UNCHANGED <<row, paid, refunds, faults, blame>>

Group(k) == {t \in poll.todo : kind[t] = k}

\* The poller goes on without the tasks ts.
Without(ts) ==
    IF poll.todo \subseteq ts THEN Idle
    ELSE [Idle EXCEPT !.at = "choose", !.todo = poll.todo \ ts,
                      !.copy = [t \in Tasks |-> IF t \in ts THEN NoRow ELSE poll.copy[t]]]

\* Mutant: the tasks of a channel that is gone are passed over.
PollGiveUpPass(k) ==
    /\ poll.at = "choose" /\ Group(k) # {}
    /\ k = "unnamed" \/ ~channel
    /\ poll' = Without(Group(k))
    /\ PollOnly /\ UNCHANGED <<row, paid, refunds, faults, blame>>

\* Tasks without an id, and all tasks of a channel that is gone, are marked
\* as failed in one statement. Nothing is given back.
PollGiveUp(k) ==
    /\ poll.at = "choose" /\ Group(k) # {}
    /\ k = "unnamed" \/ ~channel
    /\ \/ /\ row' = [t \in Tasks |-> IF t \in Group(k)
                        THEN [row[t] EXCEPT !.status = "failure", !.full = TRUE]
                        ELSE row[t]]
          /\ blame' = [t \in Tasks |-> IF t \in Group(k) THEN blame[t] \cup {"bulk"}
                                                         ELSE blame[t]]
          /\ UNCHANGED faults
       \/ Fault /\ UNCHANGED <<row, blame>>
    /\ poll' = Without(Group(k))
    /\ PollOnly /\ UNCHANGED <<paid, refunds>>

\* The answer speaks of the songs heard; it may give a reason for a failure
\* under another status than failure.
HearOf(heard) ==
    \E answer \in [heard -> {"reason"} \cup Known] :
        /\ \A t \in heard :
              answer[t] \in {upstream[t]} \cup
                           (IF upstream[t] = "failure" THEN {"reason"} ELSE {})
        /\ poll' = [poll EXCEPT !.at = "suno", !.items = heard,
                       !.answer = [t \in Tasks |-> IF t \in heard THEN answer[t]
                                                               ELSE "none"]]

\* One question about all songs, given up after 15 seconds.  That the answer
\* leaves songs out is one of the faults.
PollSunoAsk ==
    /\ poll.at = "choose" /\ Group("suno") # {} /\ channel
    /\ \/ HearOf(Group("suno")) /\ UNCHANGED faults
       \/ Fault /\ \E heard \in SUBSET Group("suno") : heard # {} /\ HearOf(heard)
       \/ Fault /\ poll' = Without(Group("suno"))
    /\ PollOnly /\ UNCHANGED <<row, paid, refunds, blame>>

\* The copy of a song after its answer.
SunoCopy(t) ==
    CASE poll.answer[t] = "running" -> poll.copy[t]
      [] poll.answer[t] = "reason" -> [poll.copy[t] EXCEPT !.full = TRUE]
      [] OTHER -> [poll.copy[t] EXCEPT !.status = poll.answer[t], !.full = TRUE]

\* The refund of a failed song, before its row is saved. It is left out when
\* the error variable still holds the failure to save an earlier song.
SunoRefund(t) ==
    IF poll.answer[t] \notin {"failure", "reason"}
    THEN UNCHANGED <<paid, refunds, faults, blame>>
    ELSE IF poll.err
    THEN Blame(t, "statement") /\ UNCHANGED <<paid, refunds, faults>>
    ELSE \/ /\ Pay(t, -poll.copy[t].quota)
            /\ refunds' = [refunds EXCEPT ![t] = @ + 1]
            /\ UNCHANGED <<faults, blame>>
         \/ Fails(t) /\ UNCHANGED <<paid, refunds>>

\* One answer about a song; when it says nothing new the row is not saved.
PollSunoItem(t) ==
    /\ poll.at = "suno" /\ t \in poll.items
    /\ \/ /\ SunoRefund(t)
          /\ poll' = [poll EXCEPT !.at = "sunoSave", !.task = t,
                                  !.copy[t] = SunoCopy(t)]
       \/ /\ poll.answer[t] = "running"
          /\ poll' = IF poll.items = {t} THEN Without(Group("suno"))
                     ELSE [poll EXCEPT !.items = @ \ {t}]
          /\ UNCHANGED <<paid, refunds, faults, blame>>
    /\ PollOnly /\ UNCHANGED row

PollSunoSave ==
    LET t == poll.task
        Go(failed) == poll' = IF poll.items = {t} THEN Without(Group("suno"))
                              ELSE [poll EXCEPT !.at = "suno", !.items = @ \ {t},
                                                !.task = 0, !.err = failed]
    IN  /\ poll.at = "sunoSave"
        /\ \/ /\ row' = [row EXCEPT ![t] = poll.copy[t]]
              /\ Go(FALSE) /\ UNCHANGED <<faults, blame>>
           \/ Fails(t) /\ Go(TRUE) /\ UNCHANGED row
        /\ PollOnly /\ UNCHANGED <<paid, refunds>>

\* One question about a video, in the order of their ids. An answer without
\* a status is taken as a failure; one that cannot be read changes nothing.
\* The refund is owed unless the row was in failure before.
PollVideoAsk(t) ==
    LET Take(answer) ==
            poll' = [poll EXCEPT
                !.at = IF answer = "success" /\ actual[t] \notin {0, poll.copy[t].quota}
                       THEN "recharge" ELSE "save",
                !.task = t,
                !.owed = answer = "failure" /\ poll.copy[t].status # "failure",
                !.copy[t] = [@ EXCEPT !.status = answer, !.full = answer # "running"]]
    IN  /\ poll.at = "choose" /\ t \in poll.todo /\ channel
        /\ kind[t] \in {"doubao", "gemini"} /\ t = Min(Group(kind[t]))
        /\ \/ Take(upstream[t]) /\ UNCHANGED faults
           \/ Fault /\ (Take("failure") \/ poll' = Without({t}))
        /\ PollOnly /\ UNCHANGED <<row, paid, refunds, blame>>

\* The question about a video has no limit of time, as shipped: when it is not
\* answered the one poller waits for good.
PollHang ==
    /\ poll.at = "choose" /\ channel
    /\ Group("doubao") \cup Group("gemini") # {}
    /\ poll' = [poll EXCEPT !.at = "hung"]
    /\ PollOnly /\ UNCHANGED <<row, paid, refunds, faults, blame>>

\* Mutant: the whole price by tokens is charged.
PollRechargeAll ==
    LET t == poll.task
    IN  /\ poll.at = "recharge"
        /\ Pay(t, actual[t])
        /\ poll' = [poll EXCEPT !.at = "save", !.copy[t].quota = actual[t]]
        /\ PollOnly /\ UNCHANGED <<row, refunds, faults, blame>>

\* The difference to the price by tokens, before the row is saved.
PollRecharge ==
    LET t == poll.task
    IN  /\ poll.at = "recharge"
        /\ \/ /\ Pay(t, actual[t] - poll.copy[t].quota)
              /\ poll' = [poll EXCEPT !.at = "save", !.copy[t].quota = actual[t]]
              /\ UNCHANGED faults
           \/ Fault /\ poll' = [poll EXCEPT !.at = "save"] /\ UNCHANGED paid
        /\ PollOnly /\ UNCHANGED <<row, refunds, blame>>

\* Mutant: the refund follows when the row could not be saved, too.
PollVideoSaveRefund ==
    LET t == poll.task
        next == IF poll.owed THEN [poll EXCEPT !.at = "refund"] ELSE Without({t})
    IN  /\ poll.at = "save" /\ poll' = next
        /\ \/ row' = [row EXCEPT ![t] = poll.copy[t]] /\ UNCHANGED <<faults, blame>>
           \/ Fails(t) /\ UNCHANGED row
        /\ PollOnly /\ UNCHANGED <<paid, refunds>>

\* No refund follows when the row could not be saved.
PollVideoSave ==
    LET t == poll.task
    IN  /\ poll.at = "save"
        /\ \/ /\ row' = [row EXCEPT ![t] = poll.copy[t]]
              /\ poll' = IF poll.owed THEN [poll EXCEPT !.at = "refund"] ELSE Without({t})
              /\ UNCHANGED <<faults, blame>>
           \/ Fails(t) /\ poll' = Without({t}) /\ UNCHANGED row
        /\ PollOnly /\ UNCHANGED <<paid, refunds>>

PollRefund ==
    LET t == poll.task
    IN  /\ poll.at = "refund"
        /\ \/ /\ Pay(t, -poll.copy[t].quota)
              /\ refunds' = [refunds EXCEPT ![t] = @ + 1]
              /\ UNCHANGED <<faults, blame>>
           \/ Fails(t) /\ UNCHANGED <<paid, refunds>>
        /\ poll' = Without({t})
        /\ PollOnly /\ UNCHANGED row

Poll == \/ PollList \/ PollSunoAsk \/ PollSunoSave \/ PollHang
        \/ PollRecharge \/ PollVideoSave \/ PollRefund
        \/ \E k \in Kinds : PollGiveUp(k)
        \/ \E t \in Tasks : PollSunoItem(t) \/ PollVideoAsk(t)

-----------------------------------------------------------------------------
(* A user asks about a Gemini video                                        *)

FetchAsk(t) ==
    /\ kind[t] = "gemini" /\ row[t].status # "none" /\ channel
    /\ asked[t] = "none" /\ fetches < MaxFetches
    /\ fetches' = fetches + 1
    /\ asked' = [asked EXCEPT ![t] = upstream[t]]
    /\ UNCHANGED <<limit, kind, upstream, actual, row, submit, poll, channel, paid, refunds,
                   faults, blame>>

\* The answer is written over whatever the row says by now, and a failure is
\* not refunded here. An error of the statement is ignored. The whole row is
\* saved as it was read; but an answer always has a status and a progress, and
\* the quota of a row of this kind never changes.
FetchSave(t) ==
    /\ asked[t] # "none"
    /\ asked' = [asked EXCEPT ![t] = "none"]
    /\ \/ /\ row' = [row EXCEPT ![t].status = asked[t], ![t].full = asked[t] # "running"]
          /\ IF asked[t] # row[t].status /\ (Finished(t) \/ asked[t] = "failure")
             THEN Blame(t, "fetch") ELSE UNCHANGED blame
       \/ UNCHANGED <<row, blame>>
    /\ UNCHANGED <<limit, kind, upstream, actual, submit, poll, fetches, channel, paid,
                   refunds, faults>>

\* The process stops and is started again.
Crash ==
    /\ Fault
    /\ poll' = Idle
    /\ asked' = [t \in Tasks |-> "none"]
    /\ submit' = [t \in Tasks |-> IF submit[t] \in {"accepted", "inserted"}
                                  THEN "lost" ELSE submit[t]]
    /\ blame' = [t \in Tasks |-> IF t = poll.task \/ submit[t] = "inserted"
                                 THEN blame[t] \cup {"crash"} ELSE blame[t]]
    /\ UNCHANGED <<limit, kind, upstream, actual, row, fetches, channel, paid, refunds>>

-----------------------------------------------------------------------------
Next == \/ \E t \in Tasks : \/ Accept(t) \/ Insert(t) \/ Charge(t) \/ End(t)
                            \/ FetchAsk(t) \/ FetchSave(t)
        \/ Poll \/ RemoveChannel \/ Crash

Spec == Init /\ [][Next]_vars

\* The poller runs every 15 seconds if it is not waiting for a provider, and
\* the provider ends every task.
Fairness == WF_vars(Poll) /\ \A t \in Tasks : WF_vars(End(t))

FairSpec == Spec /\ Fairness

-----------------------------------------------------------------------------
(* Properties                                                              *)

\* When a task has ended and nothing about it is under way, the user has paid
\* nothing for a failure and the amount in the row for a success, whatever
\* the poller did before the charge arrived and however often it read the
\* task; unless something is to blame: a statement about the task failed,
\* the process stopped in the middle of it, it was given up, or a user's
\* question wrote the row.
LedgerExact ==
    \A t \in Tasks :
        Finished(t) /\ submit[t] = "done" /\ t \notin poll.todo /\ blame[t] = {} =>
            paid[t] = IF row[t].status = "success" THEN row[t].quota ELSE 0

\* A failed task is given back at most once, whatever statements fail and
\* whenever the process stops; except that a song whose row was not saved is
\* refunded again, and so is a video that a user's question has revived.
RefundedOnce ==
    \A t \in Tasks :
        refunds[t] > 1 => \/ "fetch" \in blame[t]
                          \/ kind[t] = "suno" /\ blame[t] \cap {"statement", "crash"} # {}

\* A row that is not finished is finished at last, behind any number of
\* older rows, with or without its channel, unless a provider of videos never
\* answers, which stops the poller for all rows.
TaskEnds == \A t \in Tasks : Unfinished(t) ~> Finished(t) \/ poll.at = "hung"

\* A video is not given back twice: the poller remembers the status before
\* the answer to prevent it.
VideoRefundedOnce == \A t \in Tasks : kind[t] # "suno" => refunds[t] <= 1

=============================================================================
