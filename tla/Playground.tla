----------------------------- MODULE Playground -----------------------------
(***************************************************************************)
(* The chat page of the web console: the list of messages, the requests   *)
(* that answer it (a server-sent event stream or one plain response), the *)
(* user's operations on the list, and the copy in the browser's storage.  *)
(*                                                                         *)
(* Nothing ties an answer to the message it was asked for: every network  *)
(* callback works on the LAST message of the list at the time it runs.    *)
(* The model keeps the order of those callbacks, of the zero delay timers *)
(* that save and of the 100 ms timers that send again, and lets the page  *)
(* be reloaded between any two of them. The user acts between any two as  *)
(* well, but not before a zero delay timer that is already set.           *)
(***************************************************************************)
EXTENDS Integers, SequencesExt

CONSTANTS
    MaxRequests,     \* bound: requests sent, over all page loads
    MaxActs,         \* bound: requests and user operations together
    NoStore          \* nothing in the browser's storage

ASSUME PlaygroundAssumption ==
    MaxRequests \in Nat /\ MaxActs \in Nat

VARIABLES
    messages,    \* the list on display
    stored,      \* the list in localStorage, or NoStore
    fresh,       \* the page was opened with nothing stored
    nextId,      \* counter of message ids; it starts again with the page
    request,     \* per request: how it was sent and whether it is open
    sseRef,      \* the open stream the stop button closes, 0 for none
    timers,      \* zero delay timers: lists to save, or the default list
    delayed,     \* 100 ms timers: a request to send again
    editing,     \* the message edited in place, if any
    dialog,      \* the confirmation dialog on display
    page,        \* "up", or "crashed" after an error while rendering
    operations,  \* user operations so far
    detached,    \* history: an operation left the storage on another list
    putBack      \* history: the user made an older message that is being
                 \* generated the last one, by an edit or a deletion

vars == <<messages, stored, fresh, nextId, request, sseRef, timers, delayed,
          editing, dialog, page, operations, detached, putBack>>

Requests == 1..MaxRequests

\* How a request was sent, while it is open, and how it ended: silent if its
\* end left the last answer waiting (Silence).
RequestStates == {"unsent", "stream", "plain", "closed", "silent"}

Generating == {"loading", "incomplete"}
Settled == {"complete", "error"}
FirstId == 4
Imported == -1   \* the request number of messages from a file

(* A message: the request it belongs to, its id, role and status, and the  *)
(* requests whose data it shows.                                           *)
Message == [req : {Imported} \cup 0..MaxRequests, id : Nat,
            role : {"user", "assistant", "system"},
            status : {"none"} \cup Generating \cup Settled,
            from : SUBSET Requests]

ASSUME NoStoreAssumption == NoStore \notin Seq(Message)

Msg(req, id, role, status) ==
    [req |-> req, id |-> id, role |-> role, status |-> status, from |-> {}]

DefaultMessages == <<Msg(0, 2, "user", "none"), Msg(0, 3, "assistant", "none")>>
ImportedMessages ==
    <<Msg(Imported, 2, "user", "none"), Msg(Imported, 3, "assistant", "complete")>>

NoDialog == [kind |-> "none", list |-> <<>>, at |-> 0]
SaveTimer(list) == [kind |-> "save", list |-> list]
DefaultTimer == [kind |-> "default", list |-> <<>>]

IsGenerating(m) == m.status \in Generating
AnyGenerating == \E i \in DOMAIN messages : IsGenerating(messages[i])
LastGenerates == messages # <<>> /\ IsGenerating(Last(messages))
Open(r) == request[r] \in {"stream", "plain"}
Sent == {r \in Requests : request[r] # "unsent"}
Acts == operations + Cardinality(Sent)

TypeOK ==
    /\ messages \in Seq(Message)
    /\ stored = NoStore \/ stored \in Seq(Message)
    /\ fresh \in BOOLEAN /\ detached \in BOOLEAN /\ putBack \in BOOLEAN
    /\ nextId \in Nat
    /\ request \in [Requests -> RequestStates]
    /\ sseRef \in 0..MaxRequests
    /\ timers \in Seq([kind : {"save", "default"}, list : Seq(Message)])
    /\ delayed \in Seq({"resend", "regenerate"})
    /\ editing \in Seq(Message) /\ Len(editing) <= 1
    /\ dialog \in [kind : {"none", "delete", "edit", "import"}, list : Seq(Message),
                   at : Nat]
    /\ page \in {"up", "crashed"}
    /\ operations \in 0..MaxActs

Init ==
    /\ messages = DefaultMessages /\ stored = NoStore /\ fresh = TRUE
    /\ nextId = FirstId
    /\ request = [r \in Requests |-> "unsent"] /\ sseRef = 0
    /\ timers = <<>> /\ delayed = <<>>
    /\ editing = <<>> /\ dialog = NoDialog
    /\ page = "up" /\ operations = 0
    /\ detached = FALSE /\ putBack = FALSE

-----------------------------------------------------------------------------
(* What the callbacks do to a list                                         *)

\* Mutant: text goes to the last answer whether it is being generated or not.
StreamUpdateAny(list, r) ==
    IF list # <<>> /\ Last(list).role = "assistant"
    THEN Append(Front(list), [Last(list) EXCEPT !.status = "incomplete",
                                                !.from = @ \cup {r}])
    ELSE list

\* streamMessageUpdate: text goes to the last message if it is an answer
\* still being generated.
StreamUpdate(list, r) ==
    IF list # <<>> /\ Last(list).role = "assistant" /\ IsGenerating(Last(list))
    THEN Append(Front(list), [Last(list) EXCEPT !.status = "incomplete",
                                                !.from = @ \cup {r}])
    ELSE list

\* Mutant: only an answer that has text already is ended.
CompleteLastStarted(list, status) ==
    IF Last(list).status # "incomplete"
    THEN list
    ELSE Append(Front(list), [Last(list) EXCEPT !.status = status])

\* completeMessage: whatever message is last gets the status.
CompleteLast(list, status) ==
    IF Last(list).status \in Settled
    THEN list
    ELSE Append(Front(list), [Last(list) EXCEPT !.status = status])

\* Mutant: a status that the page does not know.
SettleLastStopped(list) ==
    IF list # <<>> /\ IsGenerating(Last(list))
    THEN Append(Front(list), [Last(list) EXCEPT !.status = "stopped"])
    ELSE list

\* onStopGenerator and the repair of a list when the page is opened.
SettleLast(list) ==
    IF list # <<>> /\ IsGenerating(Last(list))
    THEN Append(Front(list), [Last(list) EXCEPT !.status = "complete"])
    ELSE list

\* Mutant: a plain response goes to the last message, loading or not.
PlainUpdateAny(list, status, from) ==
    IF list # <<>>
    THEN Append(Front(list), [Last(list) EXCEPT !.status = status, !.from = from])
    ELSE list

\* A plain response fills the last message if it is still loading.
PlainUpdate(list, status, from) ==
    IF list # <<>> /\ Last(list).status = "loading"
    THEN Append(Front(list), [Last(list) EXCEPT !.status = status, !.from = from])
    ELSE list

\* The index of the message object m, or of the first message with its id.
IndexOf(list, m) ==
    LET same == {i \in DOMAIN list : list[i] = m}
        sameId == {i \in DOMAIN list : list[i].id = m.id}
    IN  CASE same # {} -> CHOOSE i \in same : TRUE
          [] same = {} /\ sameId # {} -> CHOOSE i \in sameId : \A j \in sameId : i <= j
          [] OTHER -> 0

WithoutId(list, id) ==
    FoldLeft(LAMBDA kept, m : IF m.id = id THEN kept ELSE Append(kept, m), <<>>, list)

\* The list after the deletion of m: a question goes with its answer; any
\* other message goes with every message that has its id.
AfterDelete(list, m) ==
    LET i == IndexOf(list, m)
    IN  CASE i = 0 -> list
          [] i # 0 /\ m.role = "user" /\ i < Len(list)
             /\ list[i + 1].role = "assistant" ->
                SubSeq(list, 1, i - 1) \o SubSeq(list, i + 2, Len(list))
          [] OTHER -> WithoutId(list, m.id)

\* The list before the question that message i answers.
BeforeQuestion(list, i) ==
    LET questions == {j \in 1..i : list[j].role = "user"}
    IN  IF questions = {} THEN list
        ELSE SubSeq(list, 1, (CHOOSE j \in questions : \A k \in questions : k <= j) - 1)

\* Mutant: the list that is saved is the one the update began with.
ShowAndSaveOld(list) ==
    /\ messages' = list
    /\ timers' = Append(timers, SaveTimer(messages))
    /\ detached' = FALSE

\* setMessage(list) and a zero delay timer that saves the same list.
ShowAndSave(list) ==
    /\ messages' = list
    /\ timers' = Append(timers, SaveTimer(list))
    /\ detached' = FALSE

-----------------------------------------------------------------------------
(* Sending                                                                 *)

\* The chat component refuses input while the last message is generating.
CanSend == page = "up" /\ timers = <<>> /\ dialog = NoDialog /\ ~LastGenerates

\* sendRequest for the next request: a plain fetch, a stream, or a stream
\* whose start fails at once and leaves its error in the new message.
Dispatch(r, mode, list, saved) ==
    LET failed == CompleteLast(StreamUpdate(list, r), "error")
    IN  \/ /\ mode \in {"stream", "plain"}
           /\ request' = [request EXCEPT ![r] = mode]
           /\ sseRef' = IF mode = "stream" THEN r ELSE sseRef
           /\ messages' = list
           /\ timers' = timers \o saved
        \/ /\ mode = "failing"
           /\ request' = [request EXCEPT ![r] = "closed"]
           /\ sseRef' = 0
           /\ messages' = failed
           /\ timers' = (timers \o saved) \o <<SaveTimer(failed)>>

NextRequest(r) == Acts < MaxActs /\ r \notin Sent /\ \A q \in 1..(r - 1) : q \in Sent

\* onMessageSend: a question and a loading answer are appended and saved.
\* Three messages are created, and the first of them is not used.
SendMessage(r, mode) ==
    LET question == Msg(r, nextId + 2, "user", "none")
        answer == Msg(r, nextId + 1, "assistant", "loading")
        list == messages \o <<question, answer>>
    IN  /\ NextRequest(r)
        /\ nextId' = nextId + 3
        /\ Dispatch(r, mode, list, <<SaveTimer(list)>>)
        /\ detached' = FALSE

Send(r, mode) ==
    /\ CanSend
    /\ SendMessage(r, mode)
    /\ UNCHANGED <<stored, fresh, delayed, editing, dialog, page, operations, putBack>>

\* The 100 ms timer of a confirmed edit: only the loading answer is added,
\* and the list with it is not saved before the answer is complete.
Regenerate(r, mode) ==
    /\ NextRequest(r)
    /\ nextId' = nextId + 1
    /\ Dispatch(r, mode, Append(messages, Msg(r, nextId, "assistant", "loading")), <<>>)
    /\ detached' = (mode # "failing")

\* A 100 ms timer fires, whatever has happened since it was set.
RunDelayed(r, mode) ==
    /\ page = "up" /\ delayed # <<>>
    /\ \/ Head(delayed) = "resend" /\ SendMessage(r, mode)
       \/ Head(delayed) = "regenerate" /\ Regenerate(r, mode)
    /\ delayed' = Tail(delayed)
    /\ UNCHANGED <<stored, fresh, editing, dialog, page, operations, putBack>>

\* The stop button, shown while the last message is generating.
Stop ==
    /\ page = "up" /\ dialog = NoDialog /\ LastGenerates
    /\ request' = [r \in Requests |-> IF r = sseRef THEN "closed" ELSE request[r]]
    /\ sseRef' = 0
    /\ ShowAndSave(SettleLast(messages))
    /\ UNCHANGED <<stored, fresh, nextId, delayed, editing, dialog, page, operations,
                   putBack>>

-----------------------------------------------------------------------------
(* Network callbacks                                                       *)

\* completeMessage after the text of an event: on an empty list its update
\* function fails and the page goes down; else it saves what it changed.
Finish(list, status) ==
    IF list = <<>>
    THEN page' = "crashed" /\ UNCHANGED <<messages, timers, detached>>
    ELSE /\ messages' = CompleteLast(list, status)
         /\ IF Last(list).status \in Settled
            THEN UNCHANGED <<timers, detached>>
            ELSE /\ timers' = Append(timers, SaveTimer(CompleteLast(list, status)))
                 /\ detached' = FALSE
         /\ UNCHANGED page

StreamOpen(r) == page = "up" /\ request[r] = "stream"

StreamText(r) ==
    /\ StreamOpen(r)
    /\ messages' = StreamUpdate(messages, r)
    /\ UNCHANGED <<stored, fresh, nextId, request, sseRef, timers, delayed, editing,
                   dialog, page, operations, detached, putBack>>

\* [DONE]: the stop button's reference is dropped, whichever stream it is to.
StreamDone(r) ==
    /\ StreamOpen(r)
    /\ request' = [request EXCEPT ![r] = "closed"] /\ sseRef' = 0
    /\ Finish(messages, "complete")
    /\ UNCHANGED <<stored, fresh, nextId, delayed, editing, dialog, operations, putBack>>

\* An event that cannot be parsed: the message is in error, the stream stays.
StreamGarbled(r) ==
    /\ StreamOpen(r)
    /\ Finish(StreamUpdate(messages, r), "error")
    /\ UNCHANGED <<stored, fresh, nextId, request, sseRef, delayed, editing, dialog,
                   operations, putBack>>

\* The error event of the connection.
StreamError(r) ==
    /\ StreamOpen(r)
    /\ request' = [request EXCEPT ![r] = "closed"] /\ sseRef' = 0
    /\ Finish(StreamUpdate(messages, r), "error")
    /\ UNCHANGED <<stored, fresh, nextId, delayed, editing, dialog, operations, putBack>>

\* The connection ends with another status than 200: the reference to
\* another stream is kept.
StreamHttpError(r) ==
    /\ StreamOpen(r)
    /\ request' = [request EXCEPT ![r] = "closed"]
    /\ sseRef' = IF sseRef = r THEN 0 ELSE sseRef
    /\ Finish(StreamUpdate(messages, r), "error")
    /\ UNCHANGED <<stored, fresh, nextId, delayed, editing, dialog, operations, putBack>>

\* A plain response or its failure. Neither is saved.
PlainResponse(r) ==
    /\ page = "up" /\ request[r] = "plain"
    /\ \/ messages' = PlainUpdate(messages, "complete", {r})
       \/ messages' = PlainUpdate(messages, "error", {})
    /\ request' = [request EXCEPT ![r] = "closed"]
    /\ UNCHANGED <<stored, fresh, nextId, sseRef, timers, delayed, editing, dialog,
                   page, operations, detached, putBack>>

\* The last answer waits for request r, or has text of it.
LastAwaits(r) == LastGenerates /\ r \in Last(messages).from \cup {Last(messages).req}

\* No callback has anything to say of the request: a plain response without
\* choices, a stream that ends without [DONE], or nothing that ever arrives.
\* A request is "silent" for good if that leaves the last answer as it is.
Silence(r) ==
    /\ page = "up" /\ Open(r)
    /\ request' = [request EXCEPT ![r] = IF LastAwaits(r) THEN "silent" ELSE "closed"]
    /\ UNCHANGED <<messages, stored, fresh, nextId, sseRef, timers, delayed, editing,
                   dialog, page, operations, detached, putBack>>

Network ==
    \E r \in Requests : \/ StreamText(r) \/ StreamDone(r) \/ StreamGarbled(r)
                        \/ StreamError(r) \/ StreamHttpError(r) \/ PlainResponse(r)
                        \/ Silence(r)

\* The ways request r comes to its end.
Answered(r) ==
    StreamDone(r) \/ StreamError(r) \/ StreamHttpError(r) \/ PlainResponse(r) \/ Silence(r)

-----------------------------------------------------------------------------
(* Operations on the list                                                  *)

Operate ==
    /\ page = "up" /\ dialog = NoDialog /\ timers = <<>>
    /\ Acts < MaxActs /\ operations' = operations + 1

\* The buttons of a message: disabled while any message is generating, and
\* on the message that is being edited.
ActionsEnabled(m) ==
    /\ ~AnyGenerating
    /\ \A e \in Range(editing) : e.id # m.id

\* Retry: the list is cut before the question, and the question is sent
\* again 100 ms later. Nothing is saved before that.
Retry(i) ==
    /\ Operate /\ ActionsEnabled(messages[i])
    /\ LET target == IndexOf(messages, messages[i])
           cut == BeforeQuestion(messages, target)
       IN  /\ messages' = cut
           /\ delayed' = IF cut = messages THEN delayed ELSE Append(delayed, "resend")
    /\ UNCHANGED <<stored, fresh, nextId, request, sseRef, timers, editing, dialog,
                   page, detached, putBack>>

AskDelete(i) ==
    /\ Operate /\ ActionsEnabled(messages[i])
    /\ dialog' = [kind |-> "delete", list |-> <<messages[i]>>, at |-> i]
    /\ UNCHANGED <<messages, stored, fresh, nextId, request, sseRef, timers, delayed,
                   editing, page, detached, putBack>>

\* Ids start again with the page, so that deleting by id can take the newest
\* answer along with an old one and leave an older answer last.
ConfirmDelete ==
    /\ page = "up" /\ dialog.kind = "delete"
    /\ dialog' = NoDialog
    /\ LET rest == AfterDelete(messages, dialog.list[1])
       IN  IF IndexOf(messages, dialog.list[1]) = 0
           THEN UNCHANGED <<messages, timers, detached, putBack>>
           ELSE /\ ShowAndSave(rest)
                /\ putBack' = (putBack \/ (SettleLast(rest) # rest
                                           /\ Last(rest) # Last(messages)))
    /\ UNCHANGED <<stored, fresh, nextId, request, sseRef, delayed, editing, page,
                   operations>>

\* The role of a settled answer is switched, by its id.
ToggleRole(i) ==
    LET m == messages[i]
        other == IF m.role = "assistant" THEN "system" ELSE "assistant"
    IN  /\ Operate /\ ActionsEnabled(m) /\ m.role # "user"
        /\ ShowAndSave([j \in DOMAIN messages |->
               IF messages[j].id = m.id /\ messages[j].role # "user"
               THEN [messages[j] EXCEPT !.role = other] ELSE messages[j]])
        /\ UNCHANGED <<stored, fresh, nextId, request, sseRef, delayed, editing, dialog,
                       page, putBack>>

StartEdit(i) ==
    /\ Operate /\ ActionsEnabled(messages[i])
    /\ editing' = <<messages[i]>>
    /\ UNCHANGED <<messages, stored, fresh, nextId, request, sseRef, timers, delayed,
                   dialog, page, detached, putBack>>

\* The edited text replaces the text of every message with that id.
Edited(list, id) ==
    [i \in DOMAIN list |-> IF list[i].id = id THEN [list[i] EXCEPT !.from = {}]
                                              ELSE list[i]]

\* Saving an edit. When the message is a question that has an answer, a
\* dialog asks whether to generate again, and keeps the list of this moment.
SaveEdit ==
    /\ page = "up" /\ dialog = NoDialog /\ editing # <<>>
    /\ LET at == IndexOf(messages, editing[1])
           list == Edited(messages, editing[1].id)
       IN  /\ at # 0
           /\ IF /\ messages[at].role = "user" /\ at < Len(messages)
                 /\ messages[at + 1].role = "assistant"
              THEN /\ dialog' = [kind |-> "edit", list |-> list, at |-> at]
                   /\ UNCHANGED <<messages, timers, detached>>
              ELSE ShowAndSave(list) /\ UNCHANGED dialog
    /\ editing' = <<>>
    /\ UNCHANGED <<stored, fresh, nextId, request, sseRef, delayed, page, operations,
                   putBack>>

\* "Regenerate": the list is cut after the question and sent 100 ms later.
ConfirmEdit ==
    /\ page = "up" /\ dialog.kind = "edit"
    /\ ShowAndSave(SubSeq(dialog.list, 1, dialog.at))
    /\ delayed' = Append(delayed, "regenerate")
    /\ dialog' = NoDialog
    /\ UNCHANGED <<stored, fresh, nextId, request, sseRef, editing, page, operations,
                   putBack>>

\* "Only save": the list of the moment the dialog opened comes back, without
\* what the network has written since.
KeepEdit ==
    /\ page = "up" /\ dialog.kind = "edit"
    /\ ShowAndSave(dialog.list)
    /\ putBack' = (putBack \/ SettleLast(dialog.list) # dialog.list)
    /\ dialog' = NoDialog
    /\ UNCHANGED <<stored, fresh, nextId, request, sseRef, delayed, editing, page,
                   operations>>

CancelEdit ==
    /\ page = "up" /\ dialog = NoDialog /\ editing # <<>>
    /\ editing' = <<>>
    /\ UNCHANGED <<messages, stored, fresh, nextId, request, sseRef, timers, delayed,
                   dialog, page, operations, detached, putBack>>

\* Clearing the conversation does not close the stream that answers it.
Clear ==
    /\ Operate
    /\ ShowAndSave(<<>>)
    /\ UNCHANGED <<stored, fresh, nextId, request, sseRef, delayed, editing, dialog,
                   page, putBack>>

-----------------------------------------------------------------------------
(* Import, reset, language, reload, timers                                 *)

\* The file's messages are in the storage before the user has confirmed.
PickImport ==
    /\ Operate
    /\ stored' = ImportedMessages
    /\ dialog' = [kind |-> "import", list |-> ImportedMessages, at |-> 0]
    /\ detached' = TRUE
    /\ UNCHANGED <<messages, fresh, nextId, request, sseRef, timers, delayed, editing,
                   page, putBack>>

ConfirmImport ==
    /\ page = "up" /\ dialog.kind = "import"
    /\ messages' = dialog.list
    /\ detached' = (stored # dialog.list \/ timers # <<>>)
    /\ dialog' = NoDialog
    /\ UNCHANGED <<stored, fresh, nextId, request, sseRef, timers, delayed, editing, page,
                   operations, putBack>>

DismissDialog ==
    /\ page = "up" /\ dialog.kind \in {"delete", "import"}
    /\ dialog' = NoDialog
    /\ UNCHANGED <<messages, stored, fresh, nextId, request, sseRef, timers, delayed,
                   editing, page, operations, detached, putBack>>

\* Resetting the configuration clears the stored messages, with or without
\* those on display.
ResetConfig(resetMessages) ==
    /\ Operate
    /\ stored' = NoStore
    /\ detached' = TRUE
    /\ IF resetMessages
       THEN messages' = <<>> /\ timers' = Append(timers, DefaultTimer)
       ELSE UNCHANGED <<messages, timers>>
    /\ UNCHANGED <<fresh, nextId, request, sseRef, delayed, editing, dialog, page,
                   putBack>>

\* A change of language shows the default messages again on a page that was
\* opened with nothing stored.
ChangeLanguage ==
    /\ Operate
    /\ messages' = IF fresh THEN DefaultMessages ELSE messages
    /\ detached' = IF fresh THEN TRUE ELSE detached
    /\ UNCHANGED <<stored, fresh, nextId, request, sseRef, timers, delayed, editing,
                   dialog, page, putBack>>

\* Two messages with the ids of the default ones: if their text is that of the
\* Chinese default messages, or was, the page takes them out of the storage.
DefaultIds(list) == Len(list) = 2 /\ list[1].id = 2 /\ list[2].id = 3

\* The page is left and opened again: timers, requests and ids are gone, and
\* an answer stored while it was generated is repaired and saved.
Reload(removed) ==
    /\ Acts < MaxActs /\ operations' = operations + 1
    /\ removed => stored # NoStore /\ DefaultIds(stored)
    /\ stored' = IF removed THEN NoStore ELSE stored
    /\ page' = "up" /\ fresh' = (stored' = NoStore)
    /\ messages' = IF fresh' THEN DefaultMessages ELSE SettleLast(stored)
    /\ timers' = IF fresh' \/ messages' = stored THEN <<>> ELSE <<SaveTimer(messages')>>
    /\ request' = [r \in Requests |-> IF r \in Sent THEN "closed" ELSE "unsent"]
    /\ sseRef' = 0 /\ delayed' = <<>> /\ editing' = <<>> /\ dialog' = NoDialog
    /\ nextId' = FirstId /\ detached' = FALSE
    /\ UNCHANGED putBack

RunTimer ==
    /\ timers # <<>>
    /\ timers' = Tail(timers)
    /\ IF Head(timers).kind = "save"
       THEN stored' = Head(timers).list /\ UNCHANGED <<messages, detached>>
       ELSE /\ messages' = IF page = "up" THEN DefaultMessages ELSE messages
            /\ detached' = TRUE /\ UNCHANGED stored
    /\ UNCHANGED <<fresh, nextId, request, sseRef, delayed, editing, dialog, page,
                   operations, putBack>>

-----------------------------------------------------------------------------
Modes == {"stream", "plain", "failing"}

Next ==
    \/ \E r \in Requests, mode \in Modes : Send(r, mode) \/ RunDelayed(r, mode)
    \/ Network \/ Stop \/ RunTimer
    \/ \E i \in DOMAIN messages :
          Retry(i) \/ AskDelete(i) \/ ToggleRole(i) \/ StartEdit(i)
    \/ ConfirmDelete \/ SaveEdit \/ ConfirmEdit \/ KeepEdit \/ CancelEdit \/ Clear
    \/ PickImport \/ ConfirmImport \/ DismissDialog \/ ChangeLanguage
    \/ \E b \in BOOLEAN : ResetConfig(b) \/ Reload(b)

Spec == Init /\ [][Next]_vars

\* What is under way is answered, fails, ends its stream or falls silent, one
\* request after the other; a stream does not send text for ever.
Fairness == WF_vars(\E r \in Requests : Answered(r))

FairSpec == Spec /\ Fairness

-----------------------------------------------------------------------------
(* Properties                                                              *)

\* A network callback never touches an answer that is complete or in error,
\* however many requests are still open and whatever the user did to the list:
\* a step that changes a settled message, adds one or removes one is the user's.
SettledIsFinal ==
    [][\/ Len(messages') # Len(messages)
       \/ \E i \in DOMAIN messages :
             messages[i].status \in Settled /\ messages'[i] # messages[i]
       => ~Network]_vars

\* The data of a request never shows in a message of an earlier request: a
\* late answer can be shown under a later question, but no operation on the
\* list (retry, delete, edit, import, reload) lets it reach back; unless the
\* user made an older answer that is being generated the last one (putBack).
NoEarlierAnswer ==
    ~putBack => \A i \in DOMAIN messages : \A r \in messages[i].from : r <= messages[i].req

\* What a reload would show: the same messages in the same order.
Shown(list) == [i \in DOMAIN list |-> <<list[i].req, list[i].role, list[i].id>>]
Quiet == /\ timers = <<>> /\ delayed = <<>> /\ dialog = NoDialog
         /\ \A r \in Requests : ~Open(r)

\* When nothing is pending, the storage has the messages on display, in their
\* order, so that a reload loses none (but the default ones, Reload) and brings
\* none back; except after the operations that write the storage or the display
\* alone (detached). The text of a plain answer is not saved, nor is it compared.
StoredAgrees ==
    Quiet /\ ~detached /\ page = "up" =>
        Shown(messages) = Shown(IF stored = NoStore THEN DefaultMessages ELSE stored)

\* An answer is being generated at the end of the list, and neither its own
\* request nor one that wrote to it has ended without a word.
Waiting == /\ LastGenerates /\ ~putBack
           /\ ~\E r \in Requests : LastAwaits(r) /\ request[r] = "silent"

\* Every answer being generated at the end of the list comes to an end,
\* whichever of the open requests ends first and whatever the user does
\* meanwhile. Two cases are left out. A request that ends without a word
\* (silent) leaves its answer loading until it is stopped: the page has no
\* handler for that. The same holds of a late stream that wrote to the answer
\* of a plain request, whose response then finds it no longer loading. And the
\* user can make an older answer the last one, by saving an edit begun before
\* it or by deleting what followed it (putBack).
AnswerSettles == []<>~Waiting

=============================================================================
