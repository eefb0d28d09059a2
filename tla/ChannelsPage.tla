---------------------------- MODULE ChannelsPage ----------------------------
(***************************************************************************)
(* The channels page of the console: the table, whose list comes page by   *)
(* page from plain and from keyword requests, and the dialog that tests a  *)
(* channel's models, one by one or in batches. Every callback works with   *)
(* the values of the rendering it was made in (its closure) and with a few *)
(* references that are always current.                                     *)
(*                                                                         *)
(* A list is known by the number of the request that brought it and its    *)
(* page; the channel of the same number stands for those the page lists.   *)
(* Some names are longer than the other modules' (PageInit, pageVars), so  *)
(* that a module about the console can extend Playground as well.          *)
(***************************************************************************)
EXTENDS Integers, SequencesExt

CONSTANTS
    Pages,        \* pages 1..Pages of the table
    Models,       \* a channel has models 1..Models
    Limit,        \* concurrencyLimit
    MaxUserActs   \* bound: what the user does

ASSUME ChannelsPageAssumption ==
    {Pages, Models, Limit, MaxUserActs} \subseteq Nat \ {0}

VARIABLES
    \* the table
    keyword,      \* the search form holds a keyword
    activePage,   \* 0 for something that is no number
    shown,        \* channels: the list on display
    counter,      \* requestCounter: the latest plain request
    asks,         \* requests for a list without an answer
    managing,     \* changes to a channel without an answer: the lists of their closures
    loading, searching,
    \* the dialog
    open, channel,    \* showModelTestModal, currentTestChannel
    isBatchTesting,
    shouldStop,       \* shouldStopBatchTestingRef
    batches,          \* the calls of batchTestModels
    singles,          \* calls of testChannel from a button without an answer
    testing,          \* testingModels
    results,          \* modelTestResults
    \* history
    acts,         \* what the user has done
    last,         \* the latest request for a list
    crossed,      \* a keyword request was under way together with another
    olderList,    \* a closure has put an older list back
    lost,         \* the latest request brought no list
    broken        \* the request that was to stop the spinning ended in an error

tableVars == <<keyword, activePage, shown, counter, asks, managing, loading, searching>>
dialogVars == <<open, channel, isBatchTesting, shouldStop, batches, singles, testing, results>>
historyVars == <<last, crossed, olderList, lost, broken>>
pageVars == <<tableVars, dialogVars, historyVars, acts>>

List == [no : 0..MaxUserActs + 1, page : 1..Pages]
NoChannel == 0
Model == 1..Models

\* What a request for a list is: a plain one, one of either kind, or one of
\* each calling the other.
Kinds == {"load", "search", "loadSearch", "searchLoad"}
Plain(kind) == kind \in {"load", "searchLoad"}

\* The batch loop is waiting for a chunk or a timer, or is over.
Phases == {"chunk", "pause", "settling", "over"}

\* A call of batchTestModels: its channel, the list of its closure, how many
\* models it tests, the next one to send and those without an answer.
Batch == [of : 1..Pages, list : List, size : Model, next : 1..Models + Limit,
          going : SUBSET Model, phase : Phases]

PageTypeOK ==
    /\ keyword \in BOOLEAN /\ loading \in BOOLEAN /\ searching \in BOOLEAN
    /\ activePage \in 0..Pages /\ shown \in List /\ counter \in 1..MaxUserActs + 1
    /\ asks \subseteq [no : 1..MaxUserActs + 1, page : 0..Pages, kind : Kinds]
    /\ managing \subseteq List
    /\ open \in BOOLEAN /\ channel \in {NoChannel} \cup 1..Pages
    /\ isBatchTesting \in BOOLEAN /\ shouldStop \in BOOLEAN
    /\ batches \in Seq(Batch)
    /\ singles \subseteq [of : 1..Pages, model : Model, seen : BOOLEAN, list : List]
    /\ testing \subseteq Model
    /\ results \in [(1..Pages) \X Model -> {"none", "passed", "failed"}]
    /\ acts \in 0..MaxUserActs /\ last \in List
    /\ {crossed, olderList, lost, broken} \subseteq BOOLEAN

-----------------------------------------------------------------------------
(* Asking for a list                                                       *)

SendAsk(page, kind) ==
    LET no == last.no + 1
        ask == [no |-> no, page |-> page, kind |-> kind]
    IN  /\ asks' = asks \cup {ask}
        /\ counter' = IF Plain(kind) THEN no ELSE counter
        /\ loading' = (loading \/ kind # "search")
        /\ searching' = (searching \/ kind # "load")
        /\ last' = [no |-> no, page |-> IF page = 0 THEN 1 ELSE page]
        /\ lost' = FALSE /\ broken' = (broken /\ kind = "search")
        /\ crossed' = (asks # {} /\ (crossed \/ \E a \in asks \cup {ask} : ~Plain(a.kind)))
        /\ UNCHANGED <<shown, managing, olderList>>

\* loadChannels, searchChannels and refresh.
LoadChannels(page) == SendAsk(page, IF keyword THEN "loadSearch" ELSE "load")
SearchChannels(page) == SendAsk(page, IF keyword THEN "search" ELSE "searchLoad")
Refresh(page) == SendAsk(page, IF keyword THEN "search" ELSE "load")

\* The first request is sent when the page is opened.
PageInit ==
    /\ keyword = FALSE /\ activePage = 1 /\ shown = [no |-> 0, page |-> 1]
    /\ counter = 1 /\ asks = {[no |-> 1, page |-> 1, kind |-> "load"]}
    /\ managing = {} /\ loading = TRUE /\ searching = FALSE
    /\ open = FALSE /\ channel = NoChannel
    /\ isBatchTesting = FALSE /\ shouldStop = FALSE
    /\ batches = <<>> /\ singles = {} /\ testing = {}
    /\ results = [r \in (1..Pages) \X Model |-> "none"]
    /\ acts = 0 /\ last = [no |-> 1, page |-> 1]
    /\ crossed = FALSE /\ olderList = FALSE /\ lost = FALSE /\ broken = FALSE

\* The user does something. The dialog covers the table.
UserActs == acts < MaxUserActs /\ acts' = acts + 1
AtTable == ~open /\ UserActs /\ UNCHANGED dialogVars

\* handlePageChange and handlePageSizeChange.
TurnPage(p) ==
    /\ AtTable /\ activePage' = p
    /\ Refresh(p)
    /\ UNCHANGED keyword

\* The sorting is switched, or a channel has been edited.
ReloadList == AtTable /\ Refresh(activePage) /\ UNCHANGED <<keyword, activePage>>

\* The refresh button hands its event over for the page.
RefreshButton == AtTable /\ Refresh(0) /\ UNCHANGED <<keyword, activePage>>

\* The form is submitted, or a group chosen.
Submit == AtTable /\ SearchChannels(1) /\ UNCHANGED <<keyword, activePage>>

\* Another tab, status or tag mode.
SwitchView == AtTable /\ activePage' = 1 /\ LoadChannels(1) /\ UNCHANGED keyword

TypeKeyword ==
    /\ AtTable
    /\ keyword' = ~keyword
    /\ UNCHANGED <<activePage, shown, counter, asks, managing, loading, searching, historyVars>>

\* Mutant of Current: the number is not looked at.
CurrentAlways(a) == TRUE

\* Whether an answer is still wanted: keyword requests are not numbered.
Current(a) == ~Plain(a.kind) \/ a.no = counter

\* Mutant of StillSearching: without finally.
StillSearchingAfterError(a, outcome) == searching /\ (a.kind = "load" \/ outcome = "error")

\* searchChannels ends the flag whatever happens, for all searches under way.
StillSearching(a, outcome) == searching /\ a.kind = "load"

\* The list of an answer goes on display, unless it answers a plain request
\* that another has followed.
AnswerList(a, outcome) ==
    /\ a \in asks
    /\ asks' = asks \ {a}
    /\ LET takes == Current(a) /\ outcome = "ok"
           clears == Current(a) /\ a.kind # "search"
       IN  /\ shown' = IF takes
                       THEN [no |-> a.no, page |-> IF a.page = 0 THEN 1 ELSE a.page]
                       ELSE shown
           /\ olderList' = (olderList /\ ~takes)
           /\ activePage' = IF takes /\ ~Plain(a.kind) THEN a.page ELSE activePage
           /\ loading' = (loading /\ (outcome = "error" \/ ~clears))
           /\ broken' = (broken \/ (outcome = "error" /\ clears))
           /\ lost' = (lost \/ (a.no = last.no /\ outcome # "ok"))
    /\ searching' = StillSearching(a, outcome)
    /\ UNCHANGED <<keyword, counter, managing, dialogVars, acts, last, crossed>>

\* setChannels with a copy of the list the closure knows.
PutBack(list) == shown' = list /\ olderList' = (olderList \/ list # shown)

\* manageChannel, manageTag, updateChannelBalance: something is changed from
\* the table.
Manage ==
    /\ AtTable /\ shown.no > 0
    /\ managing' = managing \cup {shown}
    /\ UNCHANGED <<keyword, activePage, shown, counter, asks, loading, searching, historyVars>>

AnswerManage(list, ok) ==
    /\ list \in managing
    /\ managing' = managing \ {list}
    /\ IF ok THEN PutBack(list) ELSE UNCHANGED <<shown, olderList>>
    /\ UNCHANGED <<keyword, activePage, counter, asks, loading, searching, dialogVars, acts,
                   last, crossed, lost, broken>>

-----------------------------------------------------------------------------
(* Testing models                                                          *)

OpenTests ==
    /\ ~open /\ UserActs /\ shown.no > 0
    /\ open' = TRUE /\ channel' = shown.page
    /\ UNCHANGED <<tableVars, historyVars, isBatchTesting, shouldStop, batches, singles,
                   testing, results>>

\* handleCloseModal, which is the stop button too.
CloseTests ==
    /\ open /\ UserActs
    /\ open' = FALSE /\ isBatchTesting' = FALSE /\ testing' = {}
    /\ shouldStop' = (shouldStop \/ isBatchTesting)
    /\ UNCHANGED <<tableVars, historyVars, channel, batches, singles, results>>

\* testChannel, from a model's button, which shows a model that is tested.
TestOne(m) ==
    /\ open /\ UserActs
    /\ m \notin testing /\ ~(shouldStop /\ isBatchTesting)
    /\ singles' = singles \cup
         {[of |-> channel, model |-> m, seen |-> isBatchTesting, list |-> shown]}
    /\ testing' = testing \cup {m}
    /\ UNCHANGED <<tableVars, historyVars, open, channel, isBatchTesting, shouldStop,
                   batches, results>>

\* The next chunk of a batch. The last may be shorter than the step.
Chunk(b) == {m \in b.next..b.size : m < b.next + Limit}
Started(b) ==
    [b EXCEPT !.going = Chunk(b), !.next = b.next + Limit, !.phase = "chunk"]

\* batchTestModels, for the models that match what is typed: earlier results
\* are cleared and the first chunk is sent.
BatchTest(n) ==
    /\ open /\ ~isBatchTesting /\ UserActs
    /\ isBatchTesting' = TRUE /\ shouldStop' = FALSE
    /\ results' = [r \in DOMAIN results |->
                     IF r[1] = channel /\ r[2] <= n THEN "none" ELSE results[r]]
    /\ LET b == [of |-> channel, size |-> n, next |-> 1, going |-> {},
                 phase |-> "pause", list |-> shown]
       IN  /\ batches' = Append(batches, Started(b))
           /\ testing' = testing \cup Chunk(b)
    /\ UNCHANGED <<tableVars, historyVars, open, channel, singles>>

\* Mutant of AfterChunk: a last chunk of one model is forgotten.
AfterChunkShort(b) ==
    IF b.phase # "chunk" \/ b.going # {} THEN b
    ELSE [b EXCEPT !.phase = IF shouldStop THEN "over"
                             ELSE IF b.next < b.size THEN "pause" ELSE "settling"]

\* After a chunk: stop, wait for the next one or for the results.
AfterChunk(b) ==
    IF b.phase # "chunk" \/ b.going # {} THEN b
    ELSE [b EXCEPT !.phase = IF shouldStop THEN "over"
                             ELSE IF b.next <= b.size THEN "pause" ELSE "settling"]

\* A test that was started while a batch ran is dropped if the batch has been
\* stopped since. A batch itself was started when none ran.
Dropped(s) == shouldStop /\ s.seen

\* The answer about a model: requests for the same are sent once, and all who
\* wait have it. A success updates the row in the list of each closure; an
\* error is recorded without a look at the flag.
AnswerTest(c, m, outcome) ==
    LET bs == {i \in DOMAIN batches : batches[i].of = c /\ m \in batches[i].going}
        ss == {s \in singles : s.of = c /\ s.model = m}
        kept == {s \in ss : outcome = "error" \/ ~Dropped(s)}
        lists == {l \in {batches[i].list : i \in bs} \cup {s.list : s \in kept} : l.page = c}
    IN  /\ bs # {} \/ ss # {}
        /\ singles' = singles \ ss
        /\ testing' = testing \ {m}
        /\ results' = IF bs # {} \/ kept # {}
                      THEN [results EXCEPT ![<<c, m>>] =
                              IF outcome = "passed" THEN "passed" ELSE "failed"]
                      ELSE results
        /\ IF outcome = "passed" /\ lists # {}
           THEN \E l \in lists : PutBack(l)
           ELSE UNCHANGED <<shown, olderList>>
        /\ batches' = [i \in DOMAIN batches |->
             IF i \in bs THEN AfterChunk([batches[i] EXCEPT !.going = @ \ {m}]) ELSE batches[i]]
        /\ isBatchTesting' =
             (isBatchTesting /\ \A i \in bs : batches'[i].phase # "over")
        /\ UNCHANGED <<keyword, activePage, counter, asks, managing, loading, searching,
                       open, channel, shouldStop, acts, last, crossed, lost, broken>>

\* The pause of 100 ms is over.
PauseEnds(i) ==
    /\ batches[i].phase = "pause"
    /\ IF shouldStop
       THEN /\ batches' = [batches EXCEPT ![i].phase = "over"]
            /\ isBatchTesting' = FALSE /\ UNCHANGED testing
       ELSE /\ batches' = [batches EXCEPT ![i] = Started(@)]
            /\ testing' = testing \cup Chunk(batches[i])
            /\ UNCHANGED isBatchTesting
    /\ UNCHANGED <<tableVars, historyVars, acts, open, channel, shouldStop, singles, results>>

\* Mutant of Settle: the button stays busy.
SettleBusy(i) ==
    /\ batches[i].phase = "settling"
    /\ batches' = [batches EXCEPT ![i].phase = "over"]
    /\ UNCHANGED <<tableVars, historyVars, acts, open, channel, isBatchTesting, shouldStop, singles,
                   testing, results>>

\* The results are counted 300 ms after the last of them.
Settle(i) ==
    /\ batches[i].phase = "settling"
    /\ batches' = [batches EXCEPT ![i].phase = "over"]
    /\ isBatchTesting' = FALSE
    /\ UNCHANGED <<tableVars, historyVars, acts, open, channel, shouldStop, singles,
                   testing, results>>

-----------------------------------------------------------------------------
User ==
    \/ \E p \in 1..Pages : TurnPage(p)
    \/ ReloadList \/ RefreshButton \/ Submit \/ SwitchView \/ TypeKeyword \/ Manage
    \/ OpenTests \/ CloseTests
    \/ \E m \in Model : TestOne(m)
    \/ \E n \in Model : BatchTest(n)

ListAnswers == \E a \in asks, outcome \in {"ok", "no", "error"} : AnswerList(a, outcome)
ManageAnswers == \E l \in managing, ok \in BOOLEAN : AnswerManage(l, ok)
TestAnswers ==
    \E c \in 1..Pages, m \in Model, outcome \in {"passed", "failed", "error"} :
        AnswerTest(c, m, outcome)
TimersFire == \E i \in DOMAIN batches : PauseEnds(i) \/ Settle(i)

PageNext == User \/ ListAnswers \/ ManageAnswers \/ TestAnswers \/ TimersFire

PageSpec == PageInit /\ [][PageNext]_pageVars

\* Every request has an answer or an error, and timers fire.
PageFairness ==
    /\ WF_pageVars(ListAnswers) /\ WF_pageVars(ManageAnswers)
    /\ WF_pageVars(TestAnswers) /\ WF_pageVars(TimersFire)

FairPageSpec == PageSpec /\ PageFairness

-----------------------------------------------------------------------------
(* Properties                                                              *)

\* When nothing is under way, the table shows the list it was last asked for,
\* in whatever order the answers came: unless keyword requests, which are not
\* numbered, crossed others, a closure put an older list back, or the last
\* request brought none.
LastAskedShown ==
    asks = {} /\ ~crossed /\ ~olderList /\ ~lost => shown = last

\* A batch that gets to count its results has one for every model, whatever
\* was closed, stopped and started meanwhile: unless a later batch for the
\* same channel has cleared them.
CountsAreComplete ==
    \A i \in DOMAIN batches :
      LET b == batches[i]
      IN  b.phase = "settling" /\ (\A j \in DOMAIN batches : j > i => batches[j].of # b.of)
            => \A m \in 1..b.size : results[<<b.of, m>>] # "none"

\* The table stops spinning, unless the request that was to stop it
\* ended in an error: nothing catches that.
SpinnerStops == (loading \/ searching) ~> ((~loading /\ ~searching) \/ broken)

\* Tests come to an end: the batch button is free again and no model is shown
\* as being tested, after any closing, stopping and restarting.
TestsEnd == (isBatchTesting \/ testing # {}) ~> (~isBatchTesting /\ testing = {})

=============================================================================
