# lurus-api: a TLA+ verification project

lurus-api is a multi-tenant gateway in front of many AI providers, written in
Go (Gin, GORM, optional Redis, optional Meilisearch, optional Zitadel login).
Clients authenticate with API tokens, a request is relayed to one of many
upstream *channels*, and every request is paid from quota that two database
columns hold at once: the user's and the token's. Around that core the server
sells subscriptions and top-ups, limits what a user spends per day, polls
asynchronous upstream tasks, disables channels that fail and enables them
again, and runs a handful of background loops, all of them goroutines of one
process (or of several processes) over the same database.

This directory holds TLA+ models of the parts whose correctness depends on the
order in which those goroutines, callbacks, timers and failures happen; the TLC
configurations that check them on small instances; and proofs for the TLA+
proof system of the properties that matter most. Paths below are relative to
the repository root; `biz` is `internal/biz`, `data` is `internal/data`.

## 1. Inventory

| Component | State it keeps | Operations | Hard behaviour | What makes it correct |
|---|---|---|---|---|
| **Relay billing** (`biz/service/pre_consume_quota.go`, `quota.go`, `biz/relay/compatible_handler.go`, `server/controller/relay.go`) | `users.quota`, `users.used_quota`, `tokens.remain_quota`, the request's hold in `RelayInfo` | authenticate, pre-consume, retry, settle, return | concurrent requests over the same two balances, two statements per charge, a failed statement between them, refund in a goroutine | quota is neither made nor lost; user and token are charged the same; overdraft is bounded; every hold is settled |
| **Batch updater** (`data/model/utils.go`) | one map of pending changes per column kind | add a change, swap a map out, apply it | additions race the swap, a failed write is only logged, the maps live in memory | every change reaches the database once |
| **Channel selection and retry** (`biz/service/channel_select.go`, `data/model/channel_cache.go`, `ability.go`, `server/controller/relay.go`) | retry counter, the auto-group cursor in the request's context | pick a channel for (group, model, retry), advance the priority, cross to the next group | a counter that the callee resets while the caller's loop counts with it | attempts are bounded; groups are tried in order; a group's priorities are tried in order |
| **Channel pool** (`data/model/channel.go`, `channel_cache.go`, `biz/service/channel.go`, `server/controller/channel-test.go`) | channel rows, `abilities.enabled`, the memory cache, per-key status of multi-key channels | disable on error, enable after a test, enable/disable by tag, periodic sync, poll the next key | three copies of one status written by separate statements; a sync that installs a snapshot it read earlier | the copies agree when quiet; a disabled channel is not used again by itself |
| **Daily quota** (`data/model/user.go`, `daily_quota_cron.go`) | `daily_quota`, `daily_used`, `last_daily_reset`, `group`, `base_group`, `fallback_group` | count usage, reset at midnight, fall back, restore | the cron walks a list read earlier while requests count | usage counted once; nobody stays in the fallback group |
| **Subscriptions** (`data/model/subscription.go`, `subscription_cron.go`, `server/controller/subscription*.go`) | subscription rows, the plan's benefits in the user row | create, pay (webhooks, duplicated), activate, renew, cancel, refund, expire by cron | duplicated and late webhooks, cron between payment and activation | a payment is credited a bounded number of times; an active subscription gives its benefits, one that is over expires |
| **Realtime sessions** (`biz/relay/channel/openai/relay-openai.go`, `biz/service/quota.go`) | usage accumulated by two reader goroutines | pre-consume per response, settle at close | two readers and the closing goroutine share counters | a session is charged once for each token |
| **Redis quota cache** (`data/model/user_cache.go`, `token_cache.go`, `pkg/common/redis.go`) | a hash per user and per token with a TTL | fill, increment, invalidate, fall back to the database | fill and increment race; the TTL can end between check and write | the cache converges to the database |
| **Top-up, redemption, check-in, affiliate** (`data/model/topup.go`, `redemption.go`, `checkin.go`, `user.go`) | order rows, codes, check-in rows | create an order, callback, manual completion, redeem, check in, transfer | duplicated callbacks, two requests with one code | one credit per order, code and day |
| **Asynchronous tasks** (`biz/relay/relay_task.go`, `server/controller/task.go`, `task_video.go`, `midjourney.go`) | task rows with status, progress, quota; the poller's copies of them | submit, charge, poll, correct the price, refund, answer a user's question | the poller reads rows, asks the provider and writes later; rows and account by different statements; a second writer for some videos | a task is paid once and refunded at most once, and every row is finished |
| **Authentication, sessions, tenants** (`server/middleware/auth.go`, `zitadel_auth.go`, `data/model/user_mapping.go`) | sessions, user mappings | login, map an external identity to a user | two first logins of one identity | one user per identity and tenant |
| **Verification codes, 2FA, passkeys, invitation codes, internal API keys** (`pkg/common/verification.go`, `data/model/twofa.go`, `passkey.go`, `invitation_code.go`, `internal_api_key.go`) | codes with deadlines, attempt counters, usage counters | send, verify, lock, consume | attempts counted by read-modify-write, code used twice | a code is accepted once and within its time |
| **Rate limiting** (`server/middleware/rate-limit.go`, `model-rate-limit.go`, `pkg/common/rate-limit.go`, `pkg/common/limiter`) | sliding windows, token buckets | count, admit, refuse | concurrent admissions; success counted after the fact | no more than the limit in a window |
| **Options and pricing** (`data/model/option.go`, `pkg/setting`, `pricing*.go`) | option map, ratio maps | load, sync, update | hot reload while requests compute | a price is computed from one version |
| **Search** (`pkg/search`, `data/model/log_search.go`) | Meilisearch indexes, a queue of pending documents | enqueue, batch, fall back to SQL | queue full, index lagging | nothing but search results depends on it |
| **Lifecycle** (`cmd/server/main.go`, `internal/lifecycle`) | running goroutines | start, shut down | shutdown with work in flight | what was accepted is finished |
| **Provider adaptors** (`biz/relay/channel/*`), DTO conversion (`biz/service/convert.go`, `pkg/dto`) | none | translate requests and responses | formats | out of scope: pure data conversion |
| **Console: playground** (`web/src/hooks/playground`, `web/src/pages/Playground`, `web/src/components/playground`) | the list of messages, the open requests, timers, a copy in the browser's storage | send, retry, edit, delete, clear, import, stop, reload | answers carry no reference to their message: each callback writes to the last one | an ended answer is never written again, every answer ends, the storage has what is shown |
| **Console: channels page** (`web/src/hooks/channels`, `web/src/components/table/channels`) | the table's list, page and keyword, the requests under way, a batch of model tests | load, search, turn pages, change, test one or all, stop, close | answers out of order; callbacks that work on the values of an older rendering | the table shows what it was last asked for; a batch counts the results of its models; nothing stays busy |
| **Desktop shell** (`electron/main.js`) | the server's process, the windows, the tray, timers and dialogs | start, probe, open, hide, quit, report a crash | the server may hang or end before, during and after a quit | no server outlives the application; every start and quit comes to an end |
| **Console: other pages** (`web/src`) | what a form holds and the answer to its last request | - | - | not modelled, see 7 |
| **Deployment, scripts** (`deploy`, `scripts`, `pkg/ionet`) | none of the program's | - | - | out of scope |

How they interact. A request passes authentication, rate limiting and the
*distributor*, which selects the first channel; `Relay` pre-consumes quota,
loops over channels, and hands a failed request's hold to a goroutine that
returns it. A failing attempt may start a goroutine that disables the channel;
the next selection, of any request, reads the cache that goroutine writes. The
settlement writes the user's and the token's quota either directly or into the
batch updater's maps, and into Redis when it is enabled. Payment providers call
webhooks that credit quota or activate subscriptions; cron loops expire
subscriptions and reset daily usage on the same user rows the settlement
writes. The poller of tasks refunds the same accounts a request charged. Nothing
but the database is shared between two server processes. The console and the
desktop shell are clients: they meet the server only by requests that may be
answered late, out of order or not at all.

## 2. The models and the code they stand for

Every definition that models code has an entry in `PROJECT.json` ("map") with
the file and the lines it stands for. The rule throughout: one database
statement, one critical section, or one stretch of code between two of them is
one action; anything another goroutine could see in between is a state.

### 2.1 `QuotaAccount` and `RelayBilling`

`QuotaAccount` is the abstract specification: an account (the user's quota, or
one token's) and the amount each request has outstanding against it. A request
may *reserve*, be *served* (its price eats the reservation, or is owed), and be
*squared*: the whole outstanding amount is settled at once. Only a fault may
*abandon* amounts, and then they are kept in a ledger of stranded amounts.

`RelayBilling` is the code.

| Model | Code |
|---|---|
| `db["quota"]`, `db["used"]`, `db[t]` | `users.quota`, `users.used_quota`, `tokens.remain_quota` |
| `store`, `drain`, `phase` | `batchUpdateStores`, the map `batchUpdate` has swapped out, the type it is at |
| `req[r]` | the request's goroutine: where it is, and the `RelayInfo` fields `FinalPreConsumedQuota`, the token and the quota authentication read |
| `TokenAuth`, `MarkExhausted`, `PlaygroundAuth` | `ValidateUserToken`, `TokenAuth`, `Playground` |
| `SkipPreConsume`, `CheckUserQuota`, `CheckTokenQuota`, `HoldToken`, `HoldUser` | `PreConsumeQuota`, `PreConsumeTokenQuota` statement by statement |
| `RetryUpstream`, `FailUpstream`, `ServeUpstream` | `Relay`'s loop and deferred function; the settlement in `postConsumeQuota` |
| `PostUser`, `PostToken` | `PostConsumeQuota` |
| `SwapNextType`, `ApplyChange` | `batchUpdate` |
| `Crash` | the process ends; maps and goroutines are gone |

`tokenBilled`, `dropped`, `stranded` and `unchecked` are history variables: what
was served on each token, which changes a fault has lost, which amounts nobody
will settle, and what was billed to requests that `SkipPreConsume` let in. They
appear in no guard. A model whose pre-consumption is skipped (`price.go:99`) is not
free: tools, audio and generated images are billed on top of its price
(`compatible_handler.go:242-298`, `355-361`), so it may turn out to cost anything.
`HangUpstream` is an upstream that never answers: `RELAY_TIMEOUT` is 0 as shipped
(`common/init.go:92`), so the client has no timeout (`http_client.go:44`), and the
request carries no context (`api_request.go:69`).

### 2.2 `ChannelRetry`

One request and its `RetryParam`. The point of the module is that the loop in
`Relay` counts with a counter that `CacheGetRandomSatisfiedChannel`, called from
the loop's body, resets when it crosses to the next auto group, and that the flag
`resetNextTry` has to swallow exactly one increment. `Distribute*` are the
middleware's selection, with a `RetryParam` of its own of which only the group
cursor in the context survives; `Select`, `SelectKeyless` are `getChannel` in a
retry; `Respond(o)` is `shouldRetry` and the loop's condition; `Hang` is an
attempt that is never answered; `ChangePool` is everybody else. Channels of one
priority are drawn by weight at random and are one value here.

### 2.3 `ChannelPool`

A channel's status is written to three places by separate steps. `Report`,
`Begin`, `CacheUpdate`, `ReadRow`, `SaveRow`, `SaveAbility` are the statements of
`UpdateChannelStatus` under `channelStatusLock`; `SwitchTag`, `Edit`, `Reread`,
`AdminAbility` the administrator's, which take no lock; `ReadRows` and `Install`
the two halves of `InitChannelCache`, for the ticker and for the administrator
(the errors of its two queries are ignored, so channels may be missing from what
it installs, and the build of the index may panic: `RebuildPanics`);
`StartRound`, `ListChannels`, `TestChannel`, `EndRound` are `testAllChannels`,
called by a ticker and by an endpoint. Every statement may fail, and the model
goes on as the code does then.

### 2.4 `Subscription`

One user's subscriptions. Creation counts the pending orders, reads the active
subscription and inserts (`CheckOrders`, `ComputeExpiry`, `InsertOrder`); a webhook
delivery reads the status and then activates (`PaymentRead`, `PaymentActivate`);
expiry counts the others and commits (`ExpireCount`, `ExpireCommit`), for the cron
job and for the administrator; the two handlers that start a payment read an order
that is too old and later write it off (`RefuseRead`, `RefuseWrite`), and so do the
cleanup job (`ListStale`, `CleanUp`) and the cancellation (`CancelRead`,
`CancelWrite`), none of which looks at the status again. The handlers ask for
`FOR UPDATE` through `gorm:query_option`, which GORM 2 does not know, so every
read and the write that follows it are steps of their own between which anything
else may happen, as PostgreSQL, which the repository deploys
(`docker-compose.yml:29`), lets it; only a row a transaction has *written* is locked
until its end (`Unlocked`). A transaction fails as a whole. `Refund` leaves the
plan alone: the code tests `sub.Status` after `Updates` has assigned `cancelled` to
it (`subscription.go:313`). Time is counted in the length of a plan. `byHand`,
`since` and `overtaken` are history variables: activations by hand, what was
activated while an open `ExpireSubscription` had counted, and that the user was
reset in spite of such an activation.

### 2.5 `DailyQuota`

One subscriber's row: `daily_used`, `daily_quota`, `last_daily_reset` (as
`late`), the two group names (as `configured`) and `group`. A request counts
(`Settle`), looks (`Inform`), looks at the groups (`SwitchRead`) and moves the
user (`SwitchWrite`), four statements in all; a reset, by the job or by hand, is
`Reset`, `RestoreRead`, `RestoreWrite`; `Configure`, `Activate`, `Expire` are
the three ways the subscription changes the same row. The job runs on every
node (`main.go` does not ask whether the node is the master), which is one more
caller of the same three statements: the reset by hand stands for it as well.
`missed` and `overtaken` are history variables: who goes on from a row that has
changed since it was read, and whether such a one wrote the group last.

### 2.6 `AsyncTasks`

The row of a task and the money of a task are written by different statements,
by three writers: the request that submits (`Accept`, `Insert`, `Charge`), the
one poller of the process (`PollList` to `PollRefund`), and for Gemini videos the
user's own question (`FetchAsk`, `FetchSave`). An answer about songs may leave some
out, and a question about a video may never be answered (`PollHang`: only the
question about songs has a limit of time). `poll` holds what
`TaskPollingLoop` and the two updaters keep in local variables: the rows as they
were listed (`copy`), the group it is at, the song or video in hand, and `err`,
which lives on from one song to the next. Each database statement and each
question to the provider is an action; `Crash` forgets `poll` and the requests.
The three kinds of task differ in how money follows the row: songs are refunded
before the row is saved, videos after, and some videos are charged again by
tokens. `paid` and `refunds` are the account's view of one task; `blame` is a
history variable that names what excuses a wrong balance, task by task.

### 2.7 `Playground`

`messages` is the state of `usePlaygroundState`; a message is reduced to its role,
status, id, the request it was asked for (`req`) and the requests whose data it
shows (`from`). Texts are not modelled. One action for each network callback
(`StreamText`, `StreamDone`, `StreamGarbled`, `StreamError`, `StreamHttpError`,
`PlainResponse`, `Finish`), `Silence` for a request no callback has anything to
say of (a response of status 200 without choices, `useApiRequest.jsx:231`, a
stream that ends without `[DONE]`, or an upstream that hangs), one for each
operation of the user, `RunTimer` for the zero-delay timers that save and
`RunDelayed` for the 100 ms timers that send again, `Reload` for a page that is
left and opened; it may find a stored list of two messages with the ids of the
default ones and remove it (`hasOldChinese`). All callbacks write to the last
message, as the code does, so an answer may be shown under a later question.
`putBack` and `detached` are history variables. `putBack`: the user has made an
older message that is being generated the last one, by saving an edit begun before
its answer ended (`KeepEdit`) or by a deletion by id that took the newest answer
along (`ConfirmDelete`). `detached`: the user has used an operation that writes
the display or the storage alone.

Assumed: the user acts only when no zero-delay timer is set; the default request
body and not a custom one. React runs an updater twice in development; that mode
is not modelled.

### 2.8 `ChannelsPage`

Lists are known by the number of the request that brought them. `asks` holds the
requests under way with the closure each was made in: the list, the page and the
keyword of that rendering. `requestCounter` and `shouldStop` are the two
references every closure sees as they are now. `batches` are the model tests,
chunk by chunk, of which several may run when the dialog is closed and used
again. A test's request is shared with an identical one in flight, as `API.get`
does it. `crossed`, `olderList` and `lost` are history variables for the three ways
in which the table may rightly show something else than it was asked for last.

### 2.9 `Desktop`

Every action is a callback of the main process: `Try`, the outcomes of a probe,
the child's `close` and `error`, the dialogs, the tray, the application's and the
windows' events, the quit. `server` is the child's state as the operating system
has it, `main` and `windows` are `mainWindow` and what exists. A timeout raises
the request's error as well, so each of the two handlers sets a timer: the model
counts the probes under way and the timers set, and `attempts` is the counter
they share.

### 2.10 How the models meet

RelayBilling ends where `PostConsumeQuota` calls `PostConsumeDailyQuota`;
DailyQuota begins there, with the same hold and cost. ChannelRetry's pool is
what ChannelPool's `index` is for one group and model: it may change at any
step, which is what ChannelPool shows it to do. Subscription's activation and
expiry are DailyQuota's `Activate` and `Expire`. AsyncTasks' `Pay` is one
`PostConsumeQuota` that succeeds or fails as a whole; what happens inside is
RelayBilling's. ChannelsPage and Playground take the server's answer to be
whatever it may be; their requests are those ChannelPool and RelayBilling serve.

## 3. What the runs check

| Run | Question | Distinct states |
|---|---|---|
| `RelayBillingDirect` | do direct writes keep both accounts through a failed write and a crash, and how far can a balance be overdrawn? | 439 061 |
| `RelayBillingBatch` | does the batch updater lose or duplicate a change, does every change arrive, is every hold settled? | 353 889 |
| `ChannelRetry` | are attempts bounded, ordered, complete and finite? | 21 858 |
| `ChannelPool` | do row, ability and cache stay or come together? | 1 089 107 |
| `Subscription` | how often is a payment credited, who has the plan, how many orders are open, when deliveries, handlers and jobs overlap? | 1 067 209 |
| `SubscriptionLock` | is a payment credited once? **No** | - |
| `DailyQuota` | who is in the fallback group, and does one come back? | 885 478 |
| `AsyncTasks` | does what a user has paid agree with how the task ended, and does every row end? | 1 612 989 |
| `AsyncTasksRefund` | is a video refunded once? **No** | - |
| `Playground` | does every answer end of which no request falls silent, and once; does the storage have what is shown? | 2 081 886 |
| `ChannelsPage` | what does the table show, what does a batch of tests count, does anything stay busy? | 759 524 |
| `Desktop` | does every start and every quit end, and does a server stay behind? | 45 179 |

What the passing runs show:

* **RelayBilling.** `ImplementsAccounts` (in `RelayBillingDirect`, and proved) is
  the refinement: every step of the code is a step of `QuotaAccount` on every
  ledger, so no interleaving of two requests, the refunding goroutine and the
  updater settles half an amount, or settles one twice. `UserFundsConserved` and
  `TokenFundsConserved` state the sum: what was funded is available, billed,
  outstanding, or lost to a counted fault. `OverdraftBounded`: admission reads a
  balance others are spending, so it goes below zero, but never further than what
  was in flight together, and for the user what was billed to requests that were
  let in without a look at the balance (`unchecked`, which nothing bounds). It is
  stated without the batch updater, where the debt
  has no such bound: the balance admission reads lags behind by as much as was
  served since the last flush. `HoldsAreSettled` and `BooksReachDatabase` are the
  liveness half; besides what a fault strands, only a request whose upstream hangs
  keeps its hold for good.
* **ChannelRetry.** `AttemptsBounded` (at most `RetryTimes + 1` in each group,
  however often the counter is reset), `TopDown` (priorities in order, no group
  twice), `NoGroupForgotten` (with cross-group retry, a request given up has made
  every attempt in every group, when nobody changed the pool), `RequestEnds`
  (unless an attempt hangs).
* **ChannelPool.** `AbilitiesAgree` (rows and abilities, for reports and tests
  that overlap; it does not hold when an administrator, who takes no lock,
  interferes or a statement fails, and the property says so),
  `DisabledNotSelected`, `OneRound`, and `CacheConverges`, which needs no such
  exception: the ticker repairs whatever stale or incomplete snapshot was installed.
* **Subscription.** `CreditsBounded`: a subscription is credited at most once for
  each delivery that can be under way at a time, however many follow, and once for
  each activation by hand; with overlapping deliveries that is more than once,
  which `SubscriptionLock` shows. `ActiveHasPlan`: who has an active subscription has
  the plan, but for the one case in which an expiry had counted before the
  activation and reset the user after it (`overtaken`); it leaves out behaviours with
  a failed transaction and the moment of an unfinished grant. The comment at
  `subscription.go:180` promises more. `OrdersBounded`: no more orders are pending
  than requests for one overlap; the limit of one holds for requests one after the
  other. `OverdueExpires`: what is over does not stay active. That a plan ends
  with its subscription is no property: a cancelled, a refunded or a paid order
  that was written off keeps it, see 9.
* **DailyQuota.** `ExhaustedIsSwitched` and `FallbackHasCause` are two halves of
  one statement: in the fallback group if and only if the quota is used up, while
  nobody is on the way. Both except the behaviours in which a statement failed or
  the last write of `group` was by one who had missed a change: those are real
  (a switch that was decided before midnight lands after it), and last until the
  next request or the next day. `GroupEndsWithSubscription`, `FallbackEnds`.
* **AsyncTasks.** `LedgerExact`: a task that has ended and about which nothing is
  under way has cost nothing if it failed and what the row says if not, unless a
  statement about it failed, the process stopped in the middle, it was given up
  in bulk, or a question wrote its row. `RefundedOnce`: even then no task is
  refunded twice, but for a song whose row was not saved and a video a question
  has revived. `TaskEnds`: no row is kept out for good by older ones,
  unless a provider of videos never answers, which stops the poller for all rows.
* **Playground.** `SettledIsFinal` (no callback changes a message that is complete
  or in error, or the number of messages), `NoEarlierAnswer` (data never reaches
  back to an earlier request's message), `StoredAgrees` (which messages are stored,
  not their texts: that of a plain answer is not saved), and `AnswerSettles`: a last
  answer being generated does not stay so, unless its request, or one that wrote to
  it, has fallen silent, or the user has put an older answer back (`putBack`).
* **ChannelsPage.** `LastAskedShown`, `CountsAreComplete`, `SpinnerStops`,
  `TestsEnd`. A stop does not hold: a batch that is started after the dialog was
  closed resets the flag, and the closed one goes on.
* **Desktop.** `NoOrphan`, `ProbesBounded` (the port is asked less than twice as
  often as configured), `StartSettles`, `QuitEnds`.

The two violations are described under "findings" in `PROJECT.json` with the
comments they contradict. `AsyncTasksRefund`: the answer to a user's question about
a video is written over the failure the poller has refunded meanwhile; the row is
unfinished again, the poller asks again and refunds again. `SubscriptionLock`: two
deliveries of one payment both read the order as pending and both credit its
quota, since the row lock the comments speak of is not taken.

Every property of a passing run has a mutant: a definition changed the way a
plausible bug would change it, kept next to the original and named after what
it gets wrong ("Mutant of ..."), with which the property fails.

## 4. Bounds, and why they are enough

* **RelayBilling**: two requests in flight, up to three started (two with the
  batch updater); amounts 0, 1 and
  2, a trust quota of 1, accounts of 2. Two concurrent requests are what every
  interleaving of two statements needs; a third start is enough to
  meet what the first two left (a stranded hold, an exhausted token, a negative
  balance). Prices 0 and 2 lie on both sides of an estimate of 1, an account of 2
  on both sides of the trust quota, and one failed write and one crash suffice to
  strand either part of a charge. One limited and one unlimited token with
  direct writes; one limited one with batching, where the state is larger. The
  theorems below have none of these bounds.
* **ChannelRetry**: two groups with up to two priorities and two retries: more
  retries than priorities, so the lowest is repeated, and a crossing. Two changes
  of the pool can empty a group between two attempts and fill it again.
* **ChannelPool**: one channel, which is the only one a step of the code is
  about, two testers, one worker, one administrator's operation, one failure, two
  rounds. Channels are independent but for the lock, which the workers of one
  channel contend for as well.
* **Subscription**: two subscriptions of one user (expiry asks about "the
  others"), time up to two plans' length, three deliveries of which two overlap, one
  request for an order, one operation by hand or cancellation, one failed
  transaction: a delivery can meet an expiry, a cleanup or a cancellation at any
  statement, and a third delivery what the first two left. The theorems have none
  of these bounds.
* **DailyQuota**: two requests, the job and a reset by hand; a limit of 2 that
  two requests of 1, or one of 2, use up; two changes of the subscription, which
  is an expiry and an activation.
* **AsyncTasks**: two tasks of any two kinds, so that one song's failure can meet
  the next one's and an older row can be in the way of a younger; one or two rows
  at a time; a price of 2 that tokens make 3; one fault and one question, each of
  which is enough to break either property where the exceptions allow it.
* **Playground**: three requests and four acts in all: an answer that is late by
  two questions, with one operation in between.
* **ChannelsPage**: two pages, three models tested two at a time (a full chunk and
  a partial one), five acts: start, close, start again, stop and one more.
* **Desktop**: five attempts and four windows; the counter that two askers share
  passes its limit, and a second window is opened and closed.

Deadlock is not checked where the system may stop: `CHECK_DEADLOCK FALSE` stands
in the configurations whose bounds end the traffic.

## 5. Fairness, and what justifies it

* `RelayBilling`: weak fairness of each request once let in (Go runs every
  goroutine; an attempt that is answered ends, one that is not is `HangUpstream`) and
  of the batch updater (an endless loop with a sleep). None for arrivals or faults.
* `ChannelRetry`: weak fairness of the request's own steps. An attempt may hang.
* `ChannelPool`: weak fairness of the sync ticker, of every call that has begun
  and of a round of tests that has begun. None for reports, edits or rounds.
* `Subscription`: weak fairness of what has begun (a request or a transaction ends)
  and of the expiry job (a ticker). None for requests, deliveries, administrators,
  the cleanup job or the clock.
* `DailyQuota`: weak fairness of midnight, of the job, and of what has begun.
  Failing statements are bounded, so a reset that fails is tried again.
* `AsyncTasks`: weak fairness of the poller (a loop that sleeps 15 seconds, and
  may hang at a question about a video) and of the provider, which ends every
  task. None for requests, questions or faults.
* `Playground`: weak fairness of the end of some request under way, which may be
  silence (`Silence`): that a handler hears of it is not assumed. None for the user.
* `ChannelsPage`: weak fairness of answers and timers. None for the user.
* `Desktop`: weak fairness of the timers that are set, of a probe under way
  (it has a timeout) and of the user's answer to an open dialog. None for the
  server, which may hang for good, nor for clicks.


## 6. What is proved

Eight modules of theorems: one for each model of the server's core and the
desktop shell, and one for the two pages of the console. Every safety property
that a run checks has its theorem. Each theorem holds for every value of the
constants that meets the assumption its model names (`RetryAssumption`,
`PoolAssumption`, ...): any number of requests, groups, channels, subscriptions,
tasks, windows, pages, failing statements and restarts, and any amounts. All
follow one plan: an invariant `Inv` that is inductive, one lemma or step for each
action that it survives, and corollaries. The types are the theorem `TypeCorrect`
of each module (of the runs only Playground's checks them too). Below, what each
`Inv` adds to the properties it proves, and why they are not inductive without it.

* **`RelayBillingProofs`** (`TypeCorrect`, `AccountsImplemented`, `UserFundsKept`,
  `TokenFundsKept`, `OverdraftLimited`). `ControlOK`: a request
  that is about to write its token has one, one that holds has a positive
  estimate, one that settles has a difference to settle, and one that is being
  admitted has no hold yet. Without it a step from `hold_token` could write a
  column that does not exist, and a step from `hold_user` could "reserve" nothing.
  The refinement mapping takes an account's balance to what the column will be
  worth once every change on its way has arrived (`Book`), plus what a fault has
  dropped; so batching and applying are stutters, and holding, serving, settling
  and crashing are `Reserve`, `Serve`, `Square` and `Abandon`. One lemma for each
  action, for an arbitrary ledger, split by whether the step is about it.

  The conservation laws add up what all requests hold or owe. `Sum` is a fold of
  the community modules, that is a recursive function on sets, and the provers
  have no induction; so a fact about it is proved on a least counterexample
  (`MinimalSet`): were there sets it fails for, take one of least cardinality and
  one element out of it. `RequestsAssumption` (a process has finitely many
  goroutines) is there for this. With `SumChanges` (one summand changes) the laws
  follow from the refinement and not from the code again: `AccountConserves` shows
  that each of `Reserve`, `Serve`, `Square`, `Abandon` keeps the sum.

  `OverdraftBounded` needs what is at risk at each statement: `Risk` is the most a
  request may still take from a ledger, and `Covered` that the balance, less all
  that is at risk, is above the bound (or that nothing was ever taken). A request is
  admitted on a balance of at least one unit, whatever the others are about to
  take, and each of them takes at most one `Worst` charge; what is billed to a
  request that was let in without a look is added to `unchecked` when it is taken,
  so it lowers neither side. `RiskInv` adds that no
  hold or price is above `Worst` and that the batch updater holds nothing; with the
  updater on, the property says nothing. `ChargesAssumption` makes `Worst` exist.
* **`ChannelRetryProofs`** (`TypeCorrect`, `AttemptsLimited`, `AttemptsDescend`,
  `NoneForgotten`).
  `Place`: before, in and after each attempt, where the group cursor and the retry
  counter stand against the last attempt (on its group, or on a later one with the
  counter at its start), what `resetNextTry` says of that, and how many attempts
  cursor and counter leave room for. The counter alone bounds nothing, since the
  callee resets it. A group whose pool changes may be drawn
  from at any priority that exists; that there is one with n above it
  (`SomeLevel`) is a counting argument about finite sets. `NoneForgotten` rests on
  `Progress` on top of that: behind the cursor every group that has a channel is
  finished, in the cursor's group the attempts reach down to the counter, and the
  counter starts again before `shouldRetry` finds it used up.
* **`ChannelPoolProofs`** (`TypeCorrect`, `AbilitiesFollowRows`,
  `SelectedAreEnabled`, `RoundsAreSingle`). `Agreement`: while nothing has failed
  and no administrator has written, a channel whose abilities lag behind its row
  has the holder of the lock between its two statements. `Flagged`: at most one
  tester tests, and the flag is set while it does.
* **`SubscriptionProofs`** (`TypeCorrect`, `CreditsBound`, `ActiveHavePlan`,
  `OrdersBound`), with overlapping transactions. `Credits`: what a subscription was
  credited and the deliveries that have found it pending are together no more than
  deliveries can be under way, besides what was done by hand; one that is pending
  was not credited yet, and what an administrator has inserted is paid by nobody.
  A delivery that ends moves from one summand to the other, and none begins once the
  first has activated. `Orders`: pending orders and requests that have found none are
  together no more than the requests. `Counted`: what is active now and was not
  when an open expiry counted was activated `since`; so whoever resets a user who
  has an active subscription is `overtaken`.
* **`DailyQuotaProofs`** (`TypeCorrect`, `ExhaustedAreSwitched`,
  `FallbackIsCaused`, `GroupsEnd`). Who is about to write the group and has missed
  nothing is right: `Informed` for a request that moves the user, `Warned` for a
  reset that moves them back, `Departed` for either after the subscription ended.
  The two halves about the fallback group need each other.
* **`AsyncTasksProofs`** (`TypeCorrect`, `ExactLedger`, `RefundOnce`). The
  invariant is stated task by task over the task's `Place`: not with the poller,
  waiting, in hand at one of the statements, or done while other songs are left.
  `Copied` says what the poller's copy has in common with the row at each place,
  `Sum` what the user has paid (with the amount of the copy in the moment between
  the charge by tokens and the save), `Marked` that a refund is there exactly when
  the row (or, for a song in hand, the row to come) has failed, `Once` that a task
  that still waits was not refunded. A question that writes the row breaks `Once`
  only in the way `RefundedOnce` exempts: this is where the finding lies.
* **`DesktopProofs`** (`TypeCorrect`, `MainWindowExists`, `NoServerOutlives`,
  `AttemptsBelowTwice`). `Handled` (a server that runs is the one a quit stops) and
  `Balanced`: `waiting + 2 * requests <= 1 + attempts`, the potential that makes the
  doubling of probes end below twice `maxRetries`.
* **`ConsoleProofs`**, the chat page (`TypeCorrect`, `NoEarlierAnswerHolds`,
  `StoredAgreesHolds`, `SettledStays`). Every list the page holds, on display, in
  the storage, in a save that is due or in a dialog, is a sequence over
  `Fit(putBack)`: no question is being generated, and no message shows data of a
  later request. What a network callback does to a list is `Touched`: it keeps
  what the messages are and the settled ones altogether. That alone is not
  inductive, since a callback writes to the last message whatever it is: `Latest`
  says that a last message being generated belongs to no request before any that
  was sent, so its data cannot be older than what arrives. `Saved` says that the
  last save due, or else the storage, has what is on display; `StoredAgrees` is
  its case without timers. The deletion by id is a fold, treated like `Sum`. The
  attempt first failed: `NoEarlierAnswer` was false for more acts than a run
  allows, by a deletion by id that `putBack` did not record (section 9).
* **`ConsoleProofs`**, the channels page (`PageTypeCorrect`, `LastAskedIsShown`,
  `CountsAreOfResults`). The module extends both pages' models.
  `Numbered`: unless keyword requests crossed others, a plain request under way
  means that the counter is the latest request's number, and a keyword request
  under way is the latest; so the only answer taken is the latest's, which
  `Awaited` says is shown or to come. `Underway` ties a batch's place to what it
  has sent and awaits; `Counted`: what the latest batch of a channel has sent and
  does not await (`Due`) has a result.

Only model-checked, and why. Liveness is out of this prover's reach, and with it
`HoldsAreSettled`, `BooksReachDatabase`, `RequestEnds`, `CacheConverges`,
`OverdueExpires`, `FallbackEnds`, `TaskEnds`, `AnswerSettles`, `SpinnerStops`,
`TestsEnd`, `StartSettles` and `QuitEnds`. The runs that expect a violation show
properties that do not hold.

## 7. Not modelled, and why

The table of components in `PROJECT.json` has a line for each.

* *Redis* is off in all models. The copies of users and tokens are the first
  module of the plan; the two hazards that wait for it (a read that overwrites
  increments, a field written to a hash that has just expired) are listed.
* *Crediting* (top-up, redemption, check-in, affiliates) and *realtime sessions*:
  planned, see below.
* *Midjourney* has rows and a poller of its own with the structure of AsyncTasks;
  of the submission of tasks the retries are left out, which are ChannelRetry's.
* *Multi-key channels* and the creation, deletion and repair of channels: the
  status of single-key channels only.
* *Authentication* beyond what concerns quota, *codes, 2FA and passkeys*, *rate
  limiting*, *options and pricing*: small, mostly sequential components, after
  the rest.
* *Search, logs, lifecycle*: no decision of the server depends on what they keep;
  the lifecycle manager is not used by the server's `main`.
* *The console's other pages*: forms and tables with the state of their last
  request, repeating the channels page's structure. Of the playground the custom
  request body and the debug panel's display, of the channels page the column
  settings, deletions and the row's test with the default model.
* *Provider adaptors, format conversion, deployment, scripts*: data conversion and
  packaging, without state of their own.

## 8. Plan

In this order, the most consequential first.

1. `UserQuotaCache`: the Redis hash of a user against the row: fill, increment,
   field write under a TTL, invalidation; the property is convergence, and what
   admission may read meanwhile. Composed with the account of `QuotaAccount`.
2. `Crediting`: orders, codes, check-ins and transfers that credit a user: one
   credit for one order, with overlapping callbacks, manual completion and a
   transaction that does not lock, against an abstract "credited once".
3. `Realtime`: the two readers, the usage they share, pre-consumption per response.
4. `UserRow`: Subscription and DailyQuota composed over one row, where the role,
   the group and the daily limits are written by both.
5. Multi-key channels in `ChannelPool`; the in-memory rate limiter as a pure
   algorithm against a reference definition.

## 9. Noted while reading

The hazards in `PROJECT.json` are the ones the models and the plan are about.
Reading the code turned up more that a later module should know of:

* `server/controller/relay.go:307`: a "channel:" error is retried before
  `specific_channel_id` and `skipRetry` are looked at, so a pinned request may move
  to another channel (`ChannelRetry` has this behaviour, mode "pinned").
* `biz/service/channel_select.go:78`: the example of the comment is not the order
  the code follows, which exhausts a group's retries first.
* `data/model/channel.go:641`: if the abilities cannot be written the error is only
  logged, and a node without the memory cache goes on selecting by them.
* `data/model/channel_cache.go:51`: channels and abilities are read by two
  statements; line 260: only the first occurrence of a disabled channel is taken
  out of a list of the index.
* `data/model/channel.go:601`: a key of a multi-key channel that is enabled again
  does not bring the channel back from auto-disabled.
* `server/controller/channel-test.go:612`: the tester decides by statuses listed
  when its round began.
* `data/model/subscription.go:279`: activation assigns the subscriber's role
  whatever the role was, an administrator's included.
* `server/controller/subscription_payment.go:387`: a Stripe refund looks for a
  payment intent where the id of a checkout session was stored.
* `data/model/subscription_cron.go:42`, `daily_quota_cron.go:36`: full batches of
  rows that cannot be processed come back at once, or keep the others out.
* `data/model/daily_quota_cron.go:49`: a user reset by hand after the list was
  read is reset again; `user.go:1079`: the group in Redis is written by goroutines
  without an order.
* `biz/relay/channel/openai/relay-openai.go:389`: two goroutines add to the same
  counters of a realtime session without a lock.
* `data/model/topup.go:277`: manual completion credits Creem orders by another
  formula than `RechargeCreem`; `checkin.go:136`: the deletion that undoes a
  check-in may fail.
* `data/model/user_mapping.go:196`, `twofa.go:125`,
  `server/middleware/rate-limit.go:25`: read, compare and write by separate
  statements.
* `server/middleware/model-rate-limit.go:150`: in memory, the limit on successful
  requests counts every request under the key it checks.
* `internal/lifecycle/lifecycle.go:60`: the shutdown channel is read by no task
  (the manager is not used by `cmd/server/main.go`).
* `data/model/token.go:103`: a token is marked
  exhausted while its quota is only held by requests under way, and stays so when
  they give it back.
* `server/controller/channel-test.go:569`: the flag of a round of tests stays set
  when the channels cannot be listed; no round starts until a restart.
* `server/controller/subscription_payment.go:510`: `FOR UPDATE` is asked for by
  `gorm:query_option`, which GORM 2 does not read; overlapping deliveries of one
  payment credit its quota twice (the finding of `SubscriptionLock`).
* `data/model/subscription.go:172`: other active subscriptions are counted and the
  user is reset by later statements, so a subscription activated in between loses
  its plan, although the comment at line 180 says the user is reset "if no other
  active subscription" is left.
* `data/model/subscription.go:313`: `RefundSubscription` tests the status after
  `Updates` (line 304) has assigned `cancelled` to the struct, so the plan stays with
  the user; a cancelled subscription is met by no job either, and its plan stays.
* `data/model/subscription.go:384`, `server/controller/subscription_payment.go:84` and
  `:640`: an order is written off as expired whatever its status is by then; one paid
  meanwhile is expired, keeps its plan, and no job takes it back.
* `biz/relay/helper/price.go:99`: a model priced zero is let in without a look at the
  user's quota and billed for tools, audio and images
  (`biz/relay/compatible_handler.go:242`, `:355`): an empty account goes on being
  overdrawn by it without a bound (`unchecked` in `RelayBilling`).
* `internal/pkg/common/init.go:92`: without `RELAY_TIMEOUT` an upstream that never
  answers keeps its request, its hold and, for the videos of `AsyncTasks`, the one
  poller for good.
* `data/model/channel_cache.go:28` and `:33`: the errors of the two queries are
  ignored. Without channels an empty cache is installed until the next sync; without
  abilities the build writes to a nil map, and in the ticker's goroutine
  (`cmd/server/main.go:99`) nothing recovers the panic.
* `server/controller/subscription.go:170`: the limit on pending orders holds for
  requests that do not overlap.
* `biz/service/quota.go:517`: only what a request costs beyond its hold is counted
  as used today.
* `data/model/channel.go:683`, `user.go:688`, `pkg/common/redis.go:306`,
  `data/model/topup.go:72`, `redemption.go:130`, `user.go:349`,
  `biz/service/quota.go:149`: reads, comparisons and writes by separate statements
  that the planned modules are about.
* `server/controller/task.go:242`: `err` of a song whose row was not saved is
  still set at the next one, whose refund is then left out; lines 113 and 166:
  tasks that are marked in bulk are not given back; `biz/relay/relay_task.go:270`:
  an insertion that fails after the answer was sent is tried again as a second
  task.
* `server/controller/task_video.go`: an answer without a known status counts as a
  failure and is refunded, while the provider goes on.
* Playground: an error of an older stream is written to the newer message
  (`useApiRequest.jsx`); a plain request cannot be stopped; a response without
  choices (`useApiRequest.jsx:231`) or a stream that ends without `[DONE]` leaves
  the answer loading until the user stops it; `hasOldChinese`
  (`usePlaygroundState.js:45`) takes "你好" for an old default text, which is the
  text of the Chinese default message of today
  (`web/src/i18n/locales/zh.json:2564`), so that a default pair a user has edited
  is dropped by a reload; clearing while an answer streams makes `completeMessage`
  read an empty list; two retries within 100 ms leave a message loading; plain
  answers are not saved; an import is saved before it is confirmed; ids restart at
  4 with each load (`utils.jsx:353`), so a deletion by id
  (`useMessageActions.jsx:189`) may take two messages: with two answers of a
  confirmed edit on their way and a delete dialog open it may take the newest, so
  that an older loading answer is last and shows what a later request brings
  (found while proving `NoEarlierAnswer`; it takes more acts than the runs allow);
  "仅重置配置" promises to keep the messages (`ConfigManager.jsx:117`) that
  `clearConfig` removes from the storage (`configStorage.js:116`).
* Channels page: the refresh button passes its click event as the page
  (`ChannelsFilters.jsx:61`); an empty search loads page 1 and leaves the page number;
  searches are not numbered, so an older answer may come last; a network error leaves
  the table loading; a row's callbacks put back the list of an older rendering;
  a new batch resets the flag that stops a closed one ("已停止批量测试",
  `useChannelsData.jsx:1059`); the checks at 844 and 859 read a value of the
  rendering in which the batch started, and never fire.
* Desktop shell: each timeout of a probe raises an error as well, and the number of
  questions doubles; a quit after the server has died waits for its timer;
  an `activate` at launch opens a second window; a server that ends with code 0 hides
  the window, where the comment says it closes (`main.js:369`); in development
  mode a quit with an open window is undone by the window's `close`.
