---------------------------- MODULE RelayBilling ----------------------------
(***************************************************************************)
(* How one user's quota and the quota of that user's tokens move while     *)
(* relay requests are served concurrently: token authentication, the       *)
(* pre-consumption of an estimate, upstream attempts with retries, the     *)
(* settlement or the refund, and the batch updater that writes quota       *)
(* changes to the database some time after they were made.                 *)
(*                                                                         *)
(* Redis is off: quota is read from the database (UserQuotaCache models    *)
(* the Redis copy).  A database write is one atomic statement; between     *)
(* two statements of a request any other goroutine may run.                *)
(***************************************************************************)
EXTENDS Integers, FiniteSets, Functions

CONSTANTS
    Requests,            \* goroutines that can serve a request at one time
    Tokens,              \* the user's API tokens
    NoToken,             \* a playground request carries no token
    UnlimitedTokens,     \* tokens with unlimited_quota set
    Estimates,           \* amounts ModelPriceHelper asks to pre-consume
    Prices,              \* prices a served request can turn out to have
    UserFunded,          \* users.quota at the start
    TokenFunded,         \* tokens.remain_quota at the start
    TrustQuota,          \* common.GetTrustQuota()
    MaxRetries,          \* retries of a request: common.RetryTimes for each group
    BatchUpdateEnabled,  \* common.BatchUpdateEnabled
    MaxStarts,           \* bound: requests started in a behaviour
    MaxDBErrors,         \* bound: database writes that fail
    MaxCrashes           \* bound: crashes of the process

ASSUME TokensAssumption ==
    /\ NoToken \notin Tokens
    /\ {"quota", "used"} \cap (Tokens \cup {NoToken}) = {}
    /\ UnlimitedTokens \subseteq Tokens
\* The goroutines of a process are finitely many.
ASSUME RequestsAssumption == IsFiniteSet(Requests)
ASSUME AmountsAssumption ==
    /\ Estimates \subseteq Nat
    /\ Prices \subseteq Nat
    /\ UserFunded \in Int
    /\ TokenFunded \in [Tokens -> Int]
    /\ TrustQuota \in Nat
    /\ MaxRetries \in Nat
    /\ BatchUpdateEnabled \in BOOLEAN
    /\ MaxStarts \in Nat /\ MaxDBErrors \in Nat /\ MaxCrashes \in Nat

\* ModelPriceHelper always has an estimate, and amounts are machine integers.
ASSUME ChargesAssumption == Estimates # {} /\ IsFiniteSet(Estimates \cup Prices)

VARIABLES
    db,           \* [Columns -> Int], committed column values
    store,        \* [Columns -> Int], batchUpdateStores, not yet swapped out
    drain,        \* [Columns -> Int], swapped out by batchUpdate, not yet applied
    phase,        \* the type batchUpdate is applying, 0 while it sleeps
    req,          \* [Requests -> Request], a request's goroutine and RelayInfo
    tokenStatus,  \* [Tokens -> {"enabled", "exhausted"}], tokens.status
    started,      \* requests started so far
    dbErrs,       \* database writes that failed so far
    crashes,      \* crashes so far
    tokenBilled,  \* history: prices served on each token
    dropped,      \* history: changes of each column a fault has lost
    stranded,     \* history: outstanding amounts nobody will settle
    unchecked     \* history: prices served without a look at the user's quota

vars == <<db, store, drain, phase, req, tokenStatus, started, dbErrs, crashes,
          tokenBilled, dropped, stranded, unchecked>>

-----------------------------------------------------------------------------
(* State *)

\* users.quota, users.used_quota and remain_quota of each token.  A token's
\* used_quota moves opposite to its remain_quota in the same statement.
Columns == {"quota", "used"} \cup Tokens
Ledgers == {"quota"} \cup Tokens

\* The order of the batch types: user quota, token quota, used quota.
Type(col) == IF col = "quota" THEN 1 ELSE IF col = "used" THEN 3 ELSE 2

PCs == {"idle", "exhaust", "check_user", "check_token", "hold_token",
        "hold_user", "upstream", "post_user", "post_token"}

Request == [pc : PCs, tok : Tokens \cup {NoToken}, tokenQuota : Int, pre : Nat,
            final : Nat, free : BOOLEAN, attempt : Nat, hung : BOOLEAN, delta : Int]

Idle == [pc |-> "idle", tok |-> NoToken, tokenQuota |-> 0, pre |-> 0,
         final |-> 0, free |-> FALSE, attempt |-> 0, hung |-> FALSE, delta |-> 0]

Zero(S) == [x \in S |-> 0]

Init ==
    /\ db = [c \in Columns |-> IF c = "quota" THEN UserFunded
                               ELSE IF c = "used" THEN 0 ELSE TokenFunded[c]]
    /\ store = Zero(Columns)
    /\ drain = Zero(Columns)
    /\ phase = 0
    /\ req = [r \in Requests |-> Idle]
    /\ tokenStatus = [t \in Tokens |-> "enabled"]
    /\ started = 0 /\ dbErrs = 0 /\ crashes = 0
    /\ tokenBilled = Zero(Tokens)
    /\ dropped = Zero(Columns)
    /\ stranded = [l \in Ledgers |-> Zero(Requests)]
    /\ unchecked = 0

\* What a column is worth once every change on its way has arrived.
Book(c) == db[c] + store[c] + drain[c]

Playground(r) == req[r].tok = NoToken

\* What a request has taken from its token, or the user, and not yet settled.
TokenOut(q) ==
    CASE q.pc = "hold_user" -> q.pre
      [] q.pc = "upstream" -> q.final
      [] q.pc \in {"post_user", "post_token"} -> -q.delta
      [] OTHER -> 0

UserOut(q) ==
    CASE q.pc = "upstream" -> q.final
      [] q.pc = "post_user" -> -q.delta
      [] OTHER -> 0

Out(l, q) ==
    IF l = "quota" THEN UserOut(q) ELSE IF q.tok = l THEN TokenOut(q) ELSE 0

-----------------------------------------------------------------------------
(* Writes *)

\* addNewRecord when batching, one UPDATE otherwise.
Add(c, v) ==
    IF BatchUpdateEnabled
    THEN store' = [store EXCEPT ![c] = @ + v] /\ UNCHANGED db
    ELSE db' = [db EXCEPT ![c] = @ + v] /\ UNCHANGED store

\* Only the direct UPDATE can fail in the caller's sight.
AddFails ==
    /\ ~BatchUpdateEnabled
    /\ dbErrs < MaxDBErrors
    /\ dbErrs' = dbErrs + 1
    /\ UNCHANGED <<db, store>>

\* Nobody will settle what r has outstanding on the ledgers in L.
Strand(L, r) ==
    stranded' = [l \in Ledgers |->
                    IF l \in L THEN [stranded[l] EXCEPT ![r] = @ + Out(l, req[r])]
                    ELSE stranded[l]]

Goto(r, label) == req' = [req EXCEPT ![r] = [req[r] EXCEPT !.pc = label]]
Finish(r) == req' = [req EXCEPT ![r] = Idle]

\* Where a request goes once its pre-consumption succeeded with amount q.
Admit(r, q) ==
    req' = [req EXCEPT ![r] = [req[r] EXCEPT !.pc = "upstream", !.final = q]]

-----------------------------------------------------------------------------
(* Admission *)

\* TokenAuth: ValidateUserToken reads the token; an enabled but spent one is
\* to be marked.  The quota read here stays in the request's context.
TokenAuth(r, t, p) ==
    /\ req[r].pc = "idle"
    /\ started < MaxStarts
    /\ tokenStatus[t] = "enabled"
    /\ started' = started + 1
    /\ req' = [req EXCEPT ![r] = [Idle EXCEPT
                 !.pc = IF t \notin UnlimitedTokens /\ db[t] <= 0
                        THEN "exhaust" ELSE "check_user",
                 !.tok = t, !.pre = p,
                 !.tokenQuota = IF t \in UnlimitedTokens THEN 0 ELSE db[t]]]
    /\ UNCHANGED <<db, store, drain, phase, tokenStatus, dbErrs, crashes,
                   tokenBilled, dropped, stranded, unchecked>>

\* ValidateUserToken goes on to write the status; the request is refused.
MarkExhausted(r) ==
    /\ req[r].pc = "exhaust"
    /\ tokenStatus' = [tokenStatus EXCEPT ![req[r].tok] = "exhausted"]
    /\ Finish(r)
    /\ UNCHANGED <<db, store, drain, phase, started, dbErrs, crashes,
                   tokenBilled, dropped, stranded, unchecked>>

\* Playground gives the request a temporary token with no quota.
PlaygroundAuth(r, p) ==
    /\ req[r].pc = "idle"
    /\ started < MaxStarts
    /\ started' = started + 1
    /\ req' = [req EXCEPT ![r] = [Idle EXCEPT !.pc = "check_user", !.pre = p]]
    /\ UNCHANGED <<db, store, drain, phase, tokenStatus, dbErrs, crashes,
                   tokenBilled, dropped, stranded, unchecked>>

\* A model priced zero is not pre-consumed for and the quota is not looked at.
\* It can have a price all the same: tools, audio and images are billed apart.
SkipPreConsume(r) ==
    /\ req[r].pc = "check_user"
    /\ req[r].pre = 0
    /\ req' = [req EXCEPT ![r] = [req[r] EXCEPT !.pc = "upstream", !.free = TRUE]]
    /\ UNCHANGED <<db, store, drain, phase, tokenStatus, started, dbErrs,
                   crashes, tokenBilled, dropped, stranded, unchecked>>

\* Both balances exceed the trust quota (an unlimited token always does).
Trusted(r, userQuota) ==
    /\ userQuota > TrustQuota
    /\ \/ req[r].tok \in UnlimitedTokens
       \/ req[r].tokenQuota > TrustQuota

\* Mutant of CheckUserQuota: only the estimate is compared, an empty account
\* is not refused.
CheckEstimateOnly(r) ==
    /\ req[r].pc = "check_user"
    /\ \/ db["quota"] < req[r].pre /\ Finish(r)
       \/ /\ db["quota"] >= req[r].pre \/ req[r].pre = 0
          /\ req[r].pre = 0 \/ Trusted(r, db["quota"])
          /\ Admit(r, 0)
       \/ /\ db["quota"] >= req[r].pre /\ req[r].pre > 0
          /\ ~Trusted(r, db["quota"])
          /\ Goto(r, IF Playground(r) THEN "hold_user" ELSE "check_token")
    /\ UNCHANGED <<db, store, drain, phase, tokenStatus, started, dbErrs,
                   crashes, tokenBilled, dropped, stranded, unchecked>>

\* PreConsumeQuota reads the user's quota, refuses, trusts, or goes on to hold.
CheckUserQuota(r) ==
    /\ req[r].pc = "check_user"
    /\ \/ /\ db["quota"] <= 0 \/ db["quota"] < req[r].pre
          /\ Finish(r)
       \/ /\ db["quota"] > 0 /\ db["quota"] >= req[r].pre
          /\ req[r].pre = 0 \/ Trusted(r, db["quota"])
          /\ Admit(r, 0)
       \/ /\ db["quota"] > 0 /\ db["quota"] >= req[r].pre
          /\ req[r].pre > 0 /\ ~Trusted(r, db["quota"])
          /\ Goto(r, IF Playground(r) THEN "hold_user" ELSE "check_token")
    /\ UNCHANGED <<db, store, drain, phase, tokenStatus, started, dbErrs,
                   crashes, tokenBilled, dropped, stranded, unchecked>>

\* PreConsumeTokenQuota reads the token again ...
CheckTokenQuota(r) ==
    /\ req[r].pc = "check_token"
    /\ IF req[r].tok \notin UnlimitedTokens /\ db[req[r].tok] < req[r].pre
       THEN Finish(r)
       ELSE Goto(r, "hold_token")
    /\ UNCHANGED <<db, store, drain, phase, tokenStatus, started, dbErrs,
                   crashes, tokenBilled, dropped, stranded, unchecked>>

\* ... and takes the estimate from it,
HoldToken(r) ==
    /\ req[r].pc = "hold_token"
    /\ \/ /\ Add(req[r].tok, -req[r].pre)
          /\ Goto(r, "hold_user")
          /\ UNCHANGED dbErrs
       \/ AddFails /\ Finish(r)
    /\ UNCHANGED <<drain, phase, tokenStatus, started, crashes, tokenBilled,
                   dropped, stranded, unchecked>>

\* then from the user.  If that write fails the token keeps the debit: the
\* request ends before the deferred refund exists.
HoldUser(r) ==
    /\ req[r].pc = "hold_user"
    /\ \/ /\ Add("quota", -req[r].pre)
          /\ Admit(r, req[r].pre)
          /\ UNCHANGED <<dbErrs, stranded>>
       \/ AddFails /\ Finish(r) /\ Strand({req[r].tok}, r)
    /\ UNCHANGED <<drain, phase, tokenStatus, started, crashes, tokenBilled,
                   dropped, unchecked>>

-----------------------------------------------------------------------------
(* The upstream call and the settlement *)

\* Mutant of RetryUpstream: the hold is returned after every failed attempt.
RetryReturningHold(r) ==
    /\ req[r].pc = "upstream" /\ ~req[r].hung
    /\ req[r].attempt < MaxRetries
    /\ req' = [req EXCEPT ![r] = [req[r] EXCEPT !.attempt = @ + 1]]
    /\ Add("quota", req[r].final)
    /\ UNCHANGED <<drain, phase, tokenStatus, started, dbErrs, crashes,
                   tokenBilled, dropped, stranded, unchecked>>

\* Mutant of RetryUpstream: the counter starts again when it reaches its limit.
RetryWithoutLimit(r) ==
    /\ req[r].pc = "upstream" /\ ~req[r].hung
    /\ req' = [req EXCEPT ![r].attempt = (@ + 1) % (MaxRetries + 1)]
    /\ UNCHANGED <<db, store, drain, phase, tokenStatus, started, dbErrs,
                   crashes, tokenBilled, dropped, stranded, unchecked>>

\* The attempt failed, shouldRetry says yes and another channel was found.
RetryUpstream(r) ==
    /\ req[r].pc = "upstream" /\ ~req[r].hung
    /\ req[r].attempt < MaxRetries
    /\ req' = [req EXCEPT ![r] = [req[r] EXCEPT !.attempt = @ + 1]]
    /\ UNCHANGED <<db, store, drain, phase, tokenStatus, started, dbErrs,
                   crashes, tokenBilled, dropped, stranded, unchecked>>

\* The upstream takes the attempt and never answers.  RELAY_TIMEOUT is unset as
\* shipped, and the request has no context that ends when the caller leaves.
HangUpstream(r) ==
    /\ req[r].pc = "upstream" /\ ~req[r].hung
    /\ req' = [req EXCEPT ![r] = [req[r] EXCEPT !.hung = TRUE]]
    /\ UNCHANGED <<db, store, drain, phase, tokenStatus, started, dbErrs,
                   crashes, tokenBilled, dropped, stranded, unchecked>>

\* PostConsumeQuota(v) is to run: v is what is still to be taken.
Post(r, v) ==
    IF v = 0 THEN Finish(r)
    ELSE req' = [req EXCEPT ![r] = [req[r] EXCEPT !.pc = "post_user", !.delta = v]]

\* The last attempt failed: the deferred function hands the hold to a
\* goroutine that returns it.
FailUpstream(r) ==
    /\ req[r].pc = "upstream" /\ ~req[r].hung
    /\ Post(r, -req[r].final)
    /\ UNCHANGED <<db, store, drain, phase, tokenStatus, started, dbErrs,
                   crashes, tokenBilled, dropped, stranded, unchecked>>

\* An attempt was answered and the price is known: used_quota grows by it
\* (a failed write is only logged) and the difference to the hold is posted.
ServeUpstream(r, price) ==
    /\ req[r].pc = "upstream" /\ ~req[r].hung
    /\ \/ Add("used", price) /\ UNCHANGED <<dbErrs, dropped>>
       \/ AddFails /\ dropped' = [dropped EXCEPT !["used"] = @ + price]
    /\ Post(r, price - req[r].final)
    /\ tokenBilled' = [t \in Tokens |->
                          IF t = req[r].tok THEN tokenBilled[t] + price
                          ELSE tokenBilled[t]]
    /\ unchecked' = unchecked + IF req[r].free THEN price ELSE 0
    /\ UNCHANGED <<drain, phase, tokenStatus, started, crashes, stranded>>

\* Mutant of PostUser: an error of the user's part is ignored.
PostUserIgnoringError(r) ==
    /\ req[r].pc = "post_user"
    /\ \/ Add("quota", -req[r].delta) /\ UNCHANGED dbErrs
       \/ AddFails
    /\ IF Playground(r) THEN Finish(r) ELSE Goto(r, "post_token")
    /\ UNCHANGED <<drain, phase, tokenStatus, started, crashes, tokenBilled,
                   dropped, stranded, unchecked>>

\* PostConsumeQuota: the user first; on an error the token is not touched.
PostUser(r) ==
    /\ req[r].pc = "post_user"
    /\ \/ /\ Add("quota", -req[r].delta)
          /\ IF Playground(r) THEN Finish(r) ELSE Goto(r, "post_token")
          /\ UNCHANGED <<dbErrs, stranded>>
       \/ AddFails /\ Finish(r) /\ Strand({"quota", req[r].tok}, r)
    /\ UNCHANGED <<drain, phase, tokenStatus, started, crashes, tokenBilled,
                   dropped, unchecked>>

\* PostConsumeQuota: then the token.
PostToken(r) ==
    /\ req[r].pc = "post_token"
    /\ Finish(r)
    /\ \/ Add(req[r].tok, -req[r].delta) /\ UNCHANGED <<dbErrs, stranded>>
       \/ AddFails /\ Strand({req[r].tok}, r)
    /\ UNCHANGED <<drain, phase, tokenStatus, started, crashes, tokenBilled,
                   dropped, unchecked>>

-----------------------------------------------------------------------------
(* The batch updater *)

\* Mutant of SwapNextType: the map is read but not replaced.
SwapKeepingStore ==
    /\ BatchUpdateEnabled
    /\ phase = 0 => \E c \in Columns : store[c] # 0
    /\ \A c \in Columns : drain[c] = 0
    /\ phase' = (phase + 1) % 4
    /\ drain' = [c \in Columns |-> IF Type(c) = phase' THEN store[c] ELSE 0]
    /\ UNCHANGED <<db, store, req, tokenStatus, started, dbErrs, crashes,
                   tokenBilled, dropped, stranded, unchecked>>

\* Mutant of SwapNextType: all maps are replaced when one is taken.
SwapClearingAll ==
    /\ BatchUpdateEnabled
    /\ phase = 0 => \E c \in Columns : store[c] # 0
    /\ \A c \in Columns : drain[c] = 0
    /\ phase' = (phase + 1) % 4
    /\ drain' = [c \in Columns |-> IF Type(c) = phase' THEN store[c] ELSE 0]
    /\ store' = Zero(Columns)
    /\ UNCHANGED <<db, req, tokenStatus, started, dbErrs, crashes, tokenBilled,
                   dropped, stranded, unchecked>>

\* Mutant of SwapNextType: the loop ends one type too early.
SwapMissingLastType ==
    /\ BatchUpdateEnabled
    /\ phase = 0 => \E c \in Columns : store[c] # 0
    /\ \A c \in Columns : drain[c] = 0
    /\ phase' = (phase + 1) % 3
    /\ drain' = [c \in Columns |-> IF Type(c) = phase' THEN store[c] ELSE 0]
    /\ store' = [c \in Columns |-> IF Type(c) = phase' THEN 0 ELSE store[c]]
    /\ UNCHANGED <<db, req, tokenStatus, started, dbErrs, crashes, tokenBilled,
                   dropped, stranded, unchecked>>

\* batchUpdate swaps the map of the next type for an empty one, under its lock.
SwapNextType ==
    /\ BatchUpdateEnabled
    /\ phase = 0 => \E c \in Columns : store[c] # 0
    /\ \A c \in Columns : drain[c] = 0
    /\ phase' = (phase + 1) % 4
    /\ drain' = [c \in Columns |-> IF Type(c) = phase' THEN store[c] ELSE 0]
    /\ store' = [c \in Columns |-> IF Type(c) = phase' THEN 0 ELSE store[c]]
    /\ UNCHANGED <<db, req, tokenStatus, started, dbErrs, crashes, tokenBilled,
                   dropped, stranded, unchecked>>

\* It applies one swapped value; if the write fails the value is only logged.
ApplyChange(c) ==
    /\ drain[c] # 0
    /\ drain' = [drain EXCEPT ![c] = 0]
    /\ \/ db' = [db EXCEPT ![c] = @ + drain[c]] /\ UNCHANGED <<dbErrs, dropped>>
       \/ /\ dbErrs < MaxDBErrors
          /\ dbErrs' = dbErrs + 1
          /\ dropped' = [dropped EXCEPT ![c] = @ + drain[c]]
          /\ UNCHANGED db
    /\ UNCHANGED <<store, phase, req, tokenStatus, started, crashes, tokenBilled,
                   stranded, unchecked>>

-----------------------------------------------------------------------------
(* Faults and the specification *)

\* The process dies: its goroutines and both batch maps are gone.
Crash ==
    /\ crashes < MaxCrashes
    /\ crashes' = crashes + 1
    /\ req' = [r \in Requests |-> Idle]
    /\ stranded' = [l \in Ledgers |->
                       [r \in Requests |-> stranded[l][r] + Out(l, req[r])]]
    /\ dropped' = [c \in Columns |-> dropped[c] + store[c] + drain[c]]
    /\ store' = Zero(Columns) /\ drain' = Zero(Columns) /\ phase' = 0
    /\ UNCHANGED <<db, tokenStatus, started, dbErrs, tokenBilled, unchecked>>

Begin(r) ==
    \E p \in Estimates : PlaygroundAuth(r, p) \/ \E t \in Tokens : TokenAuth(r, t, p)

\* The steps of a request once it was let in.
Proceed(r) ==
    \/ MarkExhausted(r) \/ SkipPreConsume(r) \/ CheckUserQuota(r)
    \/ CheckTokenQuota(r) \/ HoldToken(r) \/ HoldUser(r)
    \/ RetryUpstream(r) \/ FailUpstream(r) \/ HangUpstream(r)
    \/ \E price \in Prices : ServeUpstream(r, price)
    \/ PostUser(r) \/ PostToken(r)

BatchUpdate == SwapNextType \/ \E c \in Columns : ApplyChange(c)

Next ==
    \/ \E r \in Requests : Begin(r) \/ Proceed(r)
    \/ BatchUpdate
    \/ Crash

Spec == Init /\ [][Next]_vars

\* The runtime runs every goroutine that does not wait for an upstream that
\* hangs, and the batch updater's timer fires.
FairSpec ==
    /\ Spec
    /\ \A r \in Requests : WF_vars(Proceed(r))
    /\ WF_vars(BatchUpdate)

-----------------------------------------------------------------------------
(* Properties *)

TypeOK ==
    /\ db \in [Columns -> Int] /\ store \in [Columns -> Int]
    /\ drain \in [Columns -> Int] /\ phase \in 0..3
    /\ req \in [Requests -> Request]
    /\ tokenStatus \in [Tokens -> {"enabled", "exhausted"}]
    /\ started \in Nat /\ dbErrs \in Nat /\ crashes \in Nat
    /\ tokenBilled \in [Tokens -> Nat]
    /\ dropped \in [Columns -> Int]
    /\ stranded \in [Ledgers -> [Requests -> Int]]
    /\ unchecked \in Nat

\* What a control state says about the request in it.
ControlOK ==
    \A r \in Requests :
        /\ req[r].pc \in {"exhaust", "check_token", "hold_token", "post_token"}
              => req[r].tok \in Tokens
        /\ req[r].pc \in {"check_token", "hold_token", "hold_user"}
              => req[r].pre > 0
        /\ req[r].pc \in {"post_user", "post_token"} => req[r].delta # 0
        /\ req[r].pc = "check_user" => req[r].final = 0

Sum(f) == FoldFunction(LAMBDA x, y : x + y, 0, f)

\* No interleaving of holds, settlements, refunds and batch writes makes or
\* loses user quota: what was funded is available, billed to used_quota, held
\* or owed by a request in flight, or was lost to a fault.
UserFundsConserved ==
    Book("quota") + Book("used") + dropped["quota"] + dropped["used"]
      + Sum([r \in Requests |-> UserOut(req[r])]) + Sum(stranded["quota"])
    = UserFunded

\* The same for each token: the token and the user are charged the same price
\* for a request although they are charged by separate statements.
TokenFundsConserved ==
    \A t \in Tokens :
        Book(t) + tokenBilled[t] + dropped[t]
          + Sum([r \in Requests |-> Out(t, req[r])]) + Sum(stranded[t])
        = TokenFunded[t]

Worst == CHOOSE m \in Estimates \cup Prices : \A x \in Estimates \cup Prices : x <= m

\* Admission reads a balance that other requests spend at the same time, so it
\* can be overdrawn; but a limited token only by what was in flight together,
\* however many requests follow, and the user by no more than that and what
\* requests cost that were let in without a look at the user's quota (without
\* the batch updater, whose delay has no such bound).
OverdraftBounded ==
    ~BatchUpdateEnabled =>
        \A l \in Ledgers \ UnlimitedTokens :
            LET kept == db[l] + IF l = "quota" THEN unchecked ELSE 0
            IN \/ kept >= 1 - Cardinality(Requests) * Worst
               \/ kept >= IF l = "quota" THEN UserFunded ELSE TokenFunded[l]

\* Every hold is settled or returned, through retries, failed writes and
\* crashes, unless the upstream hangs: that alone keeps a hold for good.
HoldsAreSettled ==
    \A r \in Requests : UserOut(req[r]) # 0 ~> UserOut(req[r]) = 0 \/ req[r].hung

\* When the traffic ends, every change of a quota reaches the database.
BooksReachDatabase == <>[](\A c \in Columns : db[c] = Book(c))

\* The user's account, and each token's, as QuotaAccount describes them.
Account(l) == INSTANCE QuotaAccount WITH
    Funded <- IF l = "quota" THEN UserFunded ELSE TokenFunded[l],
    Faults <- MaxDBErrors + MaxCrashes > 0,
    balance <- Book(l) + dropped[l],
    billed <- IF l = "quota" THEN Book("used") + dropped["used"]
              ELSE tokenBilled[l],
    outstanding <- [r \in Requests |-> Out(l, req[r])],
    stranded <- stranded[l]

\* Pre-consumption, retries, settlement, refunds and batching implement the
\* accounts: every step reserves, serves, squares or abandons one request's
\* amount in full, or changes nothing.  This is \A l \in Ledgers :
\* Account(l)!Spec with the quantifier inside the box.
ImplementsAccounts ==
    /\ \A l \in Ledgers : Account(l)!Init
    /\ [][\A l \in Ledgers : [Account(l)!Next]_(Account(l)!acctVars)]_vars

=============================================================================
