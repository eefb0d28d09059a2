---------------------------- MODULE ChannelPool -----------------------------
(***************************************************************************)
(* The status of the upstream channels, which is kept three times: in the  *)
(* rows of channels, in the rows of abilities, and (MemoryCacheEnabled) in *)
(* the node's channel cache with its index of enabled channels.  Writers:  *)
(* goroutines that report a failing channel (UpdateChannelStatus, under    *)
(* channelStatusLock), testAllChannels (which enables what recovered), the *)
(* administrator (no lock), and InitChannelCache, which reads the rows and *)
(* replaces the cache a moment later.                                      *)
(***************************************************************************)
EXTENDS Integers, FiniteSets

CONSTANTS
    Channels,
    Tagged,        \* the channels of one tag
    Workers,       \* goroutines that report failing channels
    Testers,       \* callers of testAllChannels: the ticker and the endpoint
    None,
    MaxReports,    \* bound: reports of a failing channel
    MaxOps,        \* bound: operations of the administrator
    MaxRounds,     \* bound: calls of testAllChannels
    MaxFailures    \* bound: failing database statements

Procs == Workers \cup Testers

ASSUME PoolAssumption ==
    /\ Tagged \subseteq Channels
    /\ Workers \cap Testers = {}
    /\ None \notin Procs \cup Channels
    /\ {MaxReports, MaxOps, MaxRounds, MaxFailures} \subseteq Nat

VARIABLES
    row,       \* channels.status
    ability,   \* abilities.enabled
    cached,    \* status in channelsIDM, or "gone"
    index,     \* channels in group2model2channels, of one group and model
    lock,      \* holder of channelStatusLock
    job,       \* per process: the step of its UpdateChannelStatus call
    admin,     \* the administrator's operation
    snapshot,  \* rows an InitChannelCache has read, by caller
    running,   \* testAllChannelsRunning
    round,     \* per tester: "idle", "list", "test"
    seen,      \* per tester: statuses of the list it goes through
    todo,      \* per tester: channels still to be tested
    count      \* reports, ops, rounds and failures so far

vars == <<row, ability, cached, index, lock, job, admin, snapshot, running,
          round, seen, todo, count>>

db == <<row, ability>>
cache == <<cached, index>>
tests == <<running, round, seen, todo>>

Statuses == {"enabled", "auto", "manual"}
CacheStatuses == Statuses \cup {"gone"}   \* "gone": not in channelsIDM
Loaders == {"cron", "admin"}

Idle == [pc |-> "idle", ch |-> None, to |-> "enabled"]

\* The index InitChannelCache builds from the rows S.
IndexOf(S) == {c \in Channels : S[c] = "enabled"}

Init ==
    /\ row \in [Channels -> Statuses]
    /\ ability = [c \in Channels |-> row[c] = "enabled"]
    /\ cached = row /\ index = IndexOf(row)
    /\ lock = None /\ job = [p \in Procs |-> Idle]
    /\ admin = [pc |-> "idle", chs |-> {}, to |-> "enabled"]
    /\ snapshot = [l \in Loaders |-> None]
    /\ running = FALSE /\ round = [t \in Testers |-> "idle"]
    /\ seen = [t \in Testers |-> row] /\ todo = [t \in Testers |-> {}]
    /\ count = [reports |-> 0, ops |-> 0, rounds |-> 0, failures |-> 0]

Count(what, max) ==
    count[what] < max /\ count' = [count EXCEPT ![what] = @ + 1]

\* A database statement fails.
Fail == Count("failures", MaxFailures)

-----------------------------------------------------------------------------
(* UpdateChannelStatus *)

Goto(p, pc) == job' = [job EXCEPT ![p].pc = pc]

\* The call returns; its defer releases the lock.
Return(p) == job' = [job EXCEPT ![p] = Idle] /\ lock' = None

\* DisableChannel after an upstream error, and the Midjourney handler, which
\* disables as if by hand.  The goroutine may have selected the channel long ago.
Report(w, c, to) ==
    /\ job[w].pc = "idle"
    /\ Count("reports", MaxReports)
    /\ job' = [job EXCEPT ![w] = [pc |-> "begin", ch |-> c, to |-> to]]
    /\ UNCHANGED <<db, cache, lock, admin, snapshot, tests>>

\* Mutant of Begin: channelStatusLock is not taken.
BeginUnlocked(p) ==
    /\ job[p].pc = "begin"
    /\ IF cached[job[p].ch] \in {job[p].to, "gone"} THEN Return(p)
       ELSE lock' = lock /\ Goto(p, "cache")
    /\ UNCHANGED <<db, cache, admin, snapshot, tests, count>>

\* Nothing to do if the cached status is the new one, or nothing is cached.
Begin(p) ==
    /\ job[p].pc = "begin" /\ lock = None
    /\ IF cached[job[p].ch] \in {job[p].to, "gone"} THEN Return(p)
       ELSE lock' = p /\ Goto(p, "cache")
    /\ UNCHANGED <<db, cache, admin, snapshot, tests, count>>

\* Mutant of CacheUpdate: the index keeps a disabled channel.
CacheUpdateStatusOnly(p) ==
    /\ job[p].pc = "cache"
    /\ LET c == job[p].ch to == job[p].to
       IN  /\ cached' = [cached EXCEPT ![c] = IF @ = "gone" THEN @ ELSE to]
           /\ index' = index
    /\ Goto(p, "read")
    /\ UNCHANGED <<db, lock, admin, snapshot, tests, count>>

\* CacheUpdateChannelStatus takes a channel that is disabled out of the index, and
\* does not add one that is enabled.
CacheUpdate(p) ==
    /\ job[p].pc = "cache"
    /\ LET c == job[p].ch to == job[p].to
       IN  /\ cached' = [cached EXCEPT ![c] = IF @ = "gone" THEN @ ELSE to]
           /\ index' = IF to = "enabled" THEN index ELSE index \ {c}
    /\ Goto(p, "read")
    /\ UNCHANGED <<db, lock, admin, snapshot, tests, count>>

\* GetChannelById, and nothing more if the row has the new status already.
ReadRow(p) ==
    /\ job[p].pc = "read"
    /\ \/ /\ IF row[job[p].ch] = job[p].to THEN Return(p)
             ELSE Goto(p, "save") /\ lock' = lock
          /\ count' = count
       \/ Return(p) /\ Fail
    /\ UNCHANGED <<db, cache, admin, snapshot, tests>>

\* SaveWithoutKey; the abilities follow even if it fails ...
SaveRow(p) ==
    /\ job[p].pc = "save"
    /\ \/ row' = [row EXCEPT ![job[p].ch] = job[p].to] /\ count' = count
       \/ row' = row /\ Fail
    /\ Goto(p, "ability")
    /\ UNCHANGED <<ability, cache, lock, admin, snapshot, tests>>

\* ... in a defer that runs before the one that unlocks.
SaveAbility(p) ==
    /\ job[p].pc = "ability"
    /\ \/ /\ ability' = [ability EXCEPT ![job[p].ch] = (job[p].to = "enabled")]
          /\ count' = count
       \/ ability' = ability /\ Fail
    /\ Return(p)
    /\ UNCHANGED <<row, cache, admin, snapshot, tests>>

-----------------------------------------------------------------------------
(* The administrator *)

\* EnableChannelByTag, DisableChannelByTag: one statement for the rows ...
SwitchTag(to) ==
    /\ admin.pc = "idle" /\ to \in {"enabled", "manual"}
    /\ Count("ops", MaxOps)
    /\ row' = [c \in Channels |-> IF c \in Tagged THEN to ELSE row[c]]
    /\ admin' = [pc |-> "ability", chs |-> Tagged, to |-> to]
    /\ UNCHANGED <<ability, cache, lock, job, snapshot, tests>>

\* Channel.Update writes the form's status, reads the row again ...
Edit(c, to) ==
    /\ admin.pc = "idle"
    /\ Count("ops", MaxOps)
    /\ row' = [row EXCEPT ![c] = to]
    /\ admin' = [pc |-> "reread", chs |-> {c}, to |-> to]
    /\ UNCHANGED <<ability, cache, lock, job, snapshot, tests>>

Reread ==
    /\ admin.pc = "reread"
    /\ \/ /\ \E c \in admin.chs : admin' = [admin EXCEPT !.pc = "ability", !.to = row[c]]
          /\ count' = count
       \/ admin' = [admin EXCEPT !.pc = "ability"] /\ Fail
    /\ UNCHANGED <<db, cache, lock, job, snapshot, tests>>

\* ... and one for the abilities; InitChannelCache only if it succeeds.
AdminAbility ==
    /\ admin.pc = "ability"
    /\ \/ /\ ability' = [c \in Channels |-> IF c \in admin.chs
                                            THEN admin.to = "enabled" ELSE ability[c]]
          /\ admin' = [admin EXCEPT !.pc = "load"] /\ count' = count
       \/ ability' = ability /\ admin' = [admin EXCEPT !.pc = "idle"] /\ Fail
    /\ UNCHANGED <<row, cache, lock, job, snapshot, tests>>

-----------------------------------------------------------------------------
(* InitChannelCache: of the ticker SyncChannelCacheWithContext ("cron") and   *)
(* at the end of the administrator's operation                                *)

\* The error of the query is not looked at: some rows, or all, may be missing.
ReadRows(l) ==
    /\ snapshot[l] = None
    /\ l = "admin" => admin.pc = "load"
    /\ \/ snapshot' = [snapshot EXCEPT ![l] = row] /\ count' = count
       \/ /\ \E missing \in SUBSET Channels :
              snapshot' = [snapshot EXCEPT ![l] =
                             [c \in Channels |-> IF c \in missing THEN "gone" ELSE row[c]]]
          /\ Fail
    /\ UNCHANGED <<db, cache, lock, job, admin, tests>>

\* Nor is that of the second query, for the abilities: without the group of an
\* enabled channel the build of the index panics, and the handler has no cache
\* to install. (In the goroutine of the ticker that ends the process.)
RebuildPanics ==
    /\ admin.pc = "load" /\ snapshot["admin"] = None
    /\ IndexOf(row) # {}
    /\ admin' = [admin EXCEPT !.pc = "idle"]
    /\ Fail
    /\ UNCHANGED <<db, cache, lock, job, snapshot, tests>>

\* Mutant of Install: the new index is merged with the old one.
InstallMerging(l) ==
    /\ snapshot[l] # None
    /\ cached' = snapshot[l]
    /\ index' = index \cup IndexOf(snapshot[l])
    /\ snapshot' = [snapshot EXCEPT ![l] = None]
    /\ admin' = IF l = "admin" THEN [admin EXCEPT !.pc = "idle"] ELSE admin
    /\ UNCHANGED <<db, lock, job, tests, count>>

\* The rows may have changed, and another InitChannelCache may have installed
\* newer ones, since these were read.
Install(l) ==
    /\ snapshot[l] # None
    /\ cached' = snapshot[l] /\ index' = IndexOf(snapshot[l])
    /\ snapshot' = [snapshot EXCEPT ![l] = None]
    /\ admin' = IF l = "admin" THEN [admin EXCEPT !.pc = "idle"] ELSE admin
    /\ UNCHANGED <<db, lock, job, tests, count>>

-----------------------------------------------------------------------------
(* testAllChannels *)

\* Mutant of StartRound: the flag is not looked at.
StartRoundAnyway(t) ==
    /\ round[t] = "idle"
    /\ Count("rounds", MaxRounds)
    /\ running' = TRUE /\ round' = [round EXCEPT ![t] = "list"]
    /\ UNCHANGED <<db, cache, lock, job, admin, snapshot, seen, todo>>

\* The flag is tested and set under testAllChannelsLock.
StartRound(t) ==
    /\ round[t] = "idle"
    /\ Count("rounds", MaxRounds)
    /\ IF running THEN UNCHANGED <<running, round>>
       ELSE running' = TRUE /\ round' = [round EXCEPT ![t] = "list"]
    /\ UNCHANGED <<db, cache, lock, job, admin, snapshot, seen, todo>>

\* GetAllChannels; an error returns at once.
ListChannels(t) ==
    /\ round[t] = "list"
    /\ \/ /\ seen' = [seen EXCEPT ![t] = row]
          /\ todo' = [todo EXCEPT ![t] = Channels]
          /\ round' = [round EXCEPT ![t] = "test"] /\ count' = count
       \/ round' = [round EXCEPT ![t] = "idle"] /\ Fail /\ UNCHANGED <<seen, todo>>
    /\ UNCHANGED <<db, cache, lock, job, admin, snapshot, running>>

\* A channel that answers and was auto-disabled when the list was read is
\* enabled.  (One that fails is reported, by another goroutine: Report.)
TestChannel(t, c, answers) ==
    /\ round[t] = "test" /\ job[t].pc = "idle" /\ c \in todo[t]
    /\ todo' = [todo EXCEPT ![t] = @ \ {c}]
    /\ job' = IF answers /\ seen[t][c] = "auto"
              THEN [job EXCEPT ![t] = [pc |-> "begin", ch |-> c, to |-> "enabled"]]
              ELSE job
    /\ UNCHANGED <<db, cache, lock, admin, snapshot, running, round, seen, count>>

\* The goroutine's defer.
EndRound(t) ==
    /\ round[t] = "test" /\ job[t].pc = "idle" /\ todo[t] = {}
    /\ running' = FALSE /\ round' = [round EXCEPT ![t] = "idle"]
    /\ UNCHANGED <<db, cache, lock, job, admin, snapshot, seen, todo, count>>

-----------------------------------------------------------------------------

UpdateChannelStatus(p) ==
    Begin(p) \/ CacheUpdate(p) \/ ReadRow(p) \/ SaveRow(p) \/ SaveAbility(p)

AdminStep ==
    Reread \/ AdminAbility \/ ReadRows("admin") \/ RebuildPanics \/ Install("admin")

Sync == ReadRows("cron") \/ Install("cron")

TestStep(t) ==
    \/ ListChannels(t) \/ EndRound(t)
    \/ \E c \in Channels, answers \in BOOLEAN : TestChannel(t, c, answers)

Next ==
    \/ \E w \in Workers, c \in Channels, to \in {"auto", "manual"} : Report(w, c, to)
    \/ \E p \in Procs : UpdateChannelStatus(p)
    \/ \E to \in Statuses : SwitchTag(to) \/ \E c \in Channels : Edit(c, to)
    \/ AdminStep
    \/ Sync
    \/ \E t \in Testers : StartRound(t) \/ TestStep(t)

Spec == Init /\ [][Next]_vars

\* The ticker of the sync goes on, and calls that have begun are finished.
FairSpec ==
    /\ Spec
    /\ WF_vars(Sync) /\ WF_vars(AdminStep)
    /\ \A p \in Procs : WF_vars(UpdateChannelStatus(p))
    /\ \A t \in Testers : WF_vars(TestStep(t))

-----------------------------------------------------------------------------
(* Properties *)

JobSteps == {"idle", "begin", "cache", "read", "save", "ability"}

TypeOK ==
    /\ row \in [Channels -> Statuses] /\ ability \in [Channels -> BOOLEAN]
    /\ cached \in [Channels -> CacheStatuses]
    /\ index \subseteq Channels
    /\ lock \in Procs \cup {None}
    /\ job \in [Procs -> [pc : JobSteps, ch : Channels \cup {None}, to : Statuses]]
    /\ \A p \in Procs : lock = p <=> job[p].pc \notin {"idle", "begin"}
    /\ admin \in [pc : {"idle", "reread", "ability", "load"},
                  chs : SUBSET Channels, to : Statuses]
    /\ snapshot \in [Loaders -> [Channels -> CacheStatuses] \cup {None}]
    /\ running \in BOOLEAN /\ round \in [Testers -> {"idle", "list", "test"}]
    /\ seen \in [Testers -> [Channels -> Statuses]]
    /\ todo \in [Testers -> SUBSET Channels]
    /\ count \in [{"reports", "ops", "rounds", "failures"} -> Nat]

\* Reports and tests that overlap leave the abilities of every channel as its
\* row says, as long as no statement fails and no administrator interferes.
AbilitiesAgree ==
    (count.ops = 0 /\ count.failures = 0 /\ \A p \in Procs : job[p].pc \in {"idle", "begin"})
    => \A c \in Channels : ability[c] = (row[c] = "enabled")

\* What the cache knows as disabled is not selected, though stale rows be
\* installed between the steps of a report.
DisabledNotSelected == \A c \in index : cached[c] = "enabled"

\* The ticker and the endpoint never test the channels at the same time.
OneRound == Cardinality({t \in Testers : round[t] # "idle"}) <= 1

\* When nothing changes the rows any more the cache and the index come to agree
\* with them, whatever stale or missing rows were installed and whichever
\* statements failed.
CacheConverges ==
    <>[](cached = row /\ index = IndexOf(row))

=============================================================================
