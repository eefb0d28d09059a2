-------------------------- MODULE ChannelPoolProofs -------------------------
(***************************************************************************)
(* Theorems about the status of channels: what the lock and the flag are   *)
(* for holds with any number of channels, reports, testers and failures.   *)
(***************************************************************************)
EXTENDS ChannelPool, FiniteSetTheorems, TLAPS

-----------------------------------------------------------------------------
(* The invariant                                                           *)

\* A call under way is about a channel.
Named == \A p \in Procs : job[p].pc # "idle" => job[p].ch \in Channels

\* At most one tester is testing, and the flag is set while it does.
Testing(t) == round[t] # "idle"
Flagged ==
    /\ \A t \in Testers : Testing(t) => running
    /\ \A t, u \in Testers : Testing(t) /\ Testing(u) => t = u

\* Without failures and administrators, the holder of the lock that has saved
\* a row is the only one to have left a channel's abilities behind.
Agrees(c) == ability[c] = (row[c] = "enabled")
Quiet == count.ops = 0 /\ count.failures = 0
Agreement ==
    /\ count.ops = 0 => admin.pc = "idle"
    /\ Quiet => /\ \A p \in Procs : job[p].pc = "ability" => row[job[p].ch] = job[p].to
                /\ \A c \in Channels : Agrees(c) \/ \E p \in Procs : job[p].pc = "ability"
                                                                   /\ job[p].ch = c

\* The inductive invariant.
Inv == TypeOK /\ Named /\ DisabledNotSelected /\ Flagged /\ Agreement

-----------------------------------------------------------------------------
(* Types                                                                   *)

Counters == {"reports", "ops", "rounds", "failures"}

\* What Count does to the counters.
LEMMA Counting ==
    ASSUME count \in [Counters -> Nat], NEW w \in Counters, NEW max, Count(w, max)
    PROVE  /\ count' \in [Counters -> Nat] /\ count'[w] = count[w] + 1
           /\ \A v \in Counters \ {w} : count'[v] = count[v]
BY DEF Count, Counters

LEMMA CountTypes == TypeOK => count \in [Counters -> Nat] /\ "failures" \in Counters
                              /\ "ops" \in Counters /\ "rounds" \in Counters /\ "reports" \in Counters
BY DEF TypeOK, Counters

\* What the types say of a call.
LEMMA JobTypes ==
    ASSUME TypeOK, NEW p \in Procs
    PROVE  /\ job[p] \in [pc : JobSteps, ch : Channels \cup {None}, to : Statuses]
           /\ job[p].pc \in JobSteps /\ job[p].to \in Statuses
           /\ lock = p <=> job[p].pc \notin {"idle", "begin"}
BY DEF TypeOK

\* A step of a call keeps the lock with the call that is past its beginning.
LEMMA GotoTypes ==
    ASSUME TypeOK, Named, NEW p \in Procs, NEW pc \in JobSteps \ {"idle"}, Goto(p, pc),
           job[p].pc # "idle",
           \/ lock' = lock /\ (job[p].pc \in {"idle", "begin"} <=> pc \in {"idle", "begin"})
           \/ lock = None /\ lock' = p /\ pc \notin {"idle", "begin"}
    PROVE  /\ job' \in [Procs -> [pc : JobSteps, ch : Channels \cup {None}, to : Statuses]]
           /\ lock' \in Procs \cup {None}
           /\ \A q \in Procs : lock' = q <=> job'[q].pc \notin {"idle", "begin"}
           /\ Named'
           /\ job'[p].pc = pc /\ job'[p].ch = job[p].ch /\ job'[p].to = job[p].to
           /\ \A q \in Procs \ {p} : job'[q] = job[q]
<1>1. job' = [job EXCEPT ![p] = [job[p] EXCEPT !.pc = pc]]
  BY DEF Goto
<1>2. [job[p] EXCEPT !.pc = pc] \in [pc : JobSteps, ch : Channels \cup {None}, to : Statuses]
  BY JobTypes
<1>3. job \in [Procs -> [pc : JobSteps, ch : Channels \cup {None}, to : Statuses]]
  BY DEF TypeOK
<1>4. job' \in [Procs -> [pc : JobSteps, ch : Channels \cup {None}, to : Statuses]]
  BY <1>1, <1>2, <1>3
<1>5. job'[p].pc = pc /\ job'[p].ch = job[p].ch /\ job'[p].to = job[p].to
      /\ \A q \in Procs \ {p} : job'[q] = job[q]
  BY <1>1, <1>2, <1>3
<1>6. None \notin Procs
  BY PoolAssumption
<1>7. \A q \in Procs : lock' = q <=> job'[q].pc \notin {"idle", "begin"}
  BY <1>5, <1>6, JobTypes
<1>8. lock' \in Procs \cup {None}
  BY DEF TypeOK
<1>9. Named'
  BY <1>5 DEF Named
<1> QED BY <1>4, <1>5, <1>7, <1>8, <1>9

\* A call that returns gives the lock back if it has it.
LEMMA ReturnTypes ==
    ASSUME TypeOK, Named, NEW p \in Procs, Return(p), lock \in {p, None}
    PROVE  /\ job' \in [Procs -> [pc : JobSteps, ch : Channels \cup {None}, to : Statuses]]
           /\ lock' \in Procs \cup {None}
           /\ \A q \in Procs : lock' = q <=> job'[q].pc \notin {"idle", "begin"}
           /\ Named'
           /\ job'[p].pc = "idle" /\ \A q \in Procs \ {p} : job'[q] = job[q]
<1>1. Idle \in [pc : JobSteps, ch : Channels \cup {None}, to : Statuses] /\ Idle.pc = "idle"
  BY DEF Idle, JobSteps, Statuses
<1>2. job \in [Procs -> [pc : JobSteps, ch : Channels \cup {None}, to : Statuses]]
  BY DEF TypeOK
<1>3. job' = [job EXCEPT ![p] = Idle] /\ lock' = None
  BY DEF Return
<1>4. job' \in [Procs -> [pc : JobSteps, ch : Channels \cup {None}, to : Statuses]]
  BY <1>1, <1>2, <1>3
<1>5. job'[p].pc = "idle" /\ \A q \in Procs \ {p} : job'[q] = job[q]
  BY <1>1, <1>2, <1>3
<1>6. \A q \in Procs : lock' = q <=> job'[q].pc \notin {"idle", "begin"}
  BY <1>3, <1>5, JobTypes, PoolAssumption
<1>7. Named'
  BY <1>5 DEF Named
<1> QED BY <1>3, <1>4, <1>5, <1>6, <1>7

-----------------------------------------------------------------------------
(* What most steps leave alone                                             *)

LEMMA CacheSame == DisabledNotSelected /\ UNCHANGED cache => DisabledNotSelected'
BY DEF cache, DisabledNotSelected

LEMMA TestsSame == Flagged /\ UNCHANGED tests => Flagged'
BY DEF tests, Flagged, Testing

\* The counters only grow.
Grown == /\ count' \in [Counters -> Nat]
         /\ count'["ops"] = 0 => count["ops"] = 0
         /\ count'["failures"] = 0 => count["failures"] = 0

LEMMA CountGrows ==
    ASSUME TypeOK, NEW w \in Counters, NEW max, Count(w, max)
    PROVE  Grown /\ (w = "ops" => count'["ops"] # 0) /\ (w = "failures" => count'["failures"] # 0)
<1>1. count \in [Counters -> Nat] /\ "ops" \in Counters /\ "failures" \in Counters
  BY CountTypes
<1>2. /\ count' \in [Counters -> Nat] /\ count'[w] = count[w] + 1
      /\ \A v \in Counters \ {w} : count'[v] = count[v]
  BY <1>1, Counting
<1>3. count[w] \in Nat /\ count[w] + 1 # 0
  BY <1>1
<1> QED BY <1>1, <1>2, <1>3 DEF Grown

LEMMA CountSame == TypeOK /\ count' = count => Grown
BY CountTypes DEF Grown

LEMMA FailGrows == TypeOK /\ Fail => Grown /\ count'["failures"] # 0
BY CountTypes, CountGrows DEF Fail

\* A step that writes no row and no ability, neither begins nor ends the
\* writing of one, and starts no operation of the administrator.
LEMMA AgreementSame ==
    ASSUME Agreement, UNCHANGED db, Grown, admin'.pc = admin.pc \/ admin.pc # "idle",
           \A p \in Procs : job[p].pc = "ability" \/ job'[p].pc = "ability" => job'[p] = job[p]
    PROVE  Agreement'
<1>1. row' = row /\ ability' = ability
  BY DEF db
<1>2. Quiet' => Quiet
  BY DEF Quiet, Grown
<1>3. count'.ops = 0 => admin'.pc = "idle"
  BY DEF Agreement, Grown
<1>4. Quiet' => \A p \in Procs : job'[p].pc = "ability" => row'[job'[p].ch] = job'[p].to
  BY <1>1, <1>2 DEF Agreement
<1>5. Quiet' => \A c \in Channels : Agrees(c)' \/ \E p \in Procs : job'[p].pc = "ability"
                                                             /\ job'[p].ch = c
  BY <1>1, <1>2 DEF Agreement, Agrees
<1> QED BY <1>3, <1>4, <1>5, Zenon DEF Agreement

-----------------------------------------------------------------------------
(* The calls of UpdateChannelStatus                                        *)

LEMMA ReportKeeps ==
    ASSUME Inv, NEW w \in Workers, NEW c \in Channels, NEW to \in {"auto", "manual"},
           Report(w, c, to)
    PROVE  Inv'
<1> USE DEF Inv
<1>1. w \in Procs /\ job[w].pc = "idle" /\ Count("reports", MaxReports)
      /\ UNCHANGED <<db, cache, lock, admin, snapshot, tests>>
  BY DEF Report, Procs
<1>2. Grown
  BY <1>1, CountTypes, CountGrows
<1> DEFINE n == [pc |-> "begin", ch |-> c, to |-> to]
<1>3. n \in [pc : JobSteps, ch : Channels \cup {None}, to : Statuses]
      /\ n.pc = "begin" /\ n.ch = c
  BY DEF JobSteps, Statuses
<1>4. job' = [job EXCEPT ![w] = n]
  BY DEF Report
<1> HIDE DEF n
<1>5. job' \in [Procs -> [pc : JobSteps, ch : Channels \cup {None}, to : Statuses]]
      /\ job'[w] = n /\ \A p \in Procs \ {w} : job'[p] = job[p]
  BY <1>1, <1>3, <1>4 DEF TypeOK
<1>6. \A p \in Procs : lock' = p <=> job'[p].pc \notin {"idle", "begin"}
  BY <1>1, <1>3, <1>5, JobTypes
<1>7. TypeOK'
  BY <1>1, <1>2, <1>5, <1>6, Zenon DEF TypeOK, db, cache, tests, Grown, Counters
<1>8. Named'
  BY <1>3, <1>5 DEF Named
<1>9. Agreement'
  BY <1>1, <1>2, <1>3, <1>5, AgreementSame
<1> QED BY <1>1, <1>7, <1>8, <1>9, CacheSame, TestsSame

LEMMA BeginKeeps == ASSUME Inv, NEW p \in Procs, Begin(p) PROVE Inv'
<1> USE DEF Inv
<1>1. job[p].pc = "begin" /\ lock = None /\ UNCHANGED <<db, cache, admin, snapshot, tests, count>>
  BY DEF Begin
<1>2. Grown
  BY <1>1, CountSame
<1>3. /\ job' \in [Procs -> [pc : JobSteps, ch : Channels \cup {None}, to : Statuses]]
      /\ lock' \in Procs \cup {None}
      /\ \A q \in Procs : lock' = q <=> job'[q].pc \notin {"idle", "begin"}
      /\ Named' /\ job'[p].pc # "ability" /\ \A q \in Procs \ {p} : job'[q] = job[q]
  <2>1. CASE Return(p)
    BY <1>1, <2>1, ReturnTypes
  <2>2. CASE lock' = p /\ Goto(p, "cache")
    BY <1>1, <2>2, GotoTypes DEF JobSteps
  <2> QED BY <2>1, <2>2 DEF Begin
<1>4. TypeOK'
  BY <1>1, <1>3, Zenon DEF TypeOK, db, cache, tests
<1>5. Agreement'
  BY <1>1, <1>2, <1>3, AgreementSame
<1> QED BY <1>1, <1>3, <1>4, <1>5, CacheSame, TestsSame

LEMMA CacheUpdateKeeps == ASSUME Inv, NEW p \in Procs, CacheUpdate(p) PROVE Inv'
<1> USE DEF Inv
<1>1. job[p].pc = "cache" /\ Goto(p, "read") /\ UNCHANGED <<db, lock, admin, snapshot, tests, count>>
  BY DEF CacheUpdate
<1>2. Grown
  BY <1>1, CountSame
<1>3. /\ job' \in [Procs -> [pc : JobSteps, ch : Channels \cup {None}, to : Statuses]]
      /\ lock' \in Procs \cup {None}
      /\ \A q \in Procs : lock' = q <=> job'[q].pc \notin {"idle", "begin"}
      /\ Named' /\ job'[p].pc # "ability" /\ \A q \in Procs \ {p} : job'[q] = job[q]
  BY <1>1, GotoTypes DEF JobSteps
<1>4. /\ cached' = [cached EXCEPT ![job[p].ch] = IF @ = "gone" THEN @ ELSE job[p].to]
      /\ index' = IF job[p].to = "enabled" THEN index ELSE index \ {job[p].ch}
  BY DEF CacheUpdate
<1>5. cached \in [Channels -> CacheStatuses] /\ index \subseteq Channels
  BY DEF TypeOK
<1>6. cached' \in [Channels -> CacheStatuses] /\ index' \subseteq Channels
  BY <1>4, <1>5, JobTypes DEF CacheStatuses
<1>7. TypeOK'
  BY <1>1, <1>3, <1>6, Zenon DEF TypeOK, db, tests
<1>8. DisabledNotSelected'
  BY <1>4, <1>5 DEF DisabledNotSelected
<1>9. Agreement'
  BY <1>1, <1>2, <1>3, AgreementSame
<1> QED BY <1>1, <1>3, <1>7, <1>8, <1>9, TestsSame

LEMMA ReadRowKeeps == ASSUME Inv, NEW p \in Procs, ReadRow(p) PROVE Inv'
<1> USE DEF Inv
<1>1. job[p].pc = "read" /\ UNCHANGED <<db, cache, admin, snapshot, tests>>
  BY DEF ReadRow
<1>2. Grown
  BY CountSame, FailGrows DEF ReadRow
<1>3. Return(p) \/ (Goto(p, "save") /\ lock' = lock)
  BY DEF ReadRow
<1>4. /\ job' \in [Procs -> [pc : JobSteps, ch : Channels \cup {None}, to : Statuses]]
      /\ lock' \in Procs \cup {None}
      /\ \A q \in Procs : lock' = q <=> job'[q].pc \notin {"idle", "begin"}
      /\ Named' /\ job'[p].pc # "ability" /\ \A q \in Procs \ {p} : job'[q] = job[q]
  <2>1. lock = p
    BY <1>1, JobTypes
  <2>2. CASE Return(p)
    BY <2>1, <2>2, ReturnTypes
  <2>3. CASE Goto(p, "save") /\ lock' = lock
    BY <1>1, <2>3, GotoTypes DEF JobSteps
  <2> QED BY <1>3, <2>2, <2>3
<1>5. TypeOK'
  BY <1>1, <1>2, <1>4, Zenon DEF TypeOK, db, cache, tests, Grown, Counters
<1>6. Agreement'
  BY <1>1, <1>2, <1>4, AgreementSame
<1> QED BY <1>1, <1>4, <1>5, <1>6, CacheSame, TestsSame

LEMMA SaveRowKeeps == ASSUME Inv, NEW p \in Procs, SaveRow(p) PROVE Inv'
<1> USE DEF Inv
<1>1. job[p].pc = "save" /\ Goto(p, "ability") /\ UNCHANGED <<ability, cache, lock, admin, snapshot, tests>>
  BY DEF SaveRow
<1>2. Grown
  BY CountSame, FailGrows DEF SaveRow
<1>3. /\ job' \in [Procs -> [pc : JobSteps, ch : Channels \cup {None}, to : Statuses]]
      /\ lock' \in Procs \cup {None}
      /\ \A q \in Procs : lock' = q <=> job'[q].pc \notin {"idle", "begin"}
      /\ Named'
      /\ job'[p].pc = "ability" /\ job'[p].ch = job[p].ch /\ job'[p].to = job[p].to
      /\ \A q \in Procs \ {p} : job'[q] = job[q]
  BY <1>1, GotoTypes DEF JobSteps
<1>4. \/ row' = [row EXCEPT ![job[p].ch] = job[p].to] /\ count' = count
      \/ row' = row /\ count'["failures"] # 0
  BY FailGrows DEF SaveRow
<1>5. row \in [Channels -> Statuses] /\ job[p].to \in Statuses /\ job[p].ch \in Channels
  BY <1>1, JobTypes DEF TypeOK, Named
<1>6. row' \in [Channels -> Statuses]
  BY <1>4, <1>5
<1>7. TypeOK'
  BY <1>1, <1>2, <1>3, <1>6, Zenon DEF TypeOK, cache, tests, Grown, Counters
<1>8. Agreement'
  <2>1. count'.ops = 0 => admin'.pc = "idle"
    BY <1>1, <1>2 DEF Agreement, Grown
  <2>2. ASSUME Quiet'
        PROVE  /\ \A q \in Procs : job'[q].pc = "ability" => row'[job'[q].ch] = job'[q].to
               /\ \A c \in Channels : Agrees(c)' \/ \E q \in Procs : job'[q].pc = "ability"
                                                                  /\ job'[q].ch = c
    <3>1. Quiet /\ row' = [row EXCEPT ![job[p].ch] = job[p].to]
      BY <1>2, <1>4, <2>2 DEF Quiet, Grown
    <3>2. \A q \in Procs : job[q].pc # "ability"
      BY <1>1, JobTypes
    <3>3. \A c \in Channels : Agrees(c)
      BY <3>1, <3>2 DEF Agreement
    <3>4. \A q \in Procs : job'[q].pc = "ability" => q = p
      BY <1>3, <3>2
    <3>5. row'[job'[p].ch] = job'[p].to
      BY <1>3, <1>5, <3>1
    <3>6. ASSUME NEW c \in Channels, c # job[p].ch PROVE Agrees(c)'
      BY <1>1, <1>5, <3>1, <3>3, <3>6 DEF Agrees
    <3> QED BY <1>3, <3>4, <3>5, <3>6
  <2> QED BY <2>1, <2>2, Zenon DEF Agreement
<1> QED BY <1>1, <1>3, <1>7, <1>8, CacheSame, TestsSame

LEMMA SaveAbilityKeeps == ASSUME Inv, NEW p \in Procs, SaveAbility(p) PROVE Inv'
<1> USE DEF Inv
<1>1. job[p].pc = "ability" /\ Return(p) /\ UNCHANGED <<row, cache, admin, snapshot, tests>>
  BY DEF SaveAbility
<1>2. Grown
  BY CountSame, FailGrows DEF SaveAbility
<1>3. lock = p
  BY <1>1, JobTypes
<1>4. /\ job' \in [Procs -> [pc : JobSteps, ch : Channels \cup {None}, to : Statuses]]
      /\ lock' \in Procs \cup {None}
      /\ \A q \in Procs : lock' = q <=> job'[q].pc \notin {"idle", "begin"}
      /\ Named' /\ job'[p].pc = "idle" /\ \A q \in Procs \ {p} : job'[q] = job[q]
  BY <1>1, <1>3, ReturnTypes
<1>5. \/ ability' = [ability EXCEPT ![job[p].ch] = (job[p].to = "enabled")] /\ count' = count
      \/ ability' = ability /\ count'["failures"] # 0
  BY FailGrows DEF SaveAbility
<1>6. ability \in [Channels -> BOOLEAN] /\ job[p].ch \in Channels
  BY <1>1, JobTypes DEF TypeOK, Named
<1>7. ability' \in [Channels -> BOOLEAN]
  <2>1. (job[p].to = "enabled") \in BOOLEAN
    OBVIOUS
  <2> QED BY <1>5, <1>6, <2>1, Zenon
<1>8. TypeOK'
  BY <1>1, <1>2, <1>4, <1>7, Zenon DEF TypeOK, cache, tests, Grown, Counters
<1>9. Agreement'
  <2>1. count'.ops = 0 => admin'.pc = "idle"
    BY <1>1, <1>2 DEF Agreement, Grown
  <2>2. ASSUME Quiet'
        PROVE  /\ \A q \in Procs : job'[q].pc = "ability" => row'[job'[q].ch] = job'[q].to
               /\ \A c \in Channels : Agrees(c)'
    <3>1. Quiet /\ ability' = [ability EXCEPT ![job[p].ch] = (job[p].to = "enabled")]
      BY <1>2, <1>5, <2>2 DEF Quiet, Grown
    <3>2. \A q \in Procs : job'[q].pc # "ability"
      BY <1>3, <1>4, JobTypes
    <3>3. row[job[p].ch] = job[p].to
      BY <1>1, <3>1 DEF Agreement
    <3>4. ASSUME NEW c \in Channels, c # job[p].ch PROVE Agrees(c)'
      <4>1. Agrees(c)
        BY <1>3, <3>1, <3>4, JobTypes DEF Agreement
      <4>2. ability'[c] = ability[c]
        BY <1>6, <3>1, <3>4
      <4> QED BY <1>1, <4>1, <4>2 DEF Agrees
    <3>5. ASSUME NEW c \in Channels, c = job[p].ch PROVE Agrees(c)'
      <4>1. ability'[c] = (job[p].to = "enabled")
        BY <1>6, <3>1, <3>5, Zenon
      <4>2. row'[c] = job[p].to
        BY <1>1, <3>3, <3>5
      <4> QED BY <4>1, <4>2, Zenon DEF Agrees
    <3> QED BY <3>2, <3>4, <3>5
  <2> QED BY <2>1, <2>2, Zenon DEF Agreement
<1> QED BY <1>1, <1>4, <1>8, <1>9, CacheSame, TestsSame

-----------------------------------------------------------------------------
(* The administrator and the cache                                         *)

\* The agreement says nothing once an operation has begun.
LEMMA AgreementEnds ==
    ASSUME count' \in [Counters -> Nat], count'["ops"] # 0
    PROVE  Agreement'
BY DEF Agreement, Quiet

AdminTypes == [pc : {"idle", "reread", "ability", "load"}, chs : SUBSET Channels, to : Statuses]

\* An operation begins with its rows.
LEMMA OperationKeeps ==
    ASSUME Inv, Count("ops", MaxOps), row' \in [Channels -> Statuses], admin' \in AdminTypes,
           UNCHANGED <<ability, cache, lock, job, snapshot, tests>>
    PROVE  Inv'
<1> USE DEF Inv
<1>1. Grown /\ count'["ops"] # 0
  BY CountTypes, CountGrows
<1>2. TypeOK'
  BY <1>1, Zenon DEF TypeOK, cache, tests, Grown, Counters, AdminTypes
<1>3. Named'
  BY DEF Named
<1>4. Agreement'
  BY <1>1, AgreementEnds DEF Grown
<1> QED BY <1>2, <1>3, <1>4, CacheSame, TestsSame

LEMMA SwitchTagKeeps == ASSUME Inv, NEW to \in Statuses, SwitchTag(to) PROVE Inv'
<1>1. row \in [Channels -> Statuses]
  BY DEF Inv, TypeOK
<1>2. row' \in [Channels -> Statuses]
  BY <1>1 DEF SwitchTag
<1>3. admin' \in AdminTypes
  BY PoolAssumption DEF SwitchTag, AdminTypes
<1> QED BY <1>2, <1>3, OperationKeeps DEF SwitchTag

LEMMA EditKeeps == ASSUME Inv, NEW to \in Statuses, NEW c \in Channels, Edit(c, to) PROVE Inv'
<1>1. row \in [Channels -> Statuses]
  BY DEF Inv, TypeOK
<1>2. row' \in [Channels -> Statuses]
  BY <1>1 DEF Edit
<1>3. admin' \in AdminTypes
  BY DEF Edit, AdminTypes
<1> QED BY <1>2, <1>3, OperationKeeps DEF Edit

\* Once an operation is under way there has been one.
LEMMA OperationUnderWay ==
    ASSUME Inv, admin.pc # "idle", Grown
    PROVE  count'["ops"] # 0
BY DEF Inv, Agreement, Grown

LEMMA RereadKeeps == ASSUME Inv, Reread PROVE Inv'
<1> USE DEF Inv
<1>1. admin.pc = "reread" /\ UNCHANGED <<db, cache, lock, job, snapshot, tests>>
  BY DEF Reread
<1>2. Grown
  BY CountSame, FailGrows DEF Reread
<1>3. admin \in AdminTypes /\ row \in [Channels -> Statuses]
  BY DEF TypeOK, AdminTypes
<1>4. admin' \in AdminTypes
  BY <1>3 DEF Reread, AdminTypes
<1>5. TypeOK'
  BY <1>1, <1>2, <1>4, Zenon DEF TypeOK, db, cache, tests, Grown, Counters, AdminTypes
<1>6. Named'
  BY <1>1 DEF Named
<1>7. Agreement'
  BY <1>1, <1>2, OperationUnderWay, AgreementEnds DEF Grown
<1> QED BY <1>1, <1>5, <1>6, <1>7, CacheSame, TestsSame

LEMMA AdminAbilityKeeps == ASSUME Inv, AdminAbility PROVE Inv'
<1> USE DEF Inv
<1>1. admin.pc = "ability" /\ UNCHANGED <<row, cache, lock, job, snapshot, tests>>
  BY DEF AdminAbility
<1>2. Grown
  BY CountSame, FailGrows DEF AdminAbility
<1>3. admin \in AdminTypes /\ ability \in [Channels -> BOOLEAN]
  BY DEF TypeOK, AdminTypes
<1>4. admin' \in AdminTypes
  BY <1>3 DEF AdminAbility, AdminTypes
<1>5. ability' \in [Channels -> BOOLEAN]
  <2>1. \A c \in Channels : (IF c \in admin.chs THEN admin.to = "enabled" ELSE ability[c]) \in BOOLEAN
    BY <1>3
  <2>2. \/ ability' = [c \in Channels |-> IF c \in admin.chs THEN admin.to = "enabled" ELSE ability[c]]
        \/ ability' = ability
    BY Zenon DEF AdminAbility
  <2> QED BY <1>3, <2>1, <2>2, Zenon
<1>6. TypeOK'
  BY <1>1, <1>2, <1>4, <1>5, Zenon DEF TypeOK, cache, tests, Grown, Counters, AdminTypes
<1>7. Named'
  BY <1>1 DEF Named
<1>8. Agreement'
  BY <1>1, <1>2, OperationUnderWay, AgreementEnds DEF Grown
<1> QED BY <1>1, <1>6, <1>7, <1>8, CacheSame, TestsSame

LEMMA ReadRowsKeeps == ASSUME Inv, NEW l \in Loaders, ReadRows(l) PROVE Inv'
<1> USE DEF Inv
<1>1. UNCHANGED <<db, cache, lock, job, admin, tests>>
  BY DEF ReadRows
<1>2. Grown
  BY CountSame, FailGrows DEF ReadRows
<1>3. snapshot' \in [Loaders -> [Channels -> CacheStatuses] \cup {None}]
  <2>1. /\ snapshot \in [Loaders -> [Channels -> CacheStatuses] \cup {None}]
        /\ row \in [Channels -> Statuses]
    BY Zenon DEF TypeOK
  <2>2. CASE snapshot' = [snapshot EXCEPT ![l] = row]
    <3>1. row \in [Channels -> CacheStatuses]
      BY <2>1 DEF CacheStatuses
    <3> QED BY <2>1, <2>2, <3>1, Zenon
  <2>3. ASSUME NEW missing \in SUBSET Channels,
               snapshot' = [snapshot EXCEPT ![l] =
                              [c \in Channels |-> IF c \in missing THEN "gone" ELSE row[c]]]
        PROVE  snapshot' \in [Loaders -> [Channels -> CacheStatuses] \cup {None}]
    <3>1. [c \in Channels |-> IF c \in missing THEN "gone" ELSE row[c]]
            \in [Channels -> CacheStatuses]
      BY <2>1 DEF CacheStatuses
    <3> QED BY <2>1, <2>3, <3>1, Zenon
  <2> QED BY <2>2, <2>3, Zenon DEF ReadRows
<1>4. TypeOK'
  BY <1>1, <1>2, <1>3, Zenon DEF TypeOK, db, cache, tests, Grown, Counters
<1>5. Named'
  BY <1>1 DEF Named
<1>6. Agreement'
  BY <1>1, <1>2, AgreementSame
<1> QED BY <1>1, <1>4, <1>5, <1>6, CacheSame, TestsSame

LEMMA RebuildPanicsKeeps == ASSUME Inv, RebuildPanics PROVE Inv'
<1> USE DEF Inv
<1>1. /\ admin.pc = "load" /\ admin' = [admin EXCEPT !.pc = "idle"]
      /\ UNCHANGED <<db, cache, lock, job, snapshot, tests>>
  BY DEF RebuildPanics
<1>2. Grown
  BY FailGrows DEF RebuildPanics
<1>3. admin \in AdminTypes
  BY DEF TypeOK, AdminTypes
<1>4. admin' \in AdminTypes
  BY <1>1, <1>3 DEF AdminTypes
<1>5. TypeOK'
  BY <1>1, <1>2, <1>4, Zenon DEF TypeOK, db, cache, tests, Grown, Counters, AdminTypes
<1>6. Named'
  BY <1>1 DEF Named
<1>7. Agreement'
  BY <1>1, <1>2, AgreementSame
<1> QED BY <1>1, <1>5, <1>6, <1>7, CacheSame, TestsSame

LEMMA InstallKeeps == ASSUME Inv, NEW l \in Loaders, Install(l) PROVE Inv'
<1> USE DEF Inv
<1>1. /\ snapshot[l] # None /\ cached' = snapshot[l] /\ index' = IndexOf(snapshot[l])
      /\ snapshot' = [snapshot EXCEPT ![l] = None]
      /\ UNCHANGED <<db, lock, job, tests, count>>
  BY DEF Install
<1>2. Grown
  BY <1>1, CountSame
<1>3. snapshot \in [Loaders -> [Channels -> CacheStatuses] \cup {None}] /\ admin \in AdminTypes
  BY DEF TypeOK, AdminTypes
<1>4. snapshot' \in [Loaders -> [Channels -> CacheStatuses] \cup {None}]
      /\ snapshot[l] \in [Channels -> CacheStatuses]
  BY <1>1, <1>3, Zenon
<1>5. admin' \in AdminTypes
  BY <1>3 DEF Install, AdminTypes
<1>6. index' \subseteq Channels /\ DisabledNotSelected'
  BY <1>1 DEF IndexOf, DisabledNotSelected
<1>7. TypeOK'
  BY <1>1, <1>4, <1>5, <1>6, Zenon DEF TypeOK, db, tests, AdminTypes
<1>8. Named'
  BY <1>1 DEF Named
<1>9. Agreement'
  <2>1. admin'.pc = admin.pc \/ admin'.pc = "idle"
    BY <1>3 DEF Install, AdminTypes
  <2>2. admin'.pc = admin.pc \/ admin.pc # "idle"
    BY <2>1
  <2> QED BY <1>1, <1>2, <2>2, AgreementSame
<1> QED BY <1>1, <1>6, <1>7, <1>8, <1>9, TestsSame

-----------------------------------------------------------------------------
(* The rounds of tests                                                     *)

\* The types of what a round leaves behind.
RoundTypes == [Testers -> {"idle", "list", "test"}]

LEMMA StartRoundKeeps == ASSUME Inv, NEW t \in Testers, StartRound(t) PROVE Inv'
<1> USE DEF Inv
<1>1. round[t] = "idle" /\ UNCHANGED <<db, cache, lock, job, admin, snapshot, seen, todo>>
      /\ (UNCHANGED <<running, round>>
          \/ (~running /\ running' = TRUE /\ round' = [round EXCEPT ![t] = "list"]))
  <2>1. round[t] = "idle" /\ UNCHANGED <<db, cache, lock, job, admin, snapshot, seen, todo>>
    BY Zenon DEF StartRound
  <2>2. IF running THEN UNCHANGED <<running, round>>
        ELSE running' = TRUE /\ round' = [round EXCEPT ![t] = "list"]
    BY Zenon DEF StartRound
  <2>3. UNCHANGED <<running, round>>
        \/ (~running /\ running' = TRUE /\ round' = [round EXCEPT ![t] = "list"])
    BY ONLY <2>2, Zenon
  <2> QED BY <2>1, <2>3, Zenon
<1>2. Grown
  BY CountTypes, CountGrows DEF StartRound
<1>3. round \in RoundTypes /\ running \in BOOLEAN
  BY DEF TypeOK, RoundTypes
<1>4. round' \in RoundTypes /\ running' \in BOOLEAN
  BY <1>1, <1>3 DEF RoundTypes
<1>5. TypeOK'
  BY <1>1, <1>2, <1>4, Zenon DEF TypeOK, db, cache, Grown, Counters, RoundTypes
<1>6. Flagged'
  BY <1>1, <1>3 DEF Flagged, Testing, RoundTypes
<1>7. Named'
  BY <1>1 DEF Named
<1>8. Agreement'
  BY <1>1, <1>2, AgreementSame
<1> QED BY <1>1, <1>5, <1>6, <1>7, <1>8, CacheSame

LEMMA ListChannelsKeeps == ASSUME Inv, NEW t \in Testers, ListChannels(t) PROVE Inv'
<1> USE DEF Inv
<1>1. round[t] = "list" /\ UNCHANGED <<db, cache, lock, job, admin, snapshot, running>>
      /\ (round' = [round EXCEPT ![t] = "test"] \/ round' = [round EXCEPT ![t] = "idle"])
  BY Zenon DEF ListChannels
<1>2. Grown
  BY CountSame, FailGrows DEF ListChannels
<1>3. /\ round \in RoundTypes /\ seen \in [Testers -> [Channels -> Statuses]]
      /\ todo \in [Testers -> SUBSET Channels] /\ row \in [Channels -> Statuses]
  BY DEF TypeOK, RoundTypes
<1>4. round' \in RoundTypes
  BY <1>1, <1>3 DEF RoundTypes
<1>5. seen' \in [Testers -> [Channels -> Statuses]] /\ todo' \in [Testers -> SUBSET Channels]
  BY <1>3 DEF ListChannels
<1>6. TypeOK'
  BY <1>1, <1>2, <1>4, <1>5, Zenon DEF TypeOK, db, cache, Grown, Counters, RoundTypes
<1>7. Flagged'
  BY <1>1, <1>3 DEF Flagged, Testing, RoundTypes
<1>8. Named'
  BY <1>1 DEF Named
<1>9. Agreement'
  BY <1>1, <1>2, AgreementSame
<1> QED BY <1>1, <1>6, <1>7, <1>8, <1>9, CacheSame

LEMMA TestChannelKeeps ==
    ASSUME Inv, NEW t \in Testers, NEW c \in Channels, NEW answers \in BOOLEAN,
           TestChannel(t, c, answers)
    PROVE  Inv'
<1> USE DEF Inv
<1>1. /\ t \in Procs /\ job[t].pc = "idle"
      /\ todo' = [todo EXCEPT ![t] = todo[t] \ {c}]
      /\ UNCHANGED <<db, cache, lock, admin, snapshot, running, round, seen, count>>
  BY DEF TestChannel, Procs
<1>2. Grown
  BY <1>1, CountSame
<1> DEFINE n == [pc |-> "begin", ch |-> c, to |-> "enabled"]
<1>3. n \in [pc : JobSteps, ch : Channels \cup {None}, to : Statuses]
      /\ n.pc = "begin" /\ n.ch = c
  BY DEF JobSteps, Statuses
<1>4. job' = [job EXCEPT ![t] = n] \/ job' = job
  BY Zenon DEF TestChannel
<1> HIDE DEF n
<1>5. job \in [Procs -> [pc : JobSteps, ch : Channels \cup {None}, to : Statuses]]
      /\ todo \in [Testers -> SUBSET Channels]
  BY DEF TypeOK
<1>6. job' \in [Procs -> [pc : JobSteps, ch : Channels \cup {None}, to : Statuses]]
      /\ (job'[t] = n \/ job'[t] = job[t]) /\ \A p \in Procs \ {t} : job'[p] = job[p]
  BY <1>1, <1>3, <1>4, <1>5
<1>7. \A p \in Procs : lock' = p <=> job'[p].pc \notin {"idle", "begin"}
  BY <1>1, <1>3, <1>6, JobTypes
<1>8. todo' \in [Testers -> SUBSET Channels]
  BY <1>1, <1>5
<1>9. TypeOK'
  BY <1>1, <1>6, <1>7, <1>8, Zenon DEF TypeOK, db, cache
<1>10. Flagged'
  BY <1>1 DEF Flagged, Testing
<1>11. Named'
  BY <1>3, <1>6 DEF Named
<1>12. Agreement'
  BY <1>1, <1>2, <1>3, <1>6, AgreementSame
<1> QED BY <1>1, <1>9, <1>10, <1>11, <1>12, CacheSame

LEMMA EndRoundKeeps == ASSUME Inv, NEW t \in Testers, EndRound(t) PROVE Inv'
<1> USE DEF Inv
<1>1. /\ round[t] = "test" /\ running' = FALSE /\ round' = [round EXCEPT ![t] = "idle"]
      /\ UNCHANGED <<db, cache, lock, job, admin, snapshot, seen, todo, count>>
  BY DEF EndRound
<1>2. Grown
  BY <1>1, CountSame
<1>3. round \in RoundTypes
  BY DEF TypeOK, RoundTypes
<1>4. round' \in RoundTypes
  BY <1>1, <1>3 DEF RoundTypes
<1>5. TypeOK'
  BY <1>1, <1>4, Zenon DEF TypeOK, db, cache, RoundTypes
<1>6. Flagged'
  <2>1. \A u \in Testers : Testing(u) => u = t
    BY <1>1 DEF Flagged, Testing
  <2>2. \A u \in Testers : ~Testing(u)'
    BY <1>1, <1>3, <2>1 DEF Testing, RoundTypes
  <2> QED BY <2>2 DEF Flagged
<1>7. Named'
  BY <1>1 DEF Named
<1>8. Agreement'
  BY <1>1, <1>2, AgreementSame
<1> QED BY <1>1, <1>5, <1>6, <1>7, <1>8, CacheSame

-----------------------------------------------------------------------------
(* The theorems                                                            *)

LEMMA InitHolds == Init => Inv
<1> SUFFICES ASSUME Init PROVE Inv
  OBVIOUS
<1>1. /\ row \in [Channels -> Statuses] /\ cached = row
      /\ \A c \in Channels : ability[c] = (row[c] = "enabled")
      /\ \A p \in Procs : job[p] = Idle
      /\ \A t \in Testers : round[t] = "idle"
      /\ lock = None /\ admin.pc = "idle"
  BY DEF Init
<1>2. Idle \in [pc : JobSteps, ch : Channels \cup {None}, to : Statuses] /\ Idle.pc = "idle"
  BY DEF Idle, JobSteps, Statuses
<1>3. TypeOK
  <2>1. ability \in [Channels -> BOOLEAN]
    <3>1. \A c \in Channels : (row[c] = "enabled") \in BOOLEAN
      OBVIOUS
    <3> QED BY <3>1, Zenon DEF Init
  <2>2. index \subseteq Channels
    BY DEF Init, IndexOf
  <2>3. job \in [Procs -> [pc : JobSteps, ch : Channels \cup {None}, to : Statuses]]
    BY <1>2 DEF Init
  <2>4. \A p \in Procs : lock = p <=> job[p].pc \notin {"idle", "begin"}
    BY <1>1, <1>2, PoolAssumption
  <2>5. admin \in [pc : {"idle", "reread", "ability", "load"}, chs : SUBSET Channels, to : Statuses]
    BY DEF Init, Statuses
  <2>6. snapshot \in [Loaders -> [Channels -> CacheStatuses] \cup {None}]
    BY DEF Init
  <2>7. round \in [Testers -> {"idle", "list", "test"}]
    BY DEF Init
  <2>8. seen \in [Testers -> [Channels -> Statuses]] /\ todo \in [Testers -> SUBSET Channels]
    BY DEF Init
  <2>9. count \in [{"reports", "ops", "rounds", "failures"} -> Nat]
    BY DEF Init
  <2>10. cached \in [Channels -> CacheStatuses]
    BY <1>1 DEF CacheStatuses
  <2> QED BY <1>1, <2>1, <2>2, <2>3, <2>4, <2>5, <2>6, <2>7, <2>8, <2>9, <2>10, Zenon
          DEF Init, TypeOK
<1>4. Named
  BY <1>1, <1>2 DEF Named
<1>5. DisabledNotSelected
  BY <1>1 DEF Init, IndexOf, DisabledNotSelected
<1>6. Flagged
  BY <1>1 DEF Flagged, Testing
<1>7. Agreement
  BY <1>1, <1>2 DEF Agreement, Agrees
<1> QED BY <1>3, <1>4, <1>5, <1>6, <1>7 DEF Inv

LEMMA StepKeeps == Inv /\ [Next]_vars => Inv'
<1> SUFFICES ASSUME Inv, [Next]_vars PROVE Inv'
  OBVIOUS
<1>1. ASSUME NEW w \in Workers, NEW c \in Channels, NEW to \in {"auto", "manual"}, Report(w, c, to)
      PROVE  Inv'
  BY <1>1, ReportKeeps
<1>2. ASSUME NEW p \in Procs, UpdateChannelStatus(p) PROVE Inv'
  BY <1>2, BeginKeeps, CacheUpdateKeeps, ReadRowKeeps, SaveRowKeeps, SaveAbilityKeeps
     DEF UpdateChannelStatus
<1>3. ASSUME NEW to \in Statuses, SwitchTag(to) PROVE Inv'
  BY <1>3, SwitchTagKeeps
<1>4. ASSUME NEW to \in Statuses, NEW c \in Channels, Edit(c, to) PROVE Inv'
  BY <1>4, EditKeeps
<1>5. CASE AdminStep \/ Sync
  BY <1>5, RereadKeeps, AdminAbilityKeeps, ReadRowsKeeps, RebuildPanicsKeeps,
     InstallKeeps
     DEF AdminStep, Sync, Loaders
<1>6. ASSUME NEW t \in Testers, StartRound(t) \/ TestStep(t) PROVE Inv'
  BY <1>6, StartRoundKeeps, ListChannelsKeeps, EndRoundKeeps, TestChannelKeeps DEF TestStep
<1>7. CASE UNCHANGED vars
  <2>1. TypeOK'
    BY <1>7, Zenon DEF vars, Inv, TypeOK
  <2>2. Named' /\ DisabledNotSelected' /\ Flagged' /\ Agreement'
    BY <1>7 DEF vars, Inv, Named, DisabledNotSelected, Flagged, Testing, Agreement, Agrees, Quiet
  <2> QED BY <2>1, <2>2 DEF Inv
<1> QED BY <1>1, <1>2, <1>3, <1>4, <1>5, <1>6, <1>7, Zenon DEF Next

\* The invariant holds throughout.
THEOREM Invariant == Spec => []Inv
BY InitHolds, StepKeeps, PTL DEF Spec

\* The variables of the pool keep their types, and channelStatusLock is held by
\* the call that is past its beginning.
THEOREM TypeCorrect == Spec => []TypeOK
<1>1. Inv => TypeOK
  BY DEF Inv
<1> QED BY <1>1, Invariant, PTL

\* UpdateChannelStatus: however many reports and tests overlap, they leave the
\* abilities as the rows say, if no statement fails and nobody else writes.
THEOREM AbilitiesFollowRows == Spec => []AbilitiesAgree
<1>1. Inv => AbilitiesAgree
  BY DEF Inv, Agreement, Quiet, Agrees, AbilitiesAgree
<1> QED BY <1>1, Invariant, PTL

\* CacheUpdateChannelStatus and InitChannelCache: whatever stale rows are
\* installed between two steps, the index has no channel the cache disabled.
THEOREM SelectedAreEnabled == Spec => []DisabledNotSelected
<1>1. Inv => DisabledNotSelected
  BY DEF Inv
<1> QED BY <1>1, Invariant, PTL

\* testAllChannels: of any number of callers one at a time tests.
THEOREM RoundsAreSingle == Spec => []OneRound
<1>1. Inv => OneRound
  <2> SUFFICES ASSUME Inv PROVE OneRound
    OBVIOUS
  <2> DEFINE S == {t \in Testers : round[t] # "idle"}
  <2>1. \A t, u \in S : t = u
    BY DEF Inv, Flagged, Testing
  <2>2. CASE S = {}
    BY <2>2, FS_EmptySet DEF OneRound
  <2>3. CASE S # {}
    <3>1. PICK t \in S : TRUE
      BY <2>3
    <3>2. S = {t}
      BY <2>1
    <3>3. Cardinality({t}) = 1
      BY FS_Singleton
    <3> QED BY <3>2, <3>3 DEF OneRound
  <2> QED BY <2>2, <2>3
<1> QED BY <1>1, Invariant, PTL

=============================================================================
