------------------------- MODULE ChannelRetryProofs -------------------------
(***************************************************************************)
(* Theorems about the attempts of a request: their number is bounded and   *)
(* their order is from the top down for every number of groups, levels and *)
(* retries, and for every pool that changes under them.                    *)
(***************************************************************************)
EXTENDS ChannelRetry, FiniteSetTheorems, TLAPS

-----------------------------------------------------------------------------
(* What the selection draws                                                *)

Above(S, p) == {x \in S : x > p}

\* Of finitely many priorities there is one with n above it, for every n less
\* than their number: the priorities and these numbers correspond.
LEMMA SomeLevel ==
    ASSUME NEW S \in SUBSET Int, IsFiniteSet(S), NEW n \in 0..(Cardinality(S) - 1)
    PROVE  \E p \in S : Cardinality(Above(S, p)) = n
<1> DEFINE c == Cardinality(S) - 1
           f == [p \in S |-> Cardinality(Above(S, p))]
<1>1. c + 1 = Cardinality(S) /\ c \in Nat
  BY FS_CardinalityType
<1>2. ASSUME NEW p \in S
      PROVE  IsFiniteSet(Above(S, p)) /\ Cardinality(Above(S, p)) \in 0..c
  <2>1. Above(S, p) \in SUBSET (S \ {p})
    BY DEF Above
  <2>2. IsFiniteSet(S \ {p}) /\ Cardinality(S \ {p}) = c
    BY FS_RemoveElement
  <2>3. IsFiniteSet(Above(S, p)) /\ Cardinality(Above(S, p)) <= c
    BY <2>1, <2>2, FS_Subset
  <2> QED BY <2>3, <1>1, FS_CardinalityType
<1>3. ASSUME NEW p \in S, NEW q \in S, p < q
      PROVE  Cardinality(Above(S, p)) # Cardinality(Above(S, q))
  <2>1. ASSUME NEW x \in S, x > q PROVE x > p
    <3>1. x \in Int /\ p \in Int /\ q \in Int
      OBVIOUS
    <3> QED BY <1>3, <2>1, <3>1
  <2>2. Above(S, q) \in SUBSET Above(S, p)
    BY <2>1 DEF Above
  <2>3. p \in Int /\ q \in Int
    OBVIOUS
  <2>4. q \in Above(S, p) /\ q \notin Above(S, q)
    BY <1>3, <2>3 DEF Above
  <2> QED BY <2>2, <2>4, <1>2, FS_Subset
<1>4. ASSUME NEW p \in S, NEW q \in S, f[p] = f[q] PROVE p = q
  <2>1. p \in Int /\ q \in Int /\ Cardinality(Above(S, p)) = Cardinality(Above(S, q))
    BY <1>4
  <2> QED BY <1>3, <2>1
<1>5. f \in Injection(S, 0..c)
  <2>1. f \in [S -> 0..c]
    BY <1>2
  <2>2. \A p, q \in S : f[p] = f[q] => p = q
    BY <1>4
  <2> QED BY <2>1, <2>2, Zenon DEF Injection, IsInjective
<1>6. IsFiniteSet(0..c) /\ Cardinality(0..c) = c + 1
  BY <1>1, FS_Interval
<1>7. f \in Surjection(S, 0..c)
  BY <1>1, <1>5, <1>6, FS_Injection
<1>8. \E p \in S : f[p] = n
  BY <1>7 DEF Surjection
<1> QED BY <1>8

\* The target of a selection is a priority of the group.
LEMMA TargetExists ==
    ASSUME NEW S \in SUBSET Int, IsFiniteSet(S), S # {}, NEW k \in Nat
    PROVE  Target(S, k) \in S
<1> DEFINE n == IF k >= Cardinality(S) THEN Cardinality(S) - 1 ELSE k
<1>1. Cardinality(S) \in Nat /\ Cardinality(S) # 0
  BY FS_CardinalityType, FS_EmptySet
<1>2. n \in 0..(Cardinality(S) - 1)
  BY <1>1
<1>3. \E p \in S : Cardinality({x \in S : x > p}) = n
  BY <1>2, SomeLevel DEF Above
<1> QED BY <1>3 DEF Target

\* Finitely many numbers have a least one.
LEMMA LeastExists ==
    ASSUME NEW S \in SUBSET Int, IsFiniteSet(S), S # {}
    PROVE  Min(S) \in S /\ \A x \in S : Min(S) <= x
<1>1. Cardinality(S) \in Nat /\ Cardinality(S) # 0
  BY FS_CardinalityType, FS_EmptySet
<1>2. PICK p \in S : Cardinality(Above(S, p)) = Cardinality(S) - 1
  BY <1>1, SomeLevel
<1>3. IsFiniteSet(S \ {p}) /\ Cardinality(S \ {p}) = Cardinality(S) - 1
  BY FS_RemoveElement
<1>4. Above(S, p) \in SUBSET (S \ {p})
  BY DEF Above
<1>5. Above(S, p) = S \ {p}
  BY <1>2, <1>3, <1>4, FS_Subset
<1>6. \A x \in S : p <= x
  BY <1>5 DEF Above
<1> QED BY <1>6 DEF Min

\* The first group with a channel lies at or behind the cursor.
LEMMA NextGroup ==
    ASSUME TypeOK, Candidates # {}
    PROVE  /\ Min(Candidates) \in Groups /\ Min(Candidates) >= groupIndex
           /\ pool[Min(Candidates)] # {}
<1>1. Candidates \in SUBSET Groups /\ Groups \in SUBSET Int
  BY RetryAssumption DEF Candidates, Groups
<1>2. IsFiniteSet(Groups)
  BY RetryAssumption, FS_Interval DEF Groups
<1>3. IsFiniteSet(Candidates)
  BY <1>1, <1>2, FS_Subset
<1>4. Min(Candidates) \in Candidates
  BY <1>1, <1>3, LeastExists
<1> QED BY <1>4 DEF Candidates

-----------------------------------------------------------------------------
(* The invariant                                                           *)

\* The groups a request can be in, and all attempts of the groups before g.
Reach == IF mode = "auto" THEN NGroups ELSE 1
Full(g) == g * (RetryTimes + 1)

\* The cursor against the last attempt: on its group, with the counter n
\* further than its index, or on a later group with the counter at the start.
Here(n) ==
    /\ groupIndex = attempts[Len(attempts)].group
    /\ retry = attempts[Len(attempts)].index + n
    /\ groupIndex < Reach
Beyond == groupIndex > attempts[Len(attempts)].group /\ retry = 0

\* Where a request stands: before the first attempt, in one, which either
\* left the cursor on its group, moved it on, or was the only one allowed,
\* or after one. The counter and the cursor bound the attempts made.
Place ==
    /\ mode # "auto" => groupIndex = 0
    /\ groupIndex <= Reach
    /\ pc # "done" => retry <= RetryTimes
    /\ pc = "distribute" => attempts = <<>> /\ retry = 0 /\ groupIndex = 0 /\ ~resetNext
    /\ pc \in {"attempt", "select"} => attempts # <<>>
    /\ pc = "attempt" =>
          \/ resetNext /\ Beyond /\ Len(attempts) <= Full(groupIndex)
          \/ ~resetNext /\ Here(0) /\ Len(attempts) <= Full(groupIndex) + retry + 1
          \/ ~resetNext /\ Beyond /\ RetryTimes = 0 /\ Len(attempts) <= Full(groupIndex)
    /\ pc = "select" =>
          /\ ~resetNext /\ (Here(1) \/ Beyond)
          /\ Len(attempts) <= Full(groupIndex) + retry

\* The inductive invariant.
Inv == TypeOK /\ AttemptsBounded /\ TopDown /\ Place

-----------------------------------------------------------------------------
(* Arithmetic                                                              *)

\* One group's attempts fit between two values of Full.
LEMMA FullGrows ==
    ASSUME NEW g \in Nat, NEW h \in Nat, g < h
    PROVE  Full(g) \in Nat /\ Full(h) \in Nat /\ Full(g) + RetryTimes + 1 <= Full(h)
<1>1. RetryTimes + 1 \in Nat
  BY RetryAssumption
<1>2. PICK d \in Nat : h = g + 1 + d
  <2>1. h - g - 1 \in Nat /\ h = g + 1 + (h - g - 1)
    OBVIOUS
  <2> QED BY <2>1
<1>3. \A a, b, c \in Nat : (a + 1 + c) * b = a * b + b + c * b /\ a * b \in Nat /\ c * b \in Nat
  OBVIOUS
<1>4. h * (RetryTimes + 1) = g * (RetryTimes + 1) + (RetryTimes + 1) + d * (RetryTimes + 1)
      /\ g * (RetryTimes + 1) \in Nat /\ d * (RetryTimes + 1) \in Nat
  BY <1>1, <1>2, <1>3
<1> QED BY <1>4, RetryAssumption DEF Full

\* A request is in one of the groups, and all of them are within the list.
LEMMA ReachBounds == Reach \in 1..NGroups /\ NGroups \in Nat /\ \A n \in 0..Reach : n \in 0..NGroups /\ n <= Reach
BY RetryAssumption DEF Reach

\* An attempt or a choice within reach is within the bound.
LEMMA WithinReach ==
    ASSUME TypeOK, Place, NEW n \in Nat, n <= Full(groupIndex) + retry,
           retry <= RetryTimes, groupIndex = Reach => retry = 0
    PROVE  n <= Full(Reach)
<1>1. groupIndex \in Nat /\ Reach \in Nat /\ retry \in Nat /\ groupIndex <= Reach
  <2>1. Reach \in Nat
    BY RetryAssumption DEF Reach
  <2>2. groupIndex \in 0..NGroups /\ retry \in 0..(RetryTimes + 1)
    BY Zenon DEF TypeOK
  <2>3. groupIndex \in Nat /\ retry \in Nat
    BY <2>2, RetryAssumption
  <2> QED BY <2>1, <2>3 DEF Place
<1>2. CASE groupIndex = Reach
  <2>1. n <= Full(Reach) + 0 /\ Full(Reach) \in Int
    BY <1>1, <1>2, RetryAssumption DEF Full
  <2> QED BY <2>1
<1>3. CASE groupIndex # Reach
  <2>1. Full(groupIndex) \in Nat /\ Full(Reach) \in Nat
        /\ Full(groupIndex) + RetryTimes + 1 <= Full(Reach)
    BY <1>1, <1>3, FullGrows
  <2> QED BY <2>1, <1>1, RetryAssumption
<1> QED BY <1>2, <1>3

-----------------------------------------------------------------------------
(* One more attempt                                                        *)

\* Its record is the last of the attempts, the others stay.
LEMMA Appended ==
    ASSUME TypeOK, NEW STATE g, NEW STATE k, NEW STATE l,
           g \in Groups, k \in Nat, l \in Levels,
           attempts' = Append(attempts, [group |-> g, index |-> k, level |-> l])
    PROVE  /\ attempts' \in Seq(AttemptRecords)
           /\ Len(attempts) \in Nat /\ Len(attempts') = Len(attempts) + 1
           /\ attempts' # <<>>
           /\ attempts'[Len(attempts')].group = g /\ attempts'[Len(attempts')].index = k
           /\ \A n \in 1..Len(attempts) : attempts'[n] = attempts[n]
<1> DEFINE a == [group |-> g, index |-> k, level |-> l]
<1>1. a \in AttemptRecords
  BY DEF AttemptRecords
<1>2. attempts \in Seq(AttemptRecords) /\ attempts' = Append(attempts, a)
  BY DEF TypeOK
<1>3. a.group = g /\ a.index = k
  OBVIOUS
<1> HIDE DEF a
<1>4. attempts' \in Seq(AttemptRecords) /\ Len(attempts) \in Nat
      /\ Len(attempts') = Len(attempts) + 1 /\ attempts'[Len(attempts) + 1] = a
      /\ \A n \in 1..Len(attempts) : attempts'[n] = attempts[n]
  BY <1>1, <1>2
<1>5. attempts' # <<>>
  BY <1>4
<1> QED BY <1>3, <1>4, <1>5

\* An attempt one index down in the last group, or at the top of a later one,
\* keeps the order.
LEMMA StillTopDown ==
    ASSUME TypeOK, TopDown, NEW STATE g, NEW STATE k, NEW STATE l,
           g \in Groups, k \in Nat, l \in Levels,
           attempts' = Append(attempts, [group |-> g, index |-> k, level |-> l]),
           \/ attempts = <<>>
           \/ g = attempts[Len(attempts)].group /\ k = attempts[Len(attempts)].index + 1
           \/ g > attempts[Len(attempts)].group /\ k = 0
    PROVE  TopDown'
<1> USE Appended
<1>1. ASSUME NEW n \in 2..Len(attempts')
      PROVE  \/ attempts'[n].group = attempts'[n - 1].group
                /\ attempts'[n].index = attempts'[n - 1].index + 1
             \/ attempts'[n].group > attempts'[n - 1].group /\ attempts'[n].index = 0
  <2>1. CASE n <= Len(attempts)
    <3>1. n \in 2..Len(attempts) /\ n \in 1..Len(attempts) /\ n - 1 \in 1..Len(attempts)
      BY <2>1
    <3>2. attempts'[n] = attempts[n] /\ attempts'[n - 1] = attempts[n - 1]
      BY <3>1
    <3> QED BY <3>1, <3>2 DEF TopDown
  <2>2. CASE n > Len(attempts)
    <3>1. n = Len(attempts') /\ n - 1 = Len(attempts) /\ n - 1 \in 1..Len(attempts)
      BY <2>2
    <3>2. attempts # <<>>
      BY <3>1
    <3>3. attempts'[n - 1] = attempts[Len(attempts)]
      BY <3>1
    <3>4. attempts'[n].group = g /\ attempts'[n].index = k
      BY <3>1
    <3> QED BY <3>2, <3>3, <3>4
  <2> QED BY <2>1, <2>2
<1> QED BY <1>1, Zenon DEF TopDown

\* The attempt is within the bound and leaves the request in its place.
LEMMA AttemptKeeps ==
    ASSUME Inv, NEW STATE g, NEW STATE k, NEW STATE l,
           g \in Groups, k \in 0..RetryTimes, l \in Levels, g < Reach,
           attempts' = Append(attempts, [group |-> g, index |-> k, level |-> l]),
           pc' = "attempt", pc # "done",
           UNCHANGED <<mode, crossGroup, pool, changes, result>>,
           \/ attempts = <<>>
           \/ g = attempts[Len(attempts)].group /\ k = attempts[Len(attempts)].index + 1
           \/ g > attempts[Len(attempts)].group /\ k = 0,
           mode # "auto" => groupIndex' = 0,
           Len(attempts) <= Full(g) + k,
           \/ resetNext' = TRUE /\ groupIndex' = g + 1 /\ retry' = 0 /\ k = RetryTimes
           \/ resetNext' = FALSE /\ groupIndex' = g /\ retry' = k
           \/ resetNext' = FALSE /\ groupIndex' = g + 1 /\ retry' = 0 /\ RetryTimes = 0 /\ k = 0
    PROVE  Inv'
<1>1. TypeOK /\ TopDown /\ Place /\ k \in Nat /\ RetryTimes \in Nat
  BY RetryAssumption DEF Inv
<1>2. /\ attempts' \in Seq(AttemptRecords)
      /\ Len(attempts) \in Nat /\ Len(attempts') = Len(attempts) + 1
      /\ attempts' # <<>>
      /\ attempts'[Len(attempts')].group = g /\ attempts'[Len(attempts')].index = k
  BY <1>1, Appended
<1>3. TopDown'
  BY <1>1, StillTopDown
<1>4. Reach \in 1..NGroups /\ NGroups \in Nat /\ Reach' = Reach /\ g \in Nat
  BY RetryAssumption DEF Reach, Groups
<1>5. groupIndex' \in 0..Reach /\ retry' \in 0..RetryTimes /\ resetNext' \in BOOLEAN
  <2>1. g \in 0..Reach /\ g + 1 \in 0..Reach /\ 0 \in 0..RetryTimes
    BY <1>1, <1>4
  <2> QED BY <2>1, Zenon
<1>6. TypeOK'
  <2>1. result' = result /\ pc # "done" /\ pc' # "done"
    OBVIOUS
  <2>2. groupIndex' \in 0..NGroups /\ retry' \in 0..(RetryTimes + 1)
    BY <1>1, <1>4, <1>5
  <2>3. result' \in Results /\ (pc' = "done" <=> result' # "")
    BY <1>1, <2>1, Zenon DEF TypeOK
  <2>4. pc' \in {"distribute", "attempt", "select", "done", "hung"}
    OBVIOUS
  <2>5. /\ mode' \in {"auto", "group", "pinned"} /\ crossGroup' \in BOOLEAN
        /\ pool' \in [Groups -> SUBSET Levels] /\ changes' \in 0..MaxPoolChanges
    BY <1>1, Zenon DEF TypeOK
  <2> QED BY <1>2, <1>5, <2>2, <2>3, <2>4, <2>5, Zenon DEF TypeOK
<1>7. Len(attempts') <= Full(g) + k + 1 /\ Full(g) \in Nat /\ Full(g + 1) = Full(g) + RetryTimes + 1
  BY <1>1, <1>2, <1>4, RetryAssumption DEF Full
<1>8. AttemptsBounded'
  <2>1. Full(g) + RetryTimes + 1 <= Full(Reach) /\ Full(Reach) \in Nat
    <3>1. g \in Nat /\ Reach \in Nat /\ g < Reach
      BY <1>4
    <3> QED BY <3>1, FullGrows, Zenon
  <2>2. Len(attempts') <= Full(Reach)
    BY <1>1, <1>2, <1>7, <2>1
  <2>3. Full(Reach) = (RetryTimes + 1) * (IF mode' = "auto" THEN NGroups ELSE 1)
    BY <1>1, <1>4 DEF Full, Reach
  <2> QED BY <2>2, <2>3 DEF AttemptsBounded
<1>9. Place'
  <2>1. \/ resetNext' /\ Beyond' /\ Len(attempts') <= Full(groupIndex')
        \/ ~resetNext' /\ Here(0)' /\ Len(attempts') <= Full(groupIndex') + retry' + 1
        \/ ~resetNext' /\ Beyond' /\ RetryTimes = 0 /\ Len(attempts') <= Full(groupIndex')
    <3>1. CASE resetNext' = TRUE /\ groupIndex' = g + 1 /\ retry' = 0 /\ k = RetryTimes
      BY <3>1, <1>1, <1>2, <1>4, <1>7 DEF Beyond
    <3>2. CASE resetNext' = FALSE /\ groupIndex' = g /\ retry' = k
      BY <3>2, <1>1, <1>2, <1>4, <1>7 DEF Here
    <3>3. CASE resetNext' = FALSE /\ groupIndex' = g + 1 /\ retry' = 0 /\ RetryTimes = 0 /\ k = 0
      BY <3>3, <1>1, <1>2, <1>4, <1>7 DEF Beyond
    <3> QED BY <3>1, <3>2, <3>3
  <2>2. /\ mode' # "auto" => groupIndex' = 0
        /\ groupIndex' <= Reach'
        /\ retry' <= RetryTimes
        /\ attempts' # <<>>
    BY <1>1, <1>2, <1>4, <1>5
  <2> QED BY <2>1, <2>2, Zenon DEF Place, Full
<1> QED BY <1>3, <1>6, <1>8, <1>9, Zenon DEF Inv

\* A request that ends keeps what was attempted.
LEMMA EndKeeps ==
    ASSUME Inv, pc' = "done", result' \in Results \ {""}, UNCHANGED attempts,
           UNCHANGED <<mode, crossGroup, pool, changes>>,
           groupIndex' \in 0..Reach, mode # "auto" => groupIndex' = 0,
           retry' \in 0..(RetryTimes + 1), resetNext' \in BOOLEAN
    PROVE  Inv'
<1>1. TypeOK /\ TopDown /\ AttemptsBounded
  BY Zenon DEF Inv
<1>3. groupIndex' \in 0..NGroups /\ groupIndex' <= Reach'
  <2>1. Reach' = Reach
    BY Zenon DEF Reach
  <2>2. groupIndex' \in 0..NGroups /\ groupIndex' <= Reach
    BY ReachBounds, Zenon
  <2> QED BY <2>1, <2>2, Zenon
<1>4. TypeOK'
  BY <1>1, <1>3, Zenon DEF TypeOK
<1>5. TopDown' /\ AttemptsBounded'
  BY <1>1 DEF TopDown, AttemptsBounded
<1>6. Place'
  BY <1>3, Zenon DEF Place
<1> QED BY <1>4, <1>5, <1>6, Zenon DEF Inv

-----------------------------------------------------------------------------
(* The actions                                                             *)

\* The last attempt was made in a group, at an index.
LEMMA LastAttempt ==
    ASSUME TypeOK, attempts # <<>>
    PROVE  attempts[Len(attempts)].group \in Groups /\ attempts[Len(attempts)].index \in Nat
<1>1. attempts \in Seq(AttemptRecords)
  BY DEF TypeOK
<1>2. attempts[Len(attempts)] \in AttemptRecords
  BY <1>1
<1> QED BY <1>2 DEF AttemptRecords

\* A group with a channel has a level to draw.
LEMMA LevelDrawn ==
    ASSUME TypeOK, NEW STATE g, NEW STATE k, g \in Groups, k \in Nat, pool[g] # {}
    PROVE  Target(pool[g], k) \in Levels
<1>1. pool[g] \in SUBSET Levels
  BY DEF TypeOK
<1>2. pool[g] \in SUBSET Int /\ IsFiniteSet(pool[g])
  BY <1>1, RetryAssumption, FS_Subset
<1>3. Target(pool[g], k) \in pool[g]
  BY <1>2, TargetExists
<1> QED BY <1>1, <1>3

\* What the invariant says in plain numbers.
LEMMA Numbers ==
    ASSUME Inv
    PROVE  /\ TypeOK /\ TopDown /\ Place
           /\ groupIndex \in 0..Reach /\ groupIndex \in Nat
           /\ retry \in 0..(RetryTimes + 1) /\ RetryTimes \in Nat /\ retry \in Nat
           /\ pc # "done" => retry \in 0..RetryTimes
           /\ Full(0) = 0 /\ 0 \in Groups
<1>1. TypeOK /\ TopDown /\ Place
  BY Zenon DEF Inv
<1>2. groupIndex \in 0..NGroups /\ retry \in 0..(RetryTimes + 1)
  BY <1>1, Zenon DEF TypeOK
<1>3. groupIndex <= Reach /\ (pc # "done" => retry <= RetryTimes)
  BY <1>1, Zenon DEF Place
<1>4. NGroups \in Nat \ {0} /\ RetryTimes \in Nat
  BY RetryAssumption
<1>5. Reach \in 1..NGroups
  BY ReachBounds
<1>6. Full(0) = 0 /\ 0 \in Groups
  BY <1>4 DEF Full, Groups
<1> QED BY <1>1, <1>2, <1>3, <1>4, <1>5, <1>6

\* A pinned request attempts its channel or is refused.
LEMMA PinnedKeeps == ASSUME Inv, NEW p \in Levels, DistributePinned(p) PROVE Inv'
<1> USE Numbers
<1>1. /\ pc = "distribute" /\ mode = "pinned" /\ attempts = <<>> /\ retry = 0
      /\ groupIndex = 0 /\ resetNext = FALSE
  BY Zenon DEF DistributePinned, Place, TypeOK
<1>2. /\ UNCHANGED <<mode, crossGroup, pool, changes>>
      /\ retry' = 0 /\ resetNext' = FALSE /\ groupIndex' = 0
  BY <1>1, Zenon DEF DistributePinned
<1>3. CASE /\ attempts' = Append(attempts, [group |-> 0, index |-> 0, level |-> p])
           /\ pc' = "attempt" /\ UNCHANGED result
  <2>1. 0 < Reach /\ 0 \in 0..RetryTimes /\ Len(attempts) <= Full(0) + 0
    BY <1>1, ReachBounds
  <2> QED BY <1>1, <1>2, <1>3, <2>1, AttemptKeeps, Zenon
<1>4. CASE Give("refused")
  <2>1. pc' = "done" /\ result' \in Results \ {""} /\ UNCHANGED attempts
    BY <1>4 DEF Give, Results
  <2>2. 0 \in 0..Reach /\ 0 \in 0..(RetryTimes + 1)
    BY <1>1
  <2> QED BY <1>1, <1>2, <2>1, <2>2, EndKeeps, Zenon
<1> QED BY <1>3, <1>4, Zenon DEF DistributePinned

\* A selection in the request's own group takes the counter as the index.
LEMMA SelectInGroupKeeps ==
    ASSUME Inv, pc \in {"distribute", "select"}, mode # "auto", SelectInGroup,
           UNCHANGED <<mode, crossGroup, pool, changes>>
    PROVE  Inv'
<1> USE Numbers
<1>1. groupIndex = 0 /\ resetNext = FALSE /\ Len(attempts) <= Full(0) + retry
      /\ (attempts = <<>> \/ (0 = attempts[Len(attempts)].group
                              /\ retry = attempts[Len(attempts)].index + 1))
  <2>1. groupIndex = 0 /\ resetNext = FALSE
    BY Zenon DEF Place, TypeOK
  <2>2. CASE pc = "distribute"
    BY <2>1, <2>2 DEF Place
  <2>3. CASE pc = "select"
    <3>1. attempts # <<>> /\ (Here(1) \/ Beyond) /\ Len(attempts) <= Full(groupIndex) + retry
      BY <2>3, Zenon DEF Place
    <3>2. attempts[Len(attempts)].group \in Nat
      BY <3>1, LastAttempt, RetryAssumption DEF Groups
    <3>3. ~Beyond
      BY <2>1, <3>2 DEF Beyond
    <3> QED BY <2>1, <3>1, <3>3 DEF Here
  <2> QED BY <2>2, <2>3
<1>2. UNCHANGED <<retry, resetNext, groupIndex>>
  BY Zenon DEF SelectInGroup
<1>3. CASE pool[0] = {}
  <2>1. Give("no_channel")
    BY <1>3, Zenon DEF SelectInGroup
  <2>2. pc' = "done" /\ result' \in Results \ {""} /\ UNCHANGED attempts
    BY <2>1 DEF Give, Results
  <2>3. groupIndex' \in 0..Reach /\ groupIndex' = 0 /\ retry' \in 0..(RetryTimes + 1)
        /\ resetNext' \in BOOLEAN
    BY <1>1, <1>2, Zenon
  <2> QED BY <2>2, <2>3, EndKeeps, Zenon
<1>4. CASE pool[0] # {}
  <2>1. Attempt(0, retry)
    BY <1>4, Zenon DEF SelectInGroup
  <2>2. Target(pool[0], retry) \in Levels
    BY <1>4, LevelDrawn
  <2>3. /\ attempts' = Append(attempts, [group |-> 0, index |-> retry,
                                          level |-> Target(pool[0], retry)])
        /\ pc' = "attempt" /\ UNCHANGED result
    BY <2>1, Zenon DEF Attempt
  <2>4. 0 < Reach /\ retry \in 0..RetryTimes /\ pc # "done"
    BY ReachBounds
  <2>5. resetNext' = FALSE /\ groupIndex' = 0 /\ retry' = retry
    BY <1>1, <1>2, Zenon
  <2> QED BY <1>1, <2>2, <2>3, <2>4, <2>5, AttemptKeeps, Zenon
<1> QED BY <1>3, <1>4

\* The first attempt of a walk through the groups.
LEMMA DistributeAutoKeeps == ASSUME Inv, DistributeAuto PROVE Inv'
<1> USE Numbers
<1>1. /\ pc = "distribute" /\ mode = "auto" /\ attempts = <<>> /\ retry = 0
      /\ groupIndex = 0 /\ resetNext = FALSE
  BY Zenon DEF DistributeAuto, Place, TypeOK
<1>2. UNCHANGED <<mode, crossGroup, pool, changes>> /\ retry' = 0 /\ resetNext' = FALSE
  BY <1>1, Zenon DEF DistributeAuto
<1>3. CASE Candidates = {}
  <2>1. Give("no_channel") /\ groupIndex' = NGroups
    BY <1>3, Zenon DEF DistributeAuto
  <2>2. pc' = "done" /\ result' \in Results \ {""} /\ UNCHANGED attempts
    BY <2>1 DEF Give, Results
  <2>3. groupIndex' \in 0..Reach /\ 0 \in 0..(RetryTimes + 1)
    BY <1>1, <2>1, ReachBounds DEF Reach
  <2> QED BY <1>1, <1>2, <2>2, <2>3, EndKeeps, Zenon
<1>4. CASE Candidates # {}
  <2> DEFINE g == Min(Candidates)
  <2>1. g \in Groups /\ pool[g] # {}
    BY <1>4, NextGroup
  <2>2. /\ Attempt(g, 0)
        /\ groupIndex' = IF crossGroup /\ RetryTimes = 0 THEN g + 1 ELSE g
    BY <1>4, Zenon DEF DistributeAuto
  <2> HIDE DEF g
  <2>3. Target(pool[g], 0) \in Levels
    BY <2>1, LevelDrawn
  <2>4. /\ attempts' = Append(attempts, [group |-> g, index |-> 0,
                                          level |-> Target(pool[g], 0)])
        /\ pc' = "attempt" /\ UNCHANGED result /\ pc # "done"
    BY <1>1, <2>2, Zenon DEF Attempt
  <2>5. g < Reach /\ 0 \in 0..RetryTimes
    BY <1>1, <2>1, RetryAssumption DEF Reach, Groups
  <2>6. Len(attempts) <= Full(g) + 0
    <3>1. g \in Nat /\ Len(attempts) = 0 /\ Full(g) \in Nat
      BY <1>1, <2>1, RetryAssumption DEF Groups, Full
    <3> QED BY <3>1
  <2>7. \/ groupIndex' = g + 1 /\ RetryTimes = 0
        \/ groupIndex' = g
    BY <2>2, Zenon
  <2> QED BY <1>1, <1>2, <2>1, <2>3, <2>4, <2>5, <2>6, <2>7, AttemptKeeps, Zenon
<1> QED BY <1>3, <1>4

\* Between two attempts: what was made fits below the cursor and the counter.
LEMMA Selecting ==
    ASSUME Inv, pc = "select"
    PROVE  /\ resetNext = FALSE /\ attempts # <<>> /\ (Here(1) \/ Beyond)
           /\ Len(attempts) \in Nat /\ Len(attempts) <= Full(groupIndex) + retry
           /\ groupIndex = Reach => retry = 0
           /\ attempts[Len(attempts)].group \in Nat
<1> USE Numbers
<1>1. resetNext = FALSE /\ attempts # <<>> /\ (Here(1) \/ Beyond)
      /\ Len(attempts) <= Full(groupIndex) + retry
  BY Zenon DEF Place, TypeOK
<1>2. attempts[Len(attempts)].group \in Nat
  BY <1>1, LastAttempt, RetryAssumption DEF Groups
<1>3. groupIndex = Reach => retry = 0
  BY <1>1, ReachBounds DEF Here, Beyond
<1>4. Len(attempts) \in Nat
  <2>1. attempts \in Seq(AttemptRecords)
    BY Zenon DEF TypeOK
  <2> QED BY <2>1
<1> QED BY <1>1, <1>2, <1>3, <1>4

\* A selection that finds a group goes on there or starts in a later one.
LEMMA SelectAutoKeeps ==
    ASSUME Inv, pc = "select", mode = "auto", SelectAuto,
           UNCHANGED <<mode, crossGroup, pool, changes>>
    PROVE  Inv'
<1> USE Numbers, Selecting
<1>1. CASE Candidates = {}
  <2>1. /\ Give("no_channel") /\ groupIndex' = NGroups
        /\ retry' = IF groupIndex < NGroups THEN 0 ELSE retry
        /\ UNCHANGED resetNext
    BY <1>1, Zenon DEF SelectAuto
  <2>2. pc' = "done" /\ result' \in Results \ {""} /\ UNCHANGED attempts
    BY <2>1 DEF Give, Results
  <2>3. groupIndex' \in 0..Reach /\ retry' \in 0..(RetryTimes + 1) /\ resetNext' \in BOOLEAN
    BY <2>1, ReachBounds DEF Reach
  <2> QED BY <2>2, <2>3, EndKeeps, Zenon
<1>2. CASE Candidates # {}
  <2> DEFINE g == Min(Candidates)
             k == IF g = groupIndex THEN retry ELSE 0
  <2>1. g \in Groups /\ pool[g] # {} /\ g >= groupIndex /\ g \in Nat
    BY <1>2, NextGroup, RetryAssumption DEF Groups
  <2>2. Attempt(g, k) /\ Advance(g, k, k)
    BY <1>2, Zenon DEF SelectAuto
  <2>3. k \in 0..RetryTimes /\ k \in Nat /\ (g # groupIndex => k = 0)
        /\ (g = groupIndex => k = retry)
    OBVIOUS
  <2> HIDE DEF g, k
  <2>4. Target(pool[g], k) \in Levels
    BY <2>1, <2>3, LevelDrawn
  <2>5. /\ attempts' = Append(attempts, [group |-> g, index |-> k,
                                          level |-> Target(pool[g], k)])
        /\ pc' = "attempt" /\ UNCHANGED result /\ pc # "done"
    BY <2>2, Zenon DEF Attempt
  <2>6. g < Reach
    BY <2>1, RetryAssumption DEF Reach, Groups
  <2>7. Len(attempts) <= Full(g) + k
    <3>1. CASE g = groupIndex
      BY <2>3, <3>1
    <3>2. CASE g # groupIndex
      <4>1. groupIndex < g
        BY <2>1, <3>2
      <4>2. Full(groupIndex) \in Nat /\ Full(g) \in Nat
            /\ Full(groupIndex) + RetryTimes + 1 <= Full(g)
        BY <2>1, <4>1, FullGrows, Zenon
      <4> QED BY <2>3, <4>2
    <3> QED BY <3>1, <3>2
  <2>8. \/ g = attempts[Len(attempts)].group /\ k = attempts[Len(attempts)].index + 1
        \/ g > attempts[Len(attempts)].group /\ k = 0
    <3>1. CASE g = groupIndex
      BY <2>3, <3>1 DEF Here, Beyond
    <3>2. CASE g # groupIndex
      <4>1. groupIndex >= attempts[Len(attempts)].group
        BY DEF Here, Beyond
      <4> QED BY <2>1, <2>3, <3>2, <4>1
    <3> QED BY <3>1, <3>2
  <2>9. \/ resetNext' = TRUE /\ groupIndex' = g + 1 /\ retry' = 0 /\ k = RetryTimes
        \/ resetNext' = FALSE /\ groupIndex' = g /\ retry' = k
    <3>1. CASE crossGroup /\ k >= RetryTimes
      <4>1. k = RetryTimes
        BY <2>3, <3>1
      <4> QED BY <2>2, <3>1, <4>1, Zenon DEF Advance
    <3>2. CASE ~(crossGroup /\ k >= RetryTimes)
      BY <2>2, <3>2, Zenon DEF Advance
    <3> QED BY <3>1, <3>2
  <2> QED BY <2>1, <2>3, <2>4, <2>5, <2>6, <2>7, <2>8, <2>9, AttemptKeeps, Zenon
<1> QED BY <1>1, <1>2

\* A retry selects, in the group or among the groups.
LEMMA SelectKeeps == ASSUME Inv, Select PROVE Inv'
<1>1. pc = "select" /\ UNCHANGED <<mode, crossGroup, pool, changes>>
  BY DEF Select
<1>2. CASE mode = "auto"
  BY <1>1, <1>2, SelectAutoKeeps, Zenon DEF Select
<1>3. CASE mode # "auto"
  BY <1>1, <1>3, SelectInGroupKeeps, Zenon DEF Select
<1> QED BY <1>2, <1>3

\* A channel without a key ends the request as it stands.
LEMMA SelectKeylessKeeps == ASSUME Inv, SelectKeyless PROVE Inv'
<1> USE Numbers
<1>1. Give("no_key") /\ UNCHANGED <<mode, crossGroup, pool, changes, retry, resetNext, groupIndex>>
  BY DEF SelectKeyless
<1>2. pc' = "done" /\ result' \in Results \ {""} /\ UNCHANGED attempts
  BY <1>1 DEF Give, Results
<1>3. resetNext' \in BOOLEAN /\ (mode # "auto" => groupIndex' = 0)
  BY <1>1, Zenon DEF TypeOK, Place
<1> QED BY <1>1, <1>2, <1>3, EndKeeps, Zenon

\* An attempt that is answered ends the request or is followed by a selection
\* with the counter one further, or at the start of a group.
LEMMA RespondKeeps == ASSUME Inv, NEW o \in Outcomes, Respond(o) PROVE Inv'
<1> USE Numbers
<1>1. pc = "attempt" /\ UNCHANGED <<mode, crossGroup, pool, changes, groupIndex>>
  BY Zenon DEF Respond
<1>2. retry \in 0..RetryTimes /\ resetNext \in BOOLEAN /\ (mode # "auto" => groupIndex = 0)
  BY <1>1, Zenon DEF TypeOK, Place
<1>3. attempts # <<>> /\ attempts[Len(attempts)].index \in Nat
  BY <1>1, LastAttempt, Zenon DEF Place
<1>4. \/ \E r \in Results \ {""} : Give(r) /\ UNCHANGED <<retry, resetNext>>
      \/ /\ resetNext' = FALSE /\ retry' = IF resetNext THEN retry ELSE retry + 1
         /\ \/ retry' <= RetryTimes /\ pc' = "select" /\ UNCHANGED <<result, attempts>>
            \/ Give("exhausted")
  <2>1. {"served", "refused", "exhausted"} \subseteq Results \ {""}
    BY DEF Results
  <2>2. CASE o = "ok"
    BY <2>1, <2>2, Zenon DEF Respond
  <2>3. CASE o # "ok" /\ ~ShouldRetry(o)
    BY <2>1, <2>3, Zenon DEF Respond
  <2>4. CASE o # "ok" /\ ShouldRetry(o)
    BY <2>4, Zenon DEF Respond
  <2> QED BY <2>2, <2>3, <2>4
<1>5. CASE \E r \in Results \ {""} : Give(r) /\ UNCHANGED <<retry, resetNext>>
  BY <1>1, <1>2, <1>5, EndKeeps, Zenon DEF Give
<1>6. CASE resetNext' = FALSE /\ retry' = (IF resetNext THEN retry ELSE retry + 1)
           /\ Give("exhausted")
  <2>1. pc' = "done" /\ result' \in Results \ {""} /\ UNCHANGED attempts
    BY <1>6 DEF Give, Results
  <2>2. retry' \in 0..(RetryTimes + 1)
    BY <1>2, <1>6
  <2>3. groupIndex' \in 0..Reach /\ resetNext' \in BOOLEAN /\ (mode # "auto" => groupIndex' = 0)
    BY <1>1, <1>2, <1>6, Zenon
  <2> QED BY <1>1, <2>1, <2>2, <2>3, EndKeeps, Zenon
<1>7. CASE /\ resetNext' = FALSE /\ retry' = IF resetNext THEN retry ELSE retry + 1
           /\ retry' <= RetryTimes /\ pc' = "select" /\ UNCHANGED <<result, attempts>>
  <2>1. retry' \in 0..RetryTimes /\ retry' \in 0..(RetryTimes + 1)
    BY <1>2, <1>7
  <2>2. TypeOK'
    <3>1. pc' # "done" /\ pc # "done" /\ pc' \in {"distribute", "attempt", "select", "done", "hung"}
      BY <1>1, <1>7
    <3> QED BY <1>1, <1>7, <2>1, <3>1, Zenon DEF TypeOK
  <2>3. TopDown' /\ AttemptsBounded'
    BY <1>1, <1>7 DEF Inv, TopDown, AttemptsBounded
  <2>4. Full(groupIndex) \in Int
    BY DEF Full
  <2>5. /\ Len(attempts) \in Nat
        /\ \/ resetNext /\ Beyond /\ Len(attempts) <= Full(groupIndex)
           \/ ~resetNext /\ Here(0) /\ Len(attempts) <= Full(groupIndex) + retry + 1
           \/ ~resetNext /\ Beyond /\ RetryTimes = 0 /\ Len(attempts) <= Full(groupIndex)
    <3>1. attempts \in Seq(AttemptRecords)
      BY Zenon DEF TypeOK
    <3>2. Len(attempts) \in Nat
      BY <3>1
    <3> QED BY <1>1, <3>2, Zenon DEF Place
  <2>6. Reach' = Reach
    BY <1>1, Zenon DEF Reach
  <2>7. (Here(1)' \/ Beyond') /\ Len(attempts') <= Full(groupIndex') + retry'
    <3>1. CASE resetNext /\ Beyond /\ Len(attempts) <= Full(groupIndex)
      <4>1. retry' = 0
        BY <1>7, <3>1, Zenon DEF Beyond
      <4> QED BY <1>1, <1>7, <2>4, <2>5, <3>1, <4>1 DEF Beyond, Full
    <3>2. CASE ~resetNext /\ Here(0) /\ Len(attempts) <= Full(groupIndex) + retry + 1
      <4>1. retry' = retry + 1
        BY <1>7, <3>2, Zenon
      <4>2. retry = attempts[Len(attempts)].index
        BY <1>3, <3>2 DEF Here
      <4>3. Here(1)'
        BY <1>1, <1>3, <1>7, <2>6, <3>2, <4>1, <4>2 DEF Here
      <4>4. Len(attempts') <= Full(groupIndex') + retry'
        BY <1>1, <1>7, <2>4, <2>5, <3>2, <4>1 DEF Full
      <4> QED BY <4>3, <4>4
    <3>3. CASE ~resetNext /\ Beyond /\ RetryTimes = 0 /\ Len(attempts) <= Full(groupIndex)
      <4>1. retry' = retry + 1 /\ retry = 0
        BY <1>7, <3>3, Zenon DEF Beyond
      <4> QED BY <1>7, <3>3, <4>1
    <3> QED BY <2>5, <3>1, <3>2, <3>3
  <2>8. /\ mode' # "auto" => groupIndex' = 0
        /\ groupIndex' <= Reach' /\ retry' <= RetryTimes /\ attempts' # <<>>
    BY <1>1, <1>2, <1>3, <1>7, <2>6
  <2>9. Place'
    BY <1>7, <2>7, <2>8, Zenon DEF Place, Full
  <2> QED BY <2>2, <2>3, <2>9, Zenon DEF Inv
<1> QED BY <1>4, <1>5, <1>6, <1>7, Zenon

\* What others do to the pool changes nothing of the request.
LEMMA ChangePoolKeeps ==
    ASSUME Inv, NEW g \in Groups, NEW p \in Levels, ChangePool(g, p) PROVE Inv'
<1> USE Numbers
<1>1. UNCHANGED <<mode, crossGroup, pc, result, retry, resetNext, groupIndex, attempts>>
  BY DEF ChangePool
<1>2. pool' \in [Groups -> SUBSET Levels]
  BY DEF ChangePool, TypeOK
<1>3. changes' \in 0..MaxPoolChanges
  <2>1. changes \in 0..MaxPoolChanges /\ changes < MaxPoolChanges /\ changes' = changes + 1
    BY Zenon DEF ChangePool, TypeOK
  <2> QED BY <2>1, RetryAssumption
<1>4. TypeOK'
  BY <1>1, <1>2, <1>3, Zenon DEF TypeOK
<1>5. TopDown' /\ AttemptsBounded' /\ Place'
  BY <1>1 DEF Inv, TopDown, AttemptsBounded, Place, Here, Beyond, Reach, Full
<1> QED BY <1>4, <1>5, Zenon DEF Inv

\* An attempt that is never answered leaves everything as it was.
LEMMA HangKeeps ==
    ASSUME Inv, Hang PROVE Inv'
<1>1. /\ pc = "attempt" /\ pc' = "hung"
      /\ UNCHANGED <<mode, crossGroup, pool, changes, result, retry, resetNext,
                     groupIndex, attempts>>
  BY DEF Hang
<1>2. TypeOK'
  BY <1>1, Zenon DEF Inv, TypeOK
<1>3. TopDown' /\ AttemptsBounded'
  BY <1>1 DEF Inv, TopDown, AttemptsBounded
<1>4. Place'
  BY <1>1 DEF Inv, Place, Reach
<1> QED BY <1>2, <1>3, <1>4, Zenon DEF Inv

-----------------------------------------------------------------------------
(* The theorems                                                            *)

LEMMA InitHolds == Init => Inv
<1> SUFFICES ASSUME Init PROVE Inv
  OBVIOUS
<1>1. /\ attempts = <<>> /\ retry = 0 /\ groupIndex = 0 /\ changes = 0 /\ pc = "distribute"
      /\ resetNext = FALSE
  BY Zenon DEF Init
<1>2. NGroups \in Nat \ {0} /\ RetryTimes \in Nat /\ MaxPoolChanges \in Nat
  BY RetryAssumption
<1>3. attempts \in Seq(AttemptRecords) /\ Len(attempts) = 0
  BY <1>1
<1>4. /\ groupIndex \in 0..NGroups /\ retry \in 0..(RetryTimes + 1) /\ changes \in 0..MaxPoolChanges
      /\ pc \in {"distribute", "attempt", "select", "done", "hung"} /\ pc # "done"
  BY <1>1, <1>2
<1>5. TypeOK
  <2>1. result \in Results /\ result = ""
    BY Zenon DEF Init, Results
  <2> QED BY <1>1, <1>3, <1>4, <2>1, Zenon DEF Init, TypeOK
<1>6. TopDown
  BY <1>3 DEF TopDown
<1>7. AttemptsBounded
  <2>1. ASSUME NEW n \in Nat PROVE 0 <= (RetryTimes + 1) * n
    BY <1>2
  <2>2. (IF mode = "auto" THEN NGroups ELSE 1) \in Nat
    BY <1>2
  <2> QED BY <1>3, <2>1, <2>2 DEF AttemptsBounded
<1>8. Place
  <2>1. groupIndex <= Reach
    BY <1>1, ReachBounds
  <2>2. retry <= RetryTimes /\ pc # "done" /\ pc \notin {"attempt", "select"}
        /\ pc # "attempt" /\ pc # "select"
    BY <1>1, <1>2
  <2> QED BY <1>1, <2>1, <2>2, Zenon DEF Place
<1> QED BY <1>5, <1>6, <1>7, <1>8, Zenon DEF Inv

LEMMA StepKeeps == Inv /\ [Next]_vars => Inv'
<1> SUFFICES ASSUME Inv, [Next]_vars PROVE Inv'
  OBVIOUS
<1>1. CASE DistributeInGroup
  <2>1. mode # "auto"
    BY <1>1 DEF DistributeInGroup
  <2> QED BY <1>1, <2>1, SelectInGroupKeeps DEF DistributeInGroup
<1>2. CASE DistributeAuto
  BY <1>2, DistributeAutoKeeps
<1>3. ASSUME NEW p \in Levels, DistributePinned(p) PROVE Inv'
  BY <1>3, PinnedKeeps
<1>4. CASE Select
  BY <1>4, SelectKeeps
<1>5. CASE SelectKeyless
  BY <1>5, SelectKeylessKeeps
<1>6. ASSUME NEW o \in Outcomes, Respond(o) PROVE Inv'
  BY <1>6, RespondKeeps
<1>7. ASSUME NEW g \in Groups, NEW p \in Levels, ChangePool(g, p) PROVE Inv'
  BY <1>7, ChangePoolKeeps
<1>8. CASE UNCHANGED vars
  BY <1>8 DEF vars, Inv, TypeOK, TopDown, AttemptsBounded, Place, Here, Beyond, Reach, Full
<1>9. CASE Hang
  BY <1>9, HangKeeps
<1> QED BY <1>1, <1>2, <1>3, <1>4, <1>5, <1>6, <1>7, <1>8, <1>9, Zenon DEF Next, Handle

\* The invariant holds throughout.
THEOREM Invariant == Spec => []Inv
BY InitHolds, StepKeeps, PTL DEF Spec

\* The request's variables keep their types; it has a result when it is done.
THEOREM TypeCorrect == Spec => []TypeOK
<1>1. Inv => TypeOK
  BY DEF Inv
<1> QED BY <1>1, Invariant, PTL

\* getChannel and shouldRetry: whatever the selection does to the counter and
\* others to the pool, RetryTimes + 1 attempts are made per group at most.
THEOREM AttemptsLimited == Spec => []AttemptsBounded
<1>1. Inv => AttemptsBounded
  BY DEF Inv
<1> QED BY <1>1, Invariant, PTL

\* CacheGetRandomSatisfiedChannel: attempts start at the top of every group,
\* go down one priority at a time and never return to a group.
THEOREM AttemptsDescend == Spec => []TopDown
<1>1. Inv => TopDown
  BY DEF Inv
<1> QED BY <1>1, Invariant, PTL

-----------------------------------------------------------------------------
(* No group is forgotten                                                   *)

\* A request that crosses groups, in a pool that nobody has changed.
Crossing == mode = "auto" /\ crossGroup /\ RetryTimes > 0 /\ changes = 0

\* Group g is among the attempts made, at priority index k; or not needed.
Made(tries, g, k) == \E n \in 1..Len(tries) : tries[n].group = g /\ tries[n].index = k
Finished(tries, S, g) == S[g] # {} => \A k \in 0..RetryTimes : Made(tries, g, k)

\* The groups behind the cursor are finished; the cursor's group is attempted
\* down to where the counter stands, which never reaches the end of the loop.
Progress ==
    Crossing =>
    /\ pc # "done" => \A g \in Groups : g < groupIndex => Finished(attempts, pool, g)
    /\ pc = "attempt" =>
          \/ resetNext /\ retry = 0
          \/ ~resetNext /\ retry < RetryTimes /\ \A k \in 0..retry : Made(attempts, groupIndex, k)
    /\ pc = "select" => \A k \in 0..(retry - 1) : Made(attempts, groupIndex, k)

\* What was attempted stays so when an attempt is added, which is made then.
LEMMA MadeStays ==
    ASSUME TypeOK, NEW STATE g, NEW STATE k, NEW STATE l,
           g \in Groups, k \in Nat, l \in Levels,
           attempts' = Append(attempts, [group |-> g, index |-> k, level |-> l])
    PROVE  /\ \A h, j : Made(attempts, h, j) => Made(attempts', h, j)
           /\ Made(attempts', g, k)
<1> USE Appended
<1>1. ASSUME NEW h, NEW j, Made(attempts, h, j) PROVE Made(attempts', h, j)
  <2>1. PICK n \in 1..Len(attempts) : attempts[n].group = h /\ attempts[n].index = j
    BY <1>1 DEF Made
  <2>2. n \in 1..Len(attempts') /\ attempts'[n] = attempts[n]
    BY <2>1
  <2> QED BY <2>1, <2>2 DEF Made
<1>2. Len(attempts') \in 1..Len(attempts')
  OBVIOUS
<1>3. Made(attempts', g, k)
  BY <1>2 DEF Made
<1> QED BY <1>1, <1>3

\* The first group with a channel: those between the cursor and it have none.
LEMMA NoneBetween ==
    ASSUME TypeOK, Candidates # {}, NEW h \in Groups, groupIndex <= h, h < Min(Candidates)
    PROVE  pool[h] = {}
<1>1. Candidates \in SUBSET Groups /\ Groups \in SUBSET Int
  BY RetryAssumption DEF Candidates, Groups
<1>2. IsFiniteSet(Groups)
  BY RetryAssumption, FS_Interval DEF Groups
<1>3. IsFiniteSet(Candidates)
  BY <1>1, <1>2, FS_Subset
<1>4. Min(Candidates) \in Candidates /\ \A x \in Candidates : Min(Candidates) <= x
  BY <1>1, <1>3, LeastExists
<1>5. h \notin Candidates
  <2>1. h \in Int /\ Min(Candidates) \in Int
    BY <1>1, <1>4
  <2> QED BY <1>4, <2>1
<1>6. h >= groupIndex
  OBVIOUS
<1> QED BY <1>5, <1>6 DEF Candidates

\* An attempt that continues in the cursor's group or begins the next one with
\* a channel keeps the progress: all groups before it are finished, and it as
\* well when the cursor moves on.
LEMMA AttemptProgresses ==
    ASSUME Inv, Progress, Crossing, pc \in {"distribute", "select"},
           UNCHANGED <<mode, crossGroup, pool, changes>>,
           NEW STATE g, NEW STATE k, NEW STATE l,
           g \in Groups, k \in 0..RetryTimes, l \in Levels, groupIndex <= g,
           \A h \in Groups : groupIndex <= h /\ h < g => pool[h] = {},
           k = IF g = groupIndex THEN retry ELSE 0,
           attempts' = Append(attempts, [group |-> g, index |-> k, level |-> l]),
           pc' = "attempt",
           \/ k = RetryTimes /\ resetNext' = TRUE /\ groupIndex' = g + 1 /\ retry' = 0
           \/ k < RetryTimes /\ resetNext' = FALSE /\ groupIndex' = g /\ retry' = k
    PROVE  Progress'
<1> USE Numbers
<1>1. /\ \A h, j : Made(attempts, h, j) => Made(attempts', h, j)
      /\ Made(attempts', g, k)
  BY MadeStays
<1>2. g \in Nat /\ k \in Nat /\ Groups \subseteq Nat
  BY RetryAssumption DEF Groups
<1>3. ASSUME NEW h \in Groups, h < g PROVE Finished(attempts', pool', h)
  <2>1. h \in Nat
    BY <1>2
  <2>2. CASE h < groupIndex
    <3>1. Finished(attempts, pool, h)
      BY <2>2, Zenon DEF Progress
    <3>2. pool' = pool
      OBVIOUS
    <3> QED BY <1>1, <3>1, <3>2, Zenon DEF Finished
  <2>3. CASE groupIndex <= h
    BY <1>3, <2>3 DEF Finished
  <2> QED BY <2>1, <2>2, <2>3
<1>4. ASSUME NEW j \in 0..k PROVE Made(attempts', g, j)
  <2>1. CASE j = k
    BY <1>1, <2>1
  <2>2. CASE j # k
    <3>1. g = groupIndex /\ k = retry /\ j \in 0..(retry - 1)
      BY <1>2, <2>2
    <3>2. pc = "select"
      BY <3>1 DEF Place
    <3>3. Made(attempts, groupIndex, j)
      BY <3>1, <3>2, Zenon DEF Progress
    <3> QED BY <1>1, <3>1, <3>3
  <2> QED BY <2>1, <2>2
<1>5. CASE k = RetryTimes /\ resetNext' = TRUE /\ groupIndex' = g + 1 /\ retry' = 0
  <2>1. ASSUME NEW h \in Groups, h < groupIndex' PROVE Finished(attempts', pool', h)
    <3>1. h < g \/ h = g
      <4>1. h \in Nat /\ g \in Nat
        BY <1>2
      <4>2. h < g + 1
        BY <1>5, <2>1
      <4> QED BY <4>1, <4>2
    <3>2. CASE h = g
      BY <1>4, <1>5, <3>2, Zenon DEF Finished
    <3> QED BY <1>3, <3>1, <3>2
  <2> QED BY <1>5, <2>1, Zenon DEF Progress
<1>6. CASE k < RetryTimes /\ resetNext' = FALSE /\ groupIndex' = g /\ retry' = k
  BY <1>3, <1>4, <1>6, Zenon DEF Progress
<1> QED BY <1>5, <1>6

\* Without a group from the cursor on that has a channel all are finished.
LEMMA AllFinished ==
    ASSUME TypeOK, Progress, Crossing, pc # "done", Candidates = {}, NEW g \in Groups
    PROVE  Finished(attempts, pool, g)
<1>1. CASE pool[g] = {}
  BY <1>1 DEF Finished
<1>2. CASE pool[g] # {}
  <2>1. ~(g >= groupIndex)
    BY <1>2 DEF Candidates
  <2>2. groupIndex \in 0..NGroups
    BY Zenon DEF TypeOK
  <2>3. g < groupIndex
    BY <2>1, <2>2, RetryAssumption DEF Groups
  <2> QED BY <2>3, Zenon DEF Progress
<1> QED BY <1>1, <1>2

\* A request ends rightly: not for want of retries or channels, or with all
\* groups finished.
LEMMA EndsRightly ==
    ASSUME pc' = "done",
           result' \in {"exhausted", "no_channel"} /\ Crossing' =>
               \A g \in Groups : Finished(attempts', pool', g)
    PROVE  Progress' /\ NoGroupForgotten'
<1>1. Progress'
  BY DEF Progress
<1>2. NoGroupForgotten'
  BY Zenon DEF NoGroupForgotten, Crossing, Finished, Made
<1> QED BY <1>1, <1>2

\* A request that goes on has forgotten no group yet.
LEMMA NotEnded == pc' # "done" => NoGroupForgotten'
BY DEF NoGroupForgotten

\* A request that does not cross groups promises nothing here.
LEMMA NotCrossing == ~Crossing' => Progress' /\ NoGroupForgotten'
BY DEF Progress, NoGroupForgotten, Crossing

\* The walk starts at the first group that has a channel.
LEMMA DistributeProgresses ==
    ASSUME Inv, Progress, Crossing, DistributeAuto PROVE Progress' /\ NoGroupForgotten'
<1> USE Numbers
<1>1. /\ pc = "distribute" /\ attempts = <<>> /\ retry = 0
      /\ groupIndex = 0 /\ resetNext = FALSE
  BY Zenon DEF DistributeAuto, Place, TypeOK
<1>2. UNCHANGED <<mode, crossGroup, pool, changes>> /\ retry' = 0 /\ resetNext' = FALSE
  BY <1>1, Zenon DEF DistributeAuto
<1>3. CASE Candidates = {}
  <2>1. pc' = "done" /\ UNCHANGED attempts
    BY <1>3, Zenon DEF DistributeAuto, Give
  <2>2. \A g \in Groups : Finished(attempts', pool', g)
    BY <1>1, <1>2, <1>3, <2>1, AllFinished
  <2> QED BY <2>1, <2>2, EndsRightly, Zenon
<1>4. CASE Candidates # {}
  <2> DEFINE g == Min(Candidates)
  <2>1. g \in Groups /\ pool[g] # {} /\ groupIndex <= g
        /\ \A h \in Groups : groupIndex <= h /\ h < g => pool[h] = {}
    BY <1>4, NextGroup, NoneBetween
  <2>2. Attempt(g, 0) /\ groupIndex' = g
    <3>1. ~(RetryTimes = 0)
      BY DEF Crossing
    <3> QED BY <1>4, <3>1, Zenon DEF DistributeAuto
  <2> HIDE DEF g
  <2>3. Target(pool[g], 0) \in Levels
    BY <2>1, LevelDrawn
  <2>4. /\ attempts' = Append(attempts, [group |-> g, index |-> 0,
                                          level |-> Target(pool[g], 0)])
        /\ pc' = "attempt"
    BY <2>2, Zenon DEF Attempt
  <2>5. 0 \in 0..RetryTimes /\ 0 < RetryTimes /\ 0 = IF g = groupIndex THEN retry ELSE 0
    BY <1>1 DEF Crossing
  <2>6. Progress'
    BY <1>1, <1>2, <2>1, <2>2, <2>3, <2>4, <2>5, AttemptProgresses, Zenon
  <2> QED BY <2>4, <2>6, NotEnded
<1> QED BY <1>3, <1>4

\* A retry goes on in the cursor's group or in the next one with a channel.
LEMMA SelectProgresses ==
    ASSUME Inv, Progress, Crossing, Select PROVE Progress' /\ NoGroupForgotten'
<1> USE Numbers
<1>1. pc = "select" /\ SelectAuto /\ UNCHANGED <<mode, crossGroup, pool, changes>>
      /\ resetNext = FALSE /\ crossGroup
  BY Selecting, Zenon DEF Select, Crossing
<1>2. CASE Candidates = {}
  <2>1. pc' = "done" /\ UNCHANGED attempts
    BY <1>1, <1>2, Zenon DEF SelectAuto, Give
  <2>2. \A g \in Groups : Finished(attempts', pool', g)
    BY <1>1, <1>2, <2>1, AllFinished
  <2> QED BY <2>1, <2>2, EndsRightly, Zenon
<1>3. CASE Candidates # {}
  <2> DEFINE g == Min(Candidates)
             k == IF g = groupIndex THEN retry ELSE 0
  <2>1. g \in Groups /\ pool[g] # {} /\ groupIndex <= g
        /\ \A h \in Groups : groupIndex <= h /\ h < g => pool[h] = {}
    BY <1>3, NextGroup, NoneBetween
  <2>2. Attempt(g, k) /\ Advance(g, k, k)
    BY <1>1, <1>3, Zenon DEF SelectAuto
  <2>3. k \in 0..RetryTimes /\ k \in Nat /\ k = IF g = groupIndex THEN retry ELSE 0
    BY <1>1
  <2> HIDE DEF g, k
  <2>4. Target(pool[g], k) \in Levels
    BY <2>1, <2>3, LevelDrawn
  <2>5. /\ attempts' = Append(attempts, [group |-> g, index |-> k,
                                          level |-> Target(pool[g], k)])
        /\ pc' = "attempt"
    BY <2>2, Zenon DEF Attempt
  <2>6. \/ k = RetryTimes /\ resetNext' = TRUE /\ groupIndex' = g + 1 /\ retry' = 0
        \/ k < RetryTimes /\ resetNext' = FALSE /\ groupIndex' = g /\ retry' = k
    <3>1. CASE k >= RetryTimes
      <4>1. k = RetryTimes
        BY <2>3, <3>1
      <4> QED BY <1>1, <2>2, <3>1, <4>1, Zenon DEF Advance
    <3>2. CASE ~(k >= RetryTimes)
      <4>1. k < RetryTimes
        BY <2>3, <3>2
      <4> QED BY <1>1, <2>2, <3>2, <4>1, Zenon DEF Advance
    <3> QED BY <3>1, <3>2
  <2>7. Progress'
    BY <1>1, <2>1, <2>3, <2>4, <2>5, <2>6, AttemptProgresses, Zenon
  <2> QED BY <2>5, <2>7, NotEnded
<1> QED BY <1>2, <1>3

\* An answer worth a retry gets one: the counter starts again before the loop
\* runs out of it.
LEMMA RespondProgresses ==
    ASSUME Inv, Progress, Crossing, NEW o \in Outcomes, Respond(o)
    PROVE  Progress' /\ NoGroupForgotten'
<1> USE Numbers
<1>1. pc = "attempt" /\ UNCHANGED <<mode, crossGroup, pool, changes, groupIndex>>
  BY Zenon DEF Respond
<1>2. \/ resetNext /\ retry = 0
      \/ ~resetNext /\ retry < RetryTimes /\ \A k \in 0..retry : Made(attempts, groupIndex, k)
  BY <1>1, Zenon DEF Progress
<1>3. retry < RetryTimes /\ retry \in Nat
  BY <1>2 DEF Crossing
<1>4. o = "retryable" => ShouldRetry(o)
  <2>1. RetryTimes - retry > 0
    BY <1>3
  <2>2. mode # "pinned"
    BY DEF Crossing
  <2> QED BY <2>1, <2>2, Zenon DEF ShouldRetry
<1>5. CASE o = "ok" \/ ~ShouldRetry(o)
  <2>1. Give("served") \/ Give("refused")
    BY <1>4, <1>5, Zenon DEF Respond
  <2>2. pc' = "done" /\ result' \notin {"exhausted", "no_channel"}
    BY <2>1 DEF Give
  <2> QED BY <2>2, EndsRightly, Zenon
<1>6. CASE o # "ok" /\ ShouldRetry(o)
  <2>1. /\ resetNext' = FALSE /\ retry' = IF resetNext THEN retry ELSE retry + 1
        /\ IF retry' <= RetryTimes THEN pc' = "select" /\ UNCHANGED <<result, attempts>>
           ELSE Give("exhausted")
    BY <1>6, Zenon DEF Respond
  <2>2. retry' <= RetryTimes
    BY <1>3, <2>1
  <2>3. pc' = "select" /\ UNCHANGED <<result, attempts>>
    BY <2>1, <2>2, Zenon
  <2>4. \A k \in 0..(retry' - 1) : Made(attempts', groupIndex', k)
    <3>1. CASE resetNext
      BY <1>2, <2>1, <3>1
    <3>2. CASE ~resetNext
      <4>1. retry' - 1 = retry
        BY <1>3, <2>1, <3>2
      <4> QED BY <1>1, <1>2, <2>3, <3>2, <4>1, Zenon
    <3> QED BY <3>1, <3>2
  <2>5. \A g \in Groups : g < groupIndex' => Finished(attempts', pool', g)
    <3>1. \A g \in Groups : g < groupIndex => Finished(attempts, pool, g)
      BY <1>1, Zenon DEF Progress
    <3> QED BY <1>1, <2>3, <3>1, Zenon
  <2>6. Progress'
    BY <2>3, <2>4, <2>5, Zenon DEF Progress
  <2> QED BY <2>3, <2>6, NotEnded
<1> QED BY <1>5, <1>6

LEMMA StepProgresses ==
    Inv /\ Progress /\ NoGroupForgotten /\ [Next]_vars => Progress' /\ NoGroupForgotten'
<1> SUFFICES ASSUME Inv, Progress, NoGroupForgotten, [Next]_vars, Crossing'
             PROVE  Progress' /\ NoGroupForgotten'
  BY NotCrossing
<1>1. ASSUME NEW g \in Groups, NEW p \in Levels, ChangePool(g, p) PROVE FALSE
  <2>1. changes' = changes + 1 /\ changes \in 0..MaxPoolChanges
    BY <1>1, Zenon DEF ChangePool, Inv, TypeOK
  <2>2. changes' = 0
    BY DEF Crossing
  <2> QED BY <2>1, <2>2, RetryAssumption
<1>2. CASE UNCHANGED vars
  BY <1>2 DEF vars, Progress, NoGroupForgotten, Crossing, Finished, Made
<1>3. CASE Handle
  <2>1. UNCHANGED <<mode, crossGroup, pool, changes>>
    BY <1>3, Zenon DEF Handle, DistributeInGroup, DistributeAuto, DistributePinned,
                       Select, SelectKeyless, Respond
  <2>2. Crossing /\ mode = "auto"
    BY <2>1 DEF Crossing
  <2>3. CASE SelectKeyless
    <3>1. pc' = "done" /\ result' \notin {"exhausted", "no_channel"}
      BY <2>3 DEF SelectKeyless, Give
    <3> QED BY <3>1, EndsRightly, Zenon
  <2>4. ~DistributeInGroup /\ \A p \in Levels : ~DistributePinned(p)
    BY <2>2 DEF DistributeInGroup, DistributePinned
  <2> QED BY <1>3, <2>2, <2>3, <2>4, DistributeProgresses, SelectProgresses,
             RespondProgresses, Zenon DEF Handle
<1>4. CASE Hang
  <2>1. /\ pc = "attempt" /\ pc' = "hung"
        /\ UNCHANGED <<mode, crossGroup, pool, changes, groupIndex, attempts>>
    BY <1>4 DEF Hang
  <2>2. Crossing
    BY <2>1 DEF Crossing
  <2>3. \A g \in Groups : g < groupIndex => Finished(attempts, pool, g)
    BY <2>1, <2>2, Zenon DEF Progress
  <2>4. Progress'
    BY <2>1, <2>3 DEF Progress
  <2> QED BY <2>1, <2>4, NotEnded
<1> QED BY <1>1, <1>2, <1>3, <1>4, Zenon DEF Next

\* The cursor and the counter of CacheGetRandomSatisfiedChannel: a request that
\* crosses groups and is given up for want of retries or channels has made all
\* its attempts in every group that has a channel.
THEOREM NoneForgotten == Spec => []NoGroupForgotten
<1>1. Init => Progress /\ NoGroupForgotten
  <2> SUFFICES ASSUME Init PROVE Progress /\ NoGroupForgotten
    OBVIOUS
  <2>1. pc = "distribute" /\ groupIndex = 0
    BY Zenon DEF Init
  <2>2. \A g \in Groups : ~(g < 0)
    BY RetryAssumption DEF Groups
  <2> QED BY <2>1, <2>2 DEF Progress, NoGroupForgotten
<1> QED BY <1>1, StepProgresses, Invariant, PTL DEF Spec


=============================================================================
