--------------------------- MODULE ConsoleProofs ---------------------------
(***************************************************************************)
(* Theorems about the two pages of the web console that are modelled, for  *)
(* any number of requests and of user operations.                          *)
(*                                                                         *)
(* The chat page: the lists stay lists of messages, a settled answer is    *)
(* never written again, no data reaches an earlier answer, and the storage *)
(* ends up with what is shown. The channels page: the table shows what was *)
(* asked for last, and a batch counts results it has.                      *)
(***************************************************************************)
EXTENDS Playground, ChannelsPage, FiniteSetTheorems, SequenceTheorems,
        WellFoundedInduction, TLAPS

\* The messages the page can hold: a question is never being generated, and,
\* unless an older answer was made the last one, a message shows the data of
\* no later request.
Fit(p) ==
    {m \in Message : /\ m.role = "user" => m.status \notin Generating
                     /\ p \/ \A r \in m.from : r <= m.req}

USE DEF RequestStates

-----------------------------------------------------------------------------
(* The fold that deletes messages by their id. It is a recursive function  *)
(* on the sets of positions; that it exists and what it returns is proved  *)
(* on a least number of positions for which it would not.                  *)

\* What a step of the fold returns, and the function it defines.
Top(s) == CHOOSE x \in s : \A y \in s : x >= y
StepKeep(list, id, g, s) ==
    IF s = {} THEN <<>>
    ELSE IF list[Top(s)].id = id THEN g[s \ {Top(s)}]
         ELSE Append(g[s \ {Top(s)}], list[Top(s)])
Keep(list, id) ==
    CHOOSE g : g = [s \in SUBSET (DOMAIN list) |-> StepKeep(list, id, g, s)]

LEMMA KeepFolds ==
    ASSUME NEW list, NEW id
    PROVE  WithoutId(list, id) = Keep(list, id)[DOMAIN list]
BY Zenon DEF WithoutId, Keep, StepKeep, Top, FoldLeft, MapThenFoldSet, Max

\* A nonempty set of natural numbers has a least element.
LEMMA Least ==
    ASSUME NEW S \in SUBSET Nat, S # {}
    PROVE  \E n \in S : \A m \in S : n <= m
<1>1. IsWellFoundedOn(OpToRel(<, Nat), Nat)
  BY NatLessThanWellFounded, Zenon
<1>2. PICK n \in S : \A m \in S : <<m, n>> \notin OpToRel(<, Nat)
  BY <1>1, WFMin, Zenon
<1>3. ASSUME NEW m \in S PROVE ~(m < n)
  BY <1>2 DEF OpToRel
<1> QED BY <1>3

\* Among the subsets of a finite set with some fault, one is minimal: without
\* any one of its elements it has the fault no more.
LEMMA MinimalSet ==
    ASSUME NEW D, IsFiniteSet(D), NEW B \in SUBSET (SUBSET D), B # {}
    PROVE  \E s \in B : \A x \in s : s \ {x} \notin B
<1>1. IsWellFoundedOn(StrictSubsetOrdering(D), SUBSET D)
  BY FS_StrictSubsetOrderingWellFounded, FS_FiniteSubsetsOfFinite
<1>2. PICK s \in B : \A t \in B : <<t, s>> \notin StrictSubsetOrdering(D)
  BY <1>1, WFMin, Zenon
<1>3. ASSUME NEW x \in s, s \ {x} \in B PROVE FALSE
  <2>1. s \ {x} \in SUBSET D /\ s \in SUBSET D /\ s \ {x} \subseteq s /\ s \ {x} # s
    BY <1>3
  <2> QED BY <1>2, <1>3, <2>1 DEF StrictSubsetOrdering
<1> QED BY <1>2, <1>3

\* A nonempty finite set of natural numbers has a greatest element.
LEMMA Greatest ==
    ASSUME NEW D \in SUBSET Nat, IsFiniteSet(D), D # {}
    PROVE  \E m \in D : \A x \in D : x <= m
<1> DEFINE HasTop(s) == \E m \in s : \A x \in s : x <= m
           B == {s \in SUBSET D : s # {} /\ ~HasTop(s)}
<1>1. SUFFICES ASSUME B # {} PROVE FALSE
  OBVIOUS
<1>2. PICK s \in B : \A x \in s : s \ {x} \notin B
  BY <1>1, MinimalSet
<1>3. s \in SUBSET D /\ s # {} /\ ~HasTop(s)
  OBVIOUS
<1>4. PICK c \in s : TRUE
  BY <1>3
<1>5. s \ {c} = {} \/ HasTop(s \ {c})
  BY <1>2
<1>6. CASE s \ {c} = {}
  BY <1>3, <1>4, <1>6
<1>7. CASE HasTop(s \ {c})
  <2>1. PICK m \in s \ {c} : \A x \in s \ {c} : x <= m
    BY <1>7
  <2>2. m \in Nat /\ c \in Nat /\ \A x \in s : x \in Nat
    BY <1>3, <1>4, <2>1
  <2>3. CASE c <= m
    BY <1>3, <2>1, <2>3
  <2>4. CASE m < c
    BY <1>3, <1>4, <2>1, <2>2, <2>4
  <2>5. QED
    BY <2>2, <2>3, <2>4
<1>8. QED
  BY <1>5, <1>6, <1>7

\* The positions up to n, one less when the greatest is taken out.
LEMMA TopOf ==
    ASSUME NEW n \in Nat, n # 0
    PROVE  Top(1..n) = n /\ (1..n) \ {n} = 1..(n - 1) /\ n - 1 \in Nat /\ 1..n # {}
<1>1. Top(1..n) \in 1..n /\ \A y \in 1..n : Top(1..n) >= y
  <2>1. \E x \in 1..n : \A y \in 1..n : x >= y
    OBVIOUS
  <2> QED BY <2>1, Zenon DEF Top
<1> QED BY <1>1
\* The fold exists on any finite set of positions.
LEMMA KeepExists ==
    ASSUME NEW list, NEW id, DOMAIN list \subseteq Nat, IsFiniteSet(DOMAIN list)
    PROVE  \A s \in SUBSET (DOMAIN list) :
              Keep(list, id)[s] = StepKeep(list, id, Keep(list, id), s)
<1>0. PICK D : D = DOMAIN list
  OBVIOUS
<1> DEFINE Level(n) == {s \in SUBSET D : Cardinality(s) <= n}
           Good(n) == \E g : g = [s \in Level(n) |-> StepKeep(list, id, g, s)]
           Bad == {n \in Nat : ~Good(n)}
<1>1. ASSUME NEW s \in SUBSET D
      PROVE  /\ IsFiniteSet(s) /\ Cardinality(s) \in Nat
             /\ Cardinality(s) <= Cardinality(D)
  BY <1>0, FS_Subset, FS_CardinalityType
<1>2. Good(0)
  <2>1. ASSUME NEW s \in Level(0) PROVE s = {}
    BY <1>1, FS_EmptySet
  <2> DEFINE g == [s \in Level(0) |-> <<>>]
  <2>2. g = [s \in Level(0) |-> StepKeep(list, id, g, s)]
    BY <2>1 DEF StepKeep
  <2> QED BY <2>2
<1>3. ASSUME NEW n \in Nat, Good(n) PROVE Good(n + 1)
  <2>1. PICK g : g = [s \in Level(n) |-> StepKeep(list, id, g, s)]
    BY <1>3
  <2> DEFINE h == [s \in Level(n + 1) |-> StepKeep(list, id, g, s)]
  <2>2. ASSUME NEW s \in Level(n + 1), s # {}
        PROVE  s \ {Top(s)} \in Level(n)
    <3>1. Top(s) \in s
      <4>1. \E x \in s : \A y \in s : y <= x
        BY <2>2, <1>0, <1>1, Greatest
      <4>2. \E x \in s : \A y \in s : x >= y
        BY <4>1
      <4> QED BY <4>2, Zenon DEF Top
    <3>2. Cardinality(s \ {Top(s)}) = Cardinality(s) - 1
      BY <1>1, <3>1, FS_RemoveElement
    <3>3. s \in SUBSET D /\ Cardinality(s) <= n + 1 /\ Cardinality(s) \in Nat
      BY <1>1
    <3>4. s \ {Top(s)} \in SUBSET D
      BY <3>3
    <3>5. Cardinality(s \ {Top(s)}) \in Nat /\ Cardinality(s \ {Top(s)}) <= n
      BY <1>1, <3>2, <3>3, <3>4
    <3> QED BY <3>4, <3>5
  <2>3. ASSUME NEW s \in Level(n) PROVE s \in Level(n + 1) /\ h[s] = g[s]
    <3>1. s \in Level(n + 1)
      BY <1>1
    <3>2. h[s] = StepKeep(list, id, g, s) /\ g[s] = StepKeep(list, id, g, s)
      BY <2>1, <3>1, Zenon
    <3> QED BY <3>1, <3>2
  <2>4. ASSUME NEW s \in Level(n + 1)
        PROVE  StepKeep(list, id, g, s) = StepKeep(list, id, h, s)
    BY <2>2, <2>3, Zenon DEF StepKeep
  <2>5. h = [s \in Level(n + 1) |-> StepKeep(list, id, h, s)]
    BY <2>4, Zenon
  <2> QED BY <2>5
<1>4. Bad = {}
  <2> SUFFICES ASSUME Bad # {} PROVE FALSE
    OBVIOUS
  <2> HIDE DEF Good
  <2>1. PICK n \in Bad : \A m \in Bad : n <= m
    BY Least
  <2>2. n \in Nat /\ n # 0 /\ n - 1 \in Nat /\ n - 1 \notin Bad
    BY <1>2, <2>1
  <2>3. Good(n - 1)
    BY <2>2
  <2>4. Good((n - 1) + 1)
    BY <1>3, <2>2, <2>3
  <2> QED BY <2>2, <2>4
<1>5. Cardinality(D) \in Nat /\ Level(Cardinality(D)) = SUBSET D
  BY <1>1
<1>6. \E g : g = [s \in SUBSET D |-> StepKeep(list, id, g, s)]
  <2>1. Good(Cardinality(D))
    BY <1>4, <1>5
  <2> HIDE DEF Level
  <2> QED BY <2>1, <1>5
<1>7. Keep(list, id) = [s \in SUBSET D |-> StepKeep(list, id, Keep(list, id), s)]
  BY <1>0, <1>6, Zenon DEF Keep
<1>8. ASSUME NEW s \in SUBSET D
      PROVE  \A g : g = [t \in SUBSET D |-> StepKeep(list, id, Keep(list, id), t)]
                      => g[s] = StepKeep(list, id, Keep(list, id), s)
  OBVIOUS
<1> QED BY <1>0, <1>7, <1>8, Zenon

\* Deleting by id keeps messages of the list only.
LEMMA WithoutIdType ==
    ASSUME NEW S, NEW list \in Seq(S), NEW id
    PROVE  WithoutId(list, id) \in Seq(S)
<1> DEFINE g == Keep(list, id)
           B == {n \in 0..Len(list) : g[1..n] \notin Seq(S)}
<1>1. DOMAIN list = 1..Len(list) /\ Len(list) \in Nat /\ IsFiniteSet(1..Len(list))
      /\ 1..Len(list) \subseteq Nat
  BY FS_Interval
<1>2. \A s \in SUBSET (DOMAIN list) : g[s] = StepKeep(list, id, g, s)
  BY <1>1, KeepExists, Zenon
<1>3. ASSUME NEW n \in 0..Len(list) PROVE g[1..n] = StepKeep(list, id, g, 1..n)
  BY <1>1, <1>2
<1> HIDE DEF g
<1>4. B = {}
  <2> SUFFICES ASSUME B # {} PROVE FALSE
    OBVIOUS
  <2>1. PICK n \in B : \A m \in B : n <= m
    <3>1. B \in SUBSET Nat
      BY <1>1
    <3> HIDE DEF B
    <3> QED BY <3>1, Least
  <2>2. n \in 0..Len(list) /\ g[1..n] \notin Seq(S)
    BY <2>1
  <2>3. CASE n = 0
    <3>1. 1..n = {}
      BY <2>3
    <3>2. g[1..n] = <<>>
      BY <1>3, <2>2, <3>1, Zenon DEF StepKeep
    <3> QED BY <2>2, <3>2
  <2>4. CASE n # 0
    <3>1. /\ Top(1..n) = n /\ (1..n) \ {n} = 1..(n - 1) /\ n - 1 \in Nat
          /\ 1..n # {}
      BY <1>1, <2>2, <2>4, TopOf
    <3>2. n - 1 \in 0..Len(list) /\ ~(n <= n - 1)
      BY <1>1, <2>2, <3>1
    <3>3. g[1..(n - 1)] \in Seq(S)
      BY <2>1, <3>2
    <3>4. g[1..n] = IF list[n].id = id THEN g[1..(n - 1)]
                    ELSE Append(g[1..(n - 1)], list[n])
      BY <1>3, <2>2, <3>1, Zenon DEF StepKeep
    <3>5. list[n] \in S
      BY <1>1, <2>2, <2>4
    <3> QED BY <2>2, <3>3, <3>4, <3>5
  <2> QED BY <2>3, <2>4
<1>5. g[1..Len(list)] \in Seq(S)
  BY <1>1, <1>4
<1> QED BY <1>1, <1>5, KeepFolds DEF g

-----------------------------------------------------------------------------
(* What the other helpers return                                           *)

LEMMA IndexOfType ==
    ASSUME NEW S, NEW list \in Seq(S), NEW m
    PROVE  IndexOf(list, m) \in 0..Len(list)
<1> DEFINE same == {i \in DOMAIN list : list[i] = m}
           sameId == {i \in DOMAIN list : list[i].id = m.id}
<1>1. same # {} => (CHOOSE i \in same : TRUE) \in same
  OBVIOUS
<1>2. ASSUME sameId # {}
      PROVE  (CHOOSE i \in sameId : \A j \in sameId : i <= j) \in sameId
  <2>1. sameId \in SUBSET Nat
    OBVIOUS
  <2> HIDE DEF sameId
  <2>2. \E i \in sameId : \A j \in sameId : i <= j
    BY <1>2, <2>1, Least
  <2> QED BY <2>2, Zenon
<1>3. IndexOf(list, m) \in same \/ IndexOf(list, m) \in sameId \/ IndexOf(list, m) = 0
  <2> HIDE DEF same, sameId
  <2>1. IndexOf(list, m) = CASE same # {} -> CHOOSE i \in same : TRUE
          [] same = {} /\ sameId # {} -> CHOOSE i \in sameId : \A j \in sameId : i <= j
          [] OTHER -> 0
    BY Zenon DEF IndexOf, same, sameId
  <2>2. CASE same # {}
    BY <1>1, <2>1, <2>2, Zenon
  <2>3. CASE same = {} /\ sameId # {}
    BY <1>2, <2>1, <2>3, Zenon
  <2>4. CASE same = {} /\ sameId = {}
    BY <2>1, <2>4, Zenon
  <2> QED BY <2>2, <2>3, <2>4
<1> QED BY <1>3

\* A cut is a list of the same messages.
LEMMA CutType ==
    ASSUME NEW S, NEW list \in Seq(S), NEW a \in 1..(Len(list) + 2), NEW b \in 0..Len(list)
    PROVE  SubSeq(list, a, b) \in Seq(S)
<1>1. \A i \in a..b : list[i] \in S
  OBVIOUS
<1> QED BY <1>1, SubSeqProperties

LEMMA AfterDeleteType ==
    ASSUME NEW S, NEW list \in Seq(S), NEW m
    PROVE  AfterDelete(list, m) \in Seq(S)
<1> DEFINE i == IndexOf(list, m)
           pair == i # 0 /\ m.role = "user" /\ i < Len(list)
                   /\ list[i + 1].role = "assistant"
<1>1. i \in 0..Len(list) /\ Len(list) \in Nat
  BY IndexOfType
<1>2. WithoutId(list, m.id) \in Seq(S)
  BY WithoutIdType
<1>3. AfterDelete(list, m) = CASE i = 0 -> list
          [] pair -> SubSeq(list, 1, i - 1) \o SubSeq(list, i + 2, Len(list))
          [] OTHER -> WithoutId(list, m.id)
  BY Zenon DEF AfterDelete
<1> HIDE DEF i
<1>4. CASE i = 0
  BY <1>3, <1>4, Zenon
<1>5. CASE i # 0 /\ ~pair
  BY <1>2, <1>3, <1>5, Zenon
<1>6. CASE pair
  <2>1. i - 1 \in 0..Len(list) /\ i + 2 \in 1..(Len(list) + 2) /\ Len(list) \in 0..Len(list)
        /\ 1 \in 1..(Len(list) + 2)
    BY <1>1, <1>6
  <2>2. SubSeq(list, 1, i - 1) \in Seq(S) /\ SubSeq(list, i + 2, Len(list)) \in Seq(S)
    BY <2>1, CutType
  <2>3. AfterDelete(list, m) = SubSeq(list, 1, i - 1) \o SubSeq(list, i + 2, Len(list))
    BY <1>3, <1>6, Zenon
  <2> QED BY <2>2, <2>3, ConcatProperties
<1> QED BY <1>4, <1>5, <1>6

LEMMA BeforeQuestionType ==
    ASSUME NEW S, NEW list \in Seq(S), NEW i \in Nat, i <= Len(list)
    PROVE  BeforeQuestion(list, i) \in Seq(S)
<1> DEFINE questions == {j \in 1..i : list[j].role = "user"}
           latest == CHOOSE j \in questions : \A k \in questions : k <= j
<1>1. CASE questions = {}
  BY <1>1 DEF BeforeQuestion
<1>2. CASE questions # {}
  <2>1. questions \in SUBSET Nat /\ questions \subseteq 1..i /\ IsFiniteSet(1..i)
    <3>1. IsFiniteSet(1..i)
      BY FS_Interval
    <3>2. questions \subseteq 1..i
      OBVIOUS
    <3> HIDE DEF questions
    <3>3. questions \in SUBSET Nat
      BY <3>2
    <3> QED BY <3>1, <3>2, <3>3
  <2> HIDE DEF questions
  <2>2. \E j \in questions : \A k \in questions : k <= j
    <3>1. IsFiniteSet(questions)
      BY <2>1, FS_Subset
    <3> QED BY <1>2, <2>1, <3>1, Greatest
  <2>3. latest \in questions
    BY <2>2, Zenon
  <2> HIDE DEF latest
  <2>4. latest - 1 \in 0..Len(list) /\ 1 \in 1..(Len(list) + 2)
    <3>1. latest \in 1..i /\ Len(list) \in Nat
      BY <2>1, <2>3
    <3> QED BY <3>1
  <2>5. BeforeQuestion(list, i) = SubSeq(list, 1, latest - 1)
    BY <1>2, Zenon DEF BeforeQuestion, questions, latest
  <2>6. SubSeq(list, 1, latest - 1) \in Seq(S)
    BY <2>4, CutType
  <2> QED BY <2>5, <2>6, Zenon
<1> QED BY <1>1, <1>2

\* Replacing the latest message.
LEMMA LastReplaced ==
    ASSUME NEW S, NEW list \in Seq(S), list # <<>>, NEW x \in S
    PROVE  /\ Append(Front(list), x) \in Seq(S)
           /\ Len(Append(Front(list), x)) = Len(list)
           /\ Append(Front(list), x) # <<>>
           /\ Last(Append(Front(list), x)) = x
           /\ \A i \in 1..Len(list) :
                Append(Front(list), x)[i] = IF i = Len(list) THEN x ELSE list[i]
           /\ Last(list) = list[Len(list)] /\ Len(list) \in 1..Len(list)
           /\ Last(list) \in S
<1>1. Len(list) \in Nat /\ Len(list) # 0
  BY EmptySeq
<1>2. /\ Front(list) \in Seq(S) /\ Len(Front(list)) = Len(list) - 1
      /\ \A i \in 1..(Len(list) - 1) : Front(list)[i] = list[i]
  <2>1. \A i \in 1..(Len(list) - 1) : list[i] \in S
    BY <1>1
  <2>2. PICK n \in Nat : n = Len(list) - 1
    BY <1>1
  <2>3. /\ SubSeq(list, 1, n) \in Seq(S)
        /\ Len(SubSeq(list, 1, n)) = IF 1 <= n THEN n - 1 + 1 ELSE 0
        /\ \A i \in 1..(n - 1 + 1) : SubSeq(list, 1, n)[i] = list[1 + i - 1]
    BY <2>1, <2>2, SubSeqProperties
  <2>4. Len(SubSeq(list, 1, n)) = n /\ \A i \in 1..n : SubSeq(list, 1, n)[i] = list[i]
    BY <2>2, <2>3
  <2>5. Front(list) = SubSeq(list, 1, n)
    BY <2>2, Zenon DEF Front
  <2> QED BY <2>2, <2>3, <2>4, <2>5
<1>3. PICK front \in Seq(S) : front = Front(list)
  BY <1>2
<1>4. /\ Append(front, x) \in Seq(S)
      /\ Append(front, x) # <<>>
      /\ Len(Append(front, x)) = Len(list)
      /\ \A i \in 1..(Len(list) - 1) : Append(front, x)[i] = list[i]
      /\ Append(front, x)[Len(list)] = x
  BY <1>1, <1>2, <1>3, AppendProperties
<1>5. PICK new \in Seq(S) : new = Append(front, x)
  BY <1>4
<1>6. /\ Len(new) = Len(list) /\ new # <<>> /\ Last(new) = x
      /\ \A i \in 1..Len(list) : new[i] = IF i = Len(list) THEN x ELSE list[i]
  BY <1>1, <1>4, <1>5 DEF Last
<1>7. Last(list) = list[Len(list)] /\ Len(list) \in 1..Len(list) /\ Last(list) \in S
  BY <1>1 DEF Last
<1>8. Append(Front(list), x) = new
  BY <1>3, <1>5, Zenon
<1> QED BY <1>6, <1>7, <1>8

-----------------------------------------------------------------------------
(* What a callback does to a list                                          *)

\* It touches messages that are not settled, keeps what they are, and starts
\* generating none.
Touched(list, new) ==
    /\ Len(new) = Len(list)
    /\ \A i \in 1..Len(list) :
         /\ new[i].req = list[i].req /\ new[i].role = list[i].role
         /\ new[i].id = list[i].id
         /\ list[i].status \in Settled => new[i] = list[i]
         /\ new[i].status \in Generating => list[i].status \in Generating

\* A last message that is being generated belongs to none of the requests
\* before any of R.
Newest(list, R) ==
    list # <<>> /\ Last(list).status \in Generating =>
        \A r \in R : r <= Last(list).req

LEMMA TouchedAgain ==
    ASSUME NEW S, NEW a \in Seq(S), NEW b \in Seq(S), NEW c \in Seq(S)
    PROVE  /\ Touched(a, a)
           /\ Touched(a, b) /\ Touched(b, c) => Touched(a, c)
BY DEF Touched

LEMMA TouchedNewest ==
    ASSUME NEW S, NEW list \in Seq(S), NEW new \in Seq(S), NEW R,
           Touched(list, new), Newest(list, R)
    PROVE  Newest(new, R)
<1> SUFFICES ASSUME new # <<>>, Last(new).status \in Generating
             PROVE  \A r \in R : r <= Last(new).req
  BY DEF Newest
<1>1. Len(new) \in 1..Len(new) /\ Len(new) = Len(list) /\ list # <<>>
  BY EmptySeq DEF Touched
<1>2. Last(list).status \in Generating /\ Last(new).req = Last(list).req
  BY <1>1 DEF Touched, Last
<1> QED BY <1>1, <1>2 DEF Newest

\* Replacing the last message so is such a touch.
LEMMA LastTouched ==
    ASSUME NEW S, NEW list \in Seq(S), list # <<>>, NEW x \in S,
           x.req = Last(list).req, x.role = Last(list).role, x.id = Last(list).id,
           Last(list).status \notin Settled,
           x.status \in Generating => Last(list).status \in Generating
    PROVE  Touched(list, Append(Front(list), x))
<1>0. /\ Append(Front(list), x) \in Seq(S)
      /\ Len(Append(Front(list), x)) = Len(list)
      /\ \A i \in 1..Len(list) :
           Append(Front(list), x)[i] = IF i = Len(list) THEN x ELSE list[i]
      /\ Last(list) = list[Len(list)]
  BY LastReplaced
<1>1. PICK new \in Seq(S) : new = Append(Front(list), x)
  BY <1>0
<1>2. /\ Len(new) = Len(list) /\ Last(list) = list[Len(list)]
      /\ \A i \in 1..Len(list) : new[i] = IF i = Len(list) THEN x ELSE list[i]
  BY <1>0, <1>1, Zenon
<1>3. ASSUME NEW i \in 1..Len(list)
      PROVE  /\ new[i].req = list[i].req /\ new[i].role = list[i].role
             /\ new[i].id = list[i].id
             /\ list[i].status \in Settled => new[i] = list[i]
             /\ new[i].status \in Generating => list[i].status \in Generating
  <2>1. CASE i = Len(list)
    <3>1. new[i] = x /\ list[i] = Last(list)
      BY <1>2, <2>1
    <3> QED BY <3>1
  <2>2. CASE i # Len(list)
    <3>1. new[i] = list[i]
      BY <1>2, <2>2
    <3> QED BY <3>1
  <2> QED BY <2>1, <2>2
<1>4. Touched(list, new)
  BY <1>2, <1>3, Zenon DEF Touched
<1> QED BY <1>1, <1>4

LEMMA StreamUpdateFits ==
    ASSUME NEW p \in BOOLEAN, NEW list \in Seq(Fit(p)), NEW r \in Requests,
           p \/ Newest(list, {r})
    PROVE  /\ StreamUpdate(list, r) \in Seq(Fit(p))
           /\ Touched(list, StreamUpdate(list, r))
<1>1. CASE ~(list # <<>> /\ Last(list).role = "assistant" /\ IsGenerating(Last(list)))
  <2>1. StreamUpdate(list, r) = list
    BY <1>1, Zenon DEF StreamUpdate
  <2> QED BY <2>1, TouchedAgain
<1>2. CASE list # <<>> /\ Last(list).role = "assistant" /\ IsGenerating(Last(list))
  <2> DEFINE x == [Last(list) EXCEPT !.status = "incomplete", !.from = @ \cup {r}]
  <2>1. Last(list) \in Fit(p)
    BY <1>2, EmptySeq DEF Last
  <2>2. p \/ r <= Last(list).req
    BY <1>2 DEF Newest, IsGenerating
  <2>3. x \in Fit(p) /\ x.req = Last(list).req /\ x.role = Last(list).role
        /\ x.id = Last(list).id /\ x.status = "incomplete"
    BY <1>2, <2>1, <2>2 DEF Fit, Message, Generating, Settled
  <2>4. Last(list).status \notin Settled /\ Last(list).status \in Generating
    BY <1>2 DEF IsGenerating, Generating, Settled
  <2>5. StreamUpdate(list, r) = Append(Front(list), x)
    BY <1>2, Zenon DEF StreamUpdate
  <2> HIDE DEF x
  <2>6. Append(Front(list), x) \in Seq(Fit(p))
    BY <1>2, <2>3, LastReplaced
  <2>7. Touched(list, Append(Front(list), x))
    BY <1>2, <2>3, <2>4, LastTouched
  <2> QED BY <2>5, <2>6, <2>7
<1> QED BY <1>1, <1>2

LEMMA CompleteLastFits ==
    ASSUME NEW p \in BOOLEAN, NEW list \in Seq(Fit(p)), list # <<>>,
           NEW status \in Settled
    PROVE  /\ CompleteLast(list, status) \in Seq(Fit(p))
           /\ Touched(list, CompleteLast(list, status))
           /\ CompleteLast(list, status) # <<>>
           /\ Last(CompleteLast(list, status)).status \in Settled
<1>1. CASE Last(list).status \in Settled
  <2>1. CompleteLast(list, status) = list
    BY <1>1, Zenon DEF CompleteLast
  <2> QED BY <1>1, <2>1, TouchedAgain
<1>2. CASE Last(list).status \notin Settled
  <2> DEFINE x == [Last(list) EXCEPT !.status = status]
  <2>1. Last(list) \in Fit(p)
    BY EmptySeq DEF Last
  <2>2. x \in Fit(p) /\ x.req = Last(list).req /\ x.role = Last(list).role
        /\ x.id = Last(list).id /\ x.status = status /\ status \notin Generating
    BY <2>1 DEF Fit, Message, Generating, Settled
  <2>3. CompleteLast(list, status) = Append(Front(list), x)
    BY <1>2, Zenon DEF CompleteLast
  <2> HIDE DEF x
  <2>4. /\ Append(Front(list), x) \in Seq(Fit(p)) /\ Append(Front(list), x) # <<>>
        /\ Last(Append(Front(list), x)) = x
    BY <2>2, LastReplaced
  <2>5. Touched(list, Append(Front(list), x))
    BY <1>2, <2>2, LastTouched
  <2> QED BY <2>2, <2>3, <2>4, <2>5
<1> QED BY <1>1, <1>2

LEMMA SettleLastFits ==
    ASSUME NEW p \in BOOLEAN, NEW list \in Seq(Fit(p))
    PROVE  /\ SettleLast(list) \in Seq(Fit(p))
           /\ Touched(list, SettleLast(list))
           /\ \A R : Newest(SettleLast(list), R)
           /\ SettleLast(list) = list => \A R : Newest(list, R)
<1>1. CASE ~(list # <<>> /\ IsGenerating(Last(list)))
  <2>1. SettleLast(list) = list
    BY <1>1, Zenon DEF SettleLast
  <2> QED BY <1>1, <2>1, TouchedAgain DEF Newest, IsGenerating
<1>2. CASE list # <<>> /\ IsGenerating(Last(list))
  <2> DEFINE x == [Last(list) EXCEPT !.status = "complete"]
  <2>1. Last(list) \in Fit(p)
    BY <1>2, EmptySeq DEF Last
  <2>2. x \in Fit(p) /\ x.req = Last(list).req /\ x.role = Last(list).role
        /\ x.id = Last(list).id /\ x.status \notin Generating
    BY <2>1 DEF Fit, Message, Generating, Settled
  <2>3. SettleLast(list) = Append(Front(list), x)
    BY <1>2, Zenon DEF SettleLast
  <2>4. Last(list).status \notin Settled /\ Last(list).status \in Generating
    BY <1>2 DEF IsGenerating, Generating, Settled
  <2> HIDE DEF x
  <2>5. /\ Append(Front(list), x) \in Seq(Fit(p)) /\ Append(Front(list), x) # <<>>
        /\ Last(Append(Front(list), x)) = x
    BY <1>2, <2>2, LastReplaced
  <2>6. Touched(list, Append(Front(list), x))
    BY <1>2, <2>2, <2>4, LastTouched
  <2>7. \A R : Newest(SettleLast(list), R)
    BY <2>2, <2>3, <2>5 DEF Newest
  <2> QED BY <2>3, <2>5, <2>6, <2>7
<1> QED BY <1>1, <1>2

LEMMA PlainUpdateFits ==
    ASSUME NEW p \in BOOLEAN, NEW list \in Seq(Fit(p)), NEW status \in Settled,
           NEW r \in Requests, NEW from \in {{}, {r}}, p \/ Newest(list, {r})
    PROVE  /\ PlainUpdate(list, status, from) \in Seq(Fit(p))
           /\ Touched(list, PlainUpdate(list, status, from))
<1>1. CASE ~(list # <<>> /\ Last(list).status = "loading")
  <2>1. PlainUpdate(list, status, from) = list
    BY <1>1, Zenon DEF PlainUpdate
  <2> QED BY <2>1, TouchedAgain
<1>2. CASE list # <<>> /\ Last(list).status = "loading"
  <2> DEFINE x == [Last(list) EXCEPT !.status = status, !.from = from]
  <2>1. Last(list) \in Fit(p)
    BY <1>2, EmptySeq DEF Last
  <2>2. p \/ r <= Last(list).req
    BY <1>2 DEF Newest, Generating
  <2>3. x \in Fit(p) /\ x.req = Last(list).req /\ x.role = Last(list).role
        /\ x.id = Last(list).id /\ x.status \notin Generating
    BY <2>1, <2>2 DEF Fit, Message, Generating, Settled
  <2>4. PlainUpdate(list, status, from) = Append(Front(list), x)
    BY <1>2, Zenon DEF PlainUpdate
  <2>5. Last(list).status \notin Settled
    BY <1>2 DEF Settled
  <2> HIDE DEF x
  <2>6. Append(Front(list), x) \in Seq(Fit(p))
    BY <1>2, <2>3, LastReplaced
  <2>7. Touched(list, Append(Front(list), x))
    BY <1>2, <2>3, <2>5, LastTouched
  <2> QED BY <2>4, <2>6, <2>7
<1> QED BY <1>1, <1>2

-----------------------------------------------------------------------------
(* The invariant                                                           *)

Timer(p) == [kind : {"save", "default"}, list : Seq(Fit(p))]
Dialog(p) == [kind : {"none", "delete", "edit", "import"}, list : Seq(Fit(p)), at : Nat]

Controls ==
    /\ fresh \in BOOLEAN /\ detached \in BOOLEAN /\ putBack \in BOOLEAN
    /\ nextId \in Nat
    /\ request \in [Requests -> RequestStates]
    /\ sseRef \in 0..MaxRequests
    /\ delayed \in Seq({"resend", "regenerate"})
    /\ editing \in Seq(Message) /\ Len(editing) <= 1
    /\ page \in {"up", "crashed"}
    /\ operations \in 0..MaxActs

\* The stop button's reference is to a request that was sent, and requests
\* are sent in the order of their numbers.
StopRef == sseRef \in {0} \cup Sent
InOrder == \A q \in Sent : \A k \in 1..q : k \in Sent

\* The lists the page holds.
Display == messages \in Seq(Fit(putBack))
Storage == stored = NoStore \/ stored \in Seq(Fit(putBack))
Saves == timers \in Seq(Timer(putBack))
Question ==
    /\ dialog \in Dialog(putBack)
    /\ dialog.kind = "delete" => dialog.list # <<>>
    /\ dialog.kind = "edit" => /\ dialog.at \in 1..Len(dialog.list)
                               /\ dialog.list[dialog.at].role = "user"
    /\ dialog.kind = "import" => dialog.list = ImportedMessages

\* An answer that is still written to is not older than any request.
Latest == putBack \/ Newest(messages, Sent)

\* The timers save the list on display last, or it is saved.
Restored == IF stored = NoStore THEN DefaultMessages ELSE stored
Saved ==
    ~detached /\ page = "up" /\ delayed = <<>> =>
        IF timers # <<>>
        THEN Last(timers).kind = "save" /\ Shown(messages) = Shown(Last(timers).list)
        ELSE Shown(messages) = Shown(Restored)

ChatInv ==
    Controls /\ StopRef /\ InOrder /\ Display /\ Storage /\ Saves /\ Question /\ Latest /\ Saved

-----------------------------------------------------------------------------
(* Lemmas about the parts of the invariant                                 *)

LEMMA FitGrows ==
    ASSUME NEW p \in BOOLEAN, NEW q \in BOOLEAN, p => q
    PROVE  /\ \A l \in Seq(Fit(p)) : l \in Seq(Fit(q)) /\ l \in Seq(Message)
           /\ \A l \in Seq(Timer(p)) : l \in Seq(Timer(q))
           /\ \A d \in Dialog(p) : d \in Dialog(q)
<1>1. Fit(p) \subseteq Fit(q) /\ Fit(p) \subseteq Message
  BY DEF Fit
<1>2. \A l \in Seq(Fit(p)) : l \in Seq(Fit(q)) /\ l \in Seq(Message)
  BY <1>1
<1>3. Timer(p) \subseteq Timer(q)
  BY <1>2 DEF Timer
<1>4. \A d \in Dialog(p) : d \in Dialog(q)
  BY <1>2 DEF Dialog
<1> QED BY <1>2, <1>3, <1>4

LEMMA MsgFits ==
    ASSUME NEW p \in BOOLEAN, NEW req \in {Imported} \cup 0..MaxRequests, NEW id \in Nat,
           NEW role \in {"user", "assistant", "system"},
           NEW status \in {"none"} \cup Generating \cup Settled,
           role = "user" => status \notin Generating
    PROVE  /\ Msg(req, id, role, status) \in Fit(p)
           /\ Msg(req, id, role, status).req = req
           /\ Msg(req, id, role, status).role = role
           /\ Msg(req, id, role, status).status = status
BY DEF Msg, Fit, Message

\* The default and the imported messages.
LEMMA StandardFits ==
    ASSUME NEW p \in BOOLEAN
    PROVE  /\ DefaultMessages \in Seq(Fit(p)) /\ ImportedMessages \in Seq(Fit(p))
           /\ \A R : Newest(DefaultMessages, R) /\ Newest(ImportedMessages, R)
<1>1. /\ 0 \in {Imported} \cup 0..MaxRequests /\ Imported \in {Imported} \cup 0..MaxRequests
      /\ "none" \in {"none"} \cup Generating \cup Settled /\ "none" \notin Generating
      /\ "complete" \in {"none"} \cup Generating \cup Settled /\ "complete" \notin Generating
  BY PlaygroundAssumption DEF Generating, Settled
<1>2. /\ Msg(0, 2, "user", "none") \in Fit(p)
      /\ Msg(0, 3, "assistant", "none") \in Fit(p)
      /\ Msg(0, 3, "assistant", "none").status = "none"
      /\ Msg(Imported, 2, "user", "none") \in Fit(p)
      /\ Msg(Imported, 3, "assistant", "complete") \in Fit(p)
      /\ Msg(Imported, 3, "assistant", "complete").status = "complete"
  BY <1>1, MsgFits
<1>3. DefaultMessages \in Seq(Fit(p)) /\ ImportedMessages \in Seq(Fit(p))
  BY <1>2 DEF DefaultMessages, ImportedMessages
<1>4. /\ Last(DefaultMessages) = Msg(0, 3, "assistant", "none")
      /\ Last(ImportedMessages) = Msg(Imported, 3, "assistant", "complete")
  BY DEF DefaultMessages, ImportedMessages, Last
<1> QED BY <1>1, <1>2, <1>3, <1>4 DEF Newest

LEMMA TouchedShown ==
    ASSUME NEW S, NEW list \in Seq(S), NEW new \in Seq(S), Touched(list, new)
    PROVE  Shown(new) = Shown(list)
<1>1. DOMAIN new = 1..Len(list) /\ DOMAIN list = 1..Len(list)
  BY DEF Touched
<1>2. \A i \in 1..Len(list) : <<new[i].req, new[i].role, new[i].id>>
                              = <<list[i].req, list[i].role, list[i].id>>
  BY DEF Touched
<1> QED BY <1>1, <1>2, Zenon DEF Shown

\* One more list to save, or one less.
LEMMA SaveAdded ==
    ASSUME NEW p \in BOOLEAN, NEW ts \in Seq(Timer(p)), NEW list \in Seq(Fit(p))
    PROVE  /\ Append(ts, SaveTimer(list)) \in Seq(Timer(p))
           /\ ts \o <<SaveTimer(list)>> = Append(ts, SaveTimer(list))
           /\ Append(ts, SaveTimer(list)) # <<>>
           /\ Last(Append(ts, SaveTimer(list))).kind = "save"
           /\ Last(Append(ts, SaveTimer(list))).list = list
<1>1. SaveTimer(list) \in Timer(p)
  BY DEF SaveTimer, Timer
<1>2. PICK t \in Timer(p) : t = SaveTimer(list)
  BY <1>1
<1>3. /\ Append(ts, t) \in Seq(Timer(p)) /\ Append(ts, t) # <<>>
      /\ Len(Append(ts, t)) = Len(ts) + 1 /\ Append(ts, t)[Len(ts) + 1] = t
  BY AppendProperties
<1>4. ts \o <<t>> = Append(ts, t)
  BY AppendIsConcat
<1>5. t.kind = "save" /\ t.list = list
  BY <1>2 DEF SaveTimer
<1>6. Last(Append(ts, t)) = t
  BY <1>3 DEF Last
<1> QED BY <1>2, <1>3, <1>4, <1>5, <1>6

\* What an operation that shows a list and saves it leaves behind.
LEMMA ShowAndSaveStep ==
    ASSUME Controls, Saves, putBack' \in BOOLEAN, putBack => putBack',
           NEW list \in Seq(Fit(putBack')), ShowAndSave(list)
    PROVE  Display' /\ Saves' /\ Saved' /\ messages' = list /\ detached' \in BOOLEAN
<1>1. timers \in Seq(Timer(putBack'))
  BY FitGrows DEF Controls, Saves
<1>2. messages' = list /\ timers' = Append(timers, SaveTimer(list)) /\ detached' = FALSE
  BY DEF ShowAndSave
<1>3. /\ timers' \in Seq(Timer(putBack')) /\ timers' # <<>>
      /\ Last(timers').kind = "save" /\ Last(timers').list = list
  BY <1>1, <1>2, SaveAdded
<1> QED BY <1>2, <1>3, Zenon DEF Display, Saves, Saved

\* The storage agrees with a list that has only been touched.
LEMMA TouchedSaved ==
    ASSUME Saved, Display, Display', Touched(messages, messages'),
           UNCHANGED <<stored, timers, delayed, detached, page, putBack>>
    PROVE  Saved'
<1>1. Shown(messages') = Shown(messages)
  BY TouchedShown, Zenon DEF Display
<1>2. Restored' = Restored
  BY DEF Restored
<1> QED BY <1>1, <1>2, Zenon DEF Saved

\* An ended request was sent, as before.
LEMMA SentStays ==
    ASSUME Controls, NEW r \in Requests, request[r] # "unsent",
           NEW how \in {"closed", "silent"}, request' = [request EXCEPT ![r] = how]
    PROVE  /\ Sent' = Sent
           /\ request' \in [Requests -> RequestStates]
<1>1. request \in [Requests -> RequestStates]
  BY DEF Controls
<1>2. \A q \in Requests : request'[q] # "unsent" <=> request[q] # "unsent"
  BY <1>1
<1>3. {q \in Requests : request'[q] # "unsent"} = {q \in Requests : request[q] # "unsent"}
  BY <1>2, Zenon
<1> QED BY <1>1, <1>3 DEF Sent

\* completeMessage, after the text of the event.
LEMMA FinishStep ==
    ASSUME Controls, Display, Saves, Saved, NEW list \in Seq(Fit(putBack)),
           Touched(messages, list), NEW status \in Settled, page = "up",
           Finish(list, status), UNCHANGED <<stored, delayed, putBack>>
    PROVE  /\ Display' /\ Saves' /\ Saved' /\ Touched(messages, messages')
           /\ detached' \in BOOLEAN /\ page' \in {"up", "crashed"}
<1>0. /\ messages \in Seq(Fit(putBack)) /\ timers \in Seq(Timer(putBack))
      /\ putBack \in BOOLEAN /\ detached \in BOOLEAN /\ putBack' = putBack
  BY DEF Display, Saves, Controls
<1>1. CASE list = <<>>
  <2>1. page' = "crashed" /\ UNCHANGED <<messages, timers, detached>>
    BY <1>1, Zenon DEF Finish
  <2> QED BY <1>0, <2>1, TouchedAgain DEF Display, Saves, Saved
<1>2. CASE list # <<>>
  <2> DEFINE new == CompleteLast(list, status)
  <2>1. new \in Seq(Fit(putBack)) /\ Touched(list, new)
    BY <1>0, <1>2, CompleteLastFits
  <2>2. /\ messages' = new /\ page' = page
        /\ IF Last(list).status \in Settled
           THEN UNCHANGED <<timers, detached>>
           ELSE timers' = Append(timers, SaveTimer(new)) /\ detached' = FALSE
    BY <1>2, Zenon DEF Finish
  <2> HIDE DEF new
  <2>3. Touched(messages, messages') /\ Display'
    BY <1>0, <2>1, <2>2, TouchedAgain DEF Display
  <2>4. CASE Last(list).status \in Settled
    <3>1. UNCHANGED <<timers, detached>>
      BY <2>2, <2>4
    <3>2. Saved'
      BY <1>0, <2>2, <2>3, <3>1, TouchedSaved
    <3>3. Saves'
      BY <1>0, <3>1 DEF Saves
    <3> QED BY <1>0, <2>2, <2>3, <3>1, <3>2, <3>3
  <2>5. CASE Last(list).status \notin Settled
    <3>1. timers' = Append(timers, SaveTimer(new)) /\ detached' = FALSE
      BY <2>2, <2>5
    <3>2. ShowAndSave(new)
      BY <2>2, <3>1 DEF ShowAndSave
    <3>3. Saves' /\ Saved'
      BY <1>0, <2>1, <3>2, ShowAndSaveStep
    <3> QED BY <2>2, <2>3, <3>1, <3>3
  <2> QED BY <2>4, <2>5
<1> QED BY <1>1, <1>2

\* The parts of the invariant that a callback leaves alone.
LEMMA CallbackKeeps ==
    ASSUME ChatInv, Sent' = Sent,
           request' \in [Requests -> RequestStates],
           sseRef' \in {0, sseRef}, page' \in {"up", "crashed"}, detached' \in BOOLEAN,
           UNCHANGED <<stored, fresh, nextId, delayed, editing, dialog, operations, putBack>>,
           Display', Saves', Saved', Touched(messages, messages')
    PROVE  ChatInv'
<1>1. Controls'
  BY PlaygroundAssumption DEF ChatInv, Controls
<1>2. InOrder' /\ StopRef'
  BY DEF ChatInv, InOrder, StopRef
<1>3. Storage' /\ Question'
  BY DEF ChatInv, Storage, Question
<1>4. Latest'
  <2>1. messages \in Seq(Fit(putBack)) /\ messages' \in Seq(Fit(putBack)) /\ putBack' = putBack
    BY DEF ChatInv, Display
  <2>2. putBack \/ Newest(messages, Sent)
    BY DEF ChatInv, Latest
  <2>3. putBack \/ Newest(messages', Sent)
    BY <2>1, <2>2, TouchedNewest
  <2> QED BY <2>1, <2>3 DEF Latest
<1> QED BY <1>1, <1>2, <1>3, <1>4 DEF ChatInv

LEMMA NetworkStep ==
    ASSUME ChatInv, Network
    PROVE  ChatInv' /\ Touched(messages, messages')
<1>0. /\ Controls /\ Display /\ Saves /\ Saved /\ putBack \in BOOLEAN /\ detached \in BOOLEAN
      /\ sseRef \in 0..MaxRequests /\ 0 \in 0..MaxRequests
      /\ messages \in Seq(Fit(putBack)) /\ timers \in Seq(Timer(putBack))
      /\ request \in [Requests -> RequestStates]
  BY PlaygroundAssumption DEF ChatInv, Controls, Display, Saves
<1>1. PICK r \in Requests : \/ StreamText(r) \/ StreamDone(r) \/ StreamGarbled(r)
                            \/ StreamError(r) \/ StreamHttpError(r) \/ PlainResponse(r)
                            \/ Silence(r)
  BY DEF Network
<1>2. request[r] \in {"stream", "plain"} => r \in Sent
  BY <1>0 DEF Sent
<1>3. r \in Sent => putBack \/ Newest(messages, {r})
  BY DEF ChatInv, Latest, Newest
<1>4. r \in Sent => /\ StreamUpdate(messages, r) \in Seq(Fit(putBack))
                    /\ Touched(messages, StreamUpdate(messages, r))
  BY <1>0, <1>3, StreamUpdateFits
<1>5. Touched(messages, messages)
  BY <1>0, TouchedAgain
<1>6. "complete" \in Settled /\ "error" \in Settled
  BY DEF Settled
<1>7. CASE StreamText(r)
  <2>1. /\ r \in Sent /\ messages' = StreamUpdate(messages, r)
        /\ UNCHANGED <<stored, fresh, nextId, request, sseRef, timers, delayed, editing,
                       dialog, page, operations, detached, putBack>>
    BY <1>2, <1>7 DEF StreamText, StreamOpen
  <2>2. Display' /\ Touched(messages, messages') /\ Saves'
    BY <1>0, <1>4, <2>1 DEF Display, Saves
  <2>3. Saved'
    BY <1>0, <2>1, <2>2, TouchedSaved
  <2>4. Sent' = Sent /\ page' \in {"up", "crashed"}
    BY <1>0, <2>1 DEF Sent, Controls
  <2> QED BY <1>0, <2>1, <2>2, <2>3, <2>4, CallbackKeeps
<1>8. CASE StreamDone(r)
  <2>1. /\ page = "up" /\ request[r] = "stream"
        /\ request' = [request EXCEPT ![r] = "closed"] /\ sseRef' = 0
        /\ Finish(messages, "complete")
        /\ UNCHANGED <<stored, fresh, nextId, delayed, editing, dialog, operations, putBack>>
    BY <1>8 DEF StreamDone, StreamOpen
  <2>2. /\ Sent' = Sent
        /\ request' \in [Requests -> RequestStates]
    BY <1>0, <2>1, SentStays
  <2>3. /\ Display' /\ Saves' /\ Saved' /\ Touched(messages, messages')
        /\ detached' \in BOOLEAN /\ page' \in {"up", "crashed"}
    BY <1>0, <1>5, <1>6, <2>1, FinishStep
  <2> QED BY <1>0, <2>1, <2>2, <2>3, CallbackKeeps
<1>9. CASE StreamGarbled(r)
  <2>1. /\ page = "up" /\ r \in Sent
        /\ Finish(StreamUpdate(messages, r), "error")
        /\ UNCHANGED <<stored, fresh, nextId, request, sseRef, delayed, editing, dialog,
                       operations, putBack>>
    BY <1>2, <1>9 DEF StreamGarbled, StreamOpen
  <2>2. /\ Display' /\ Saves' /\ Saved' /\ Touched(messages, messages')
        /\ detached' \in BOOLEAN /\ page' \in {"up", "crashed"}
    BY <1>0, <1>4, <1>6, <2>1, FinishStep
  <2>3. Sent' = Sent
    BY <2>1 DEF Sent
  <2> QED BY <1>0, <2>1, <2>2, <2>3, CallbackKeeps
<1>10. CASE StreamError(r) \/ StreamHttpError(r)
  <2>1. /\ page = "up" /\ r \in Sent /\ request[r] = "stream"
        /\ request' = [request EXCEPT ![r] = "closed"] /\ sseRef' \in {0, sseRef}
        /\ Finish(StreamUpdate(messages, r), "error")
        /\ UNCHANGED <<stored, fresh, nextId, delayed, editing, dialog, operations, putBack>>
    BY <1>2, <1>10 DEF StreamError, StreamHttpError, StreamOpen
  <2>2. /\ Sent' = Sent
        /\ request' \in [Requests -> RequestStates]
    BY <1>0, <2>1, SentStays
  <2>3. /\ Display' /\ Saves' /\ Saved' /\ Touched(messages, messages')
        /\ detached' \in BOOLEAN /\ page' \in {"up", "crashed"}
    BY <1>0, <1>4, <1>6, <2>1, FinishStep
  <2> QED BY <1>0, <2>1, <2>2, <2>3, CallbackKeeps
<1>11. CASE PlainResponse(r)
  <2>1. /\ r \in Sent /\ request[r] = "plain"
        /\ \/ messages' = PlainUpdate(messages, "complete", {r})
           \/ messages' = PlainUpdate(messages, "error", {})
        /\ request' = [request EXCEPT ![r] = "closed"]
        /\ UNCHANGED <<stored, fresh, nextId, sseRef, timers, delayed, editing, dialog,
                       page, operations, detached, putBack>>
    BY <1>2, <1>11 DEF PlainResponse
  <2>2. messages' \in Seq(Fit(putBack)) /\ Touched(messages, messages')
    <3>1. {} \in {{}, {r}} /\ {r} \in {{}, {r}}
      OBVIOUS
    <3>2. /\ PlainUpdate(messages, "complete", {r}) \in Seq(Fit(putBack))
          /\ Touched(messages, PlainUpdate(messages, "complete", {r}))
      BY <1>0, <1>3, <1>6, <2>1, <3>1, PlainUpdateFits
    <3>3. /\ PlainUpdate(messages, "error", {}) \in Seq(Fit(putBack))
          /\ Touched(messages, PlainUpdate(messages, "error", {}))
      BY <1>0, <1>3, <1>6, <2>1, <3>1, PlainUpdateFits
    <3> QED BY <2>1, <3>2, <3>3
  <2>3. Display' /\ Saves'
    BY <1>0, <2>1, <2>2 DEF Display, Saves
  <2>4. Saved'
    BY <1>0, <2>1, <2>2, <2>3, TouchedSaved
  <2>5. /\ Sent' = Sent /\ page' \in {"up", "crashed"}
        /\ request' \in [Requests -> RequestStates]
    BY <1>0, <2>1, SentStays DEF Controls
  <2> QED BY <1>0, <2>1, <2>2, <2>3, <2>4, <2>5, CallbackKeeps
<1>12. CASE Silence(r)
  <2>1. /\ page = "up" /\ request[r] \in {"stream", "plain"}
        /\ request' = [request EXCEPT ![r] = IF LastAwaits(r) THEN "silent" ELSE "closed"]
        /\ UNCHANGED <<messages, stored, fresh, nextId, sseRef, timers, delayed, editing,
                       dialog, page, operations, detached, putBack>>
    BY <1>12 DEF Silence, Open
  <2>2. PICK how \in {"closed", "silent"} : request' = [request EXCEPT ![r] = how]
    BY <2>1
  <2>3. Display' /\ Touched(messages, messages') /\ Saves'
    BY <1>0, <1>5, <2>1 DEF Display, Saves
  <2>4. Saved'
    BY <1>0, <2>1, <2>3, TouchedSaved
  <2>5. Sent' = Sent /\ request' \in [Requests -> RequestStates]
    BY <1>0, <2>1, <2>2, SentStays
  <2>6. page' \in {"up", "crashed"}
    BY <2>1
  <2> QED BY <1>0, <2>1, <2>3, <2>4, <2>5, <2>6, CallbackKeeps
<1> QED BY <1>1, <1>7, <1>8, <1>9, <1>10, <1>11, <1>12

-----------------------------------------------------------------------------
(* Sending                                                                 *)

\* The number of operations stays in its bounds.
LEMMA ActsType == ASSUME Controls PROVE Acts \in Int /\ operations <= Acts
<1>1. IsFiniteSet(Requests) /\ Sent \subseteq Requests
  BY PlaygroundAssumption, FS_Interval DEF Requests, Sent
<1>2. Cardinality(Sent) \in Nat
  BY <1>1, FS_Subset, FS_CardinalityType
<1> QED BY <1>2 DEF Acts, Controls

LEMMA OperateStep ==
    ASSUME Controls, Acts < MaxActs, operations' = operations + 1
    PROVE  operations' \in 0..MaxActs
<1>1. Acts \in Int /\ operations <= Acts /\ operations \in 0..MaxActs /\ MaxActs \in Nat
  BY ActsType, PlaygroundAssumption DEF Controls
<1> QED BY <1>1

\* The request that is sent next comes after all others.
LEMMA NextRequestStep ==
    ASSUME Controls, InOrder, NEW r \in Requests, NextRequest(r),
           NEW how \in {"stream", "plain", "closed"},
           request' = [request EXCEPT ![r] = how]
    PROVE  /\ request' \in [Requests -> RequestStates]
           /\ Sent' = Sent \cup {r}
           /\ \A q \in Sent' : q <= r
           /\ InOrder'
<1>1. request \in [Requests -> RequestStates]
  BY DEF Controls
<1>2. \A q \in Requests : request'[q] # "unsent" <=> request[q] # "unsent" \/ q = r
  BY <1>1
<1>3. Sent' = Sent \cup {r}
  BY <1>1, <1>2 DEF Sent
<1>4. r \notin Sent /\ \A q \in 1..(r - 1) : q \in Sent
  BY DEF NextRequest
<1>5. ASSUME NEW q \in Sent' PROVE q <= r
  <2>1. q \in 1..MaxRequests /\ r \in 1..MaxRequests
    BY <1>3 DEF Sent, Requests
  <2>2. SUFFICES ASSUME r < q PROVE FALSE
    BY <2>1, PlaygroundAssumption
  <2>3. q \in Sent /\ r \in 1..q
    BY <1>3, <2>1, <2>2, PlaygroundAssumption
  <2> QED BY <1>4, <2>3 DEF InOrder
<1>6. InOrder'
  <2> SUFFICES ASSUME NEW q \in Sent', NEW k \in 1..q PROVE k \in Sent'
    BY DEF InOrder
  <2>1. CASE q \in Sent
    BY <1>3, <2>1 DEF InOrder
  <2>2. CASE q = r
    <3>1. k = r \/ k \in 1..(r - 1)
      BY <2>2, PlaygroundAssumption DEF Requests
    <3> QED BY <1>3, <1>4, <3>1
  <2> QED BY <1>3, <2>1, <2>2
<1> QED BY <1>1, <1>3, <1>5, <1>6

\* A list that ends with the loading answer of the newest request is shown,
\* or the same list with the error of its start.
LEMMA DispatchStep ==
    ASSUME Controls, StopRef, InOrder, Saves, NEW r \in Requests, NEW mode, NextRequest(r),
           NEW list \in Seq(Fit(putBack)), list # <<>>, Last(list).req = r,
           Last(list).status = "loading",
           NEW saved, saved \in {<<>>, <<SaveTimer(list)>>},
           Dispatch(r, mode, list, saved),
           detached' = (saved = <<>> /\ mode # "failing"),
           putBack' = putBack
    PROVE  /\ request' \in [Requests -> RequestStates]
           /\ sseRef' \in 0..MaxRequests
           /\ StopRef' /\ InOrder' /\ Display' /\ Saves' /\ Saved' /\ Latest'
<1>0. /\ putBack \in BOOLEAN /\ timers \in Seq(Timer(putBack)) /\ sseRef \in 0..MaxRequests
      /\ r \in 0..MaxRequests /\ 0 \in 0..MaxRequests
  BY PlaygroundAssumption DEF Controls, Saves, Requests
<1> DEFINE update == StreamUpdate(list, r)
           failed == CompleteLast(update, "error")
<1>1. Newest(list, {r})
  BY <1>0 DEF Newest
<1>2. update \in Seq(Fit(putBack)) /\ Touched(list, update)
  BY <1>0, <1>1, StreamUpdateFits
<1> HIDE DEF update
<1>3. update # <<>>
  BY <1>2, EmptySeq DEF Touched
<1>4. "error" \in Settled
  BY DEF Settled
<1>5. /\ failed \in Seq(Fit(putBack))
      /\ Last(failed).status \in Settled
  BY <1>0, <1>2, <1>3, <1>4, CompleteLastFits
<1>6. PICK ts \in Seq(Timer(putBack)) :
        /\ ts = timers \o saved
        /\ saved # <<>> => ts # <<>> /\ Last(ts).kind = "save" /\ Last(ts).list = list
  <2>1. CASE saved = <<>>
    <3>1. timers \o saved = timers
      BY <1>0, <2>1, ConcatEmptySeq
    <3> QED BY <1>0, <2>1, <3>1
  <2>2. CASE saved = <<SaveTimer(list)>>
    <3>1. timers \o saved = Append(timers, SaveTimer(list))
      BY <1>0, <2>2, SaveAdded, Zenon
    <3>2. PICK ts : ts = Append(timers, SaveTimer(list))
      OBVIOUS
    <3>3. /\ ts \in Seq(Timer(putBack)) /\ ts # <<>>
          /\ Last(ts).kind = "save" /\ Last(ts).list = list
      BY <1>0, <3>2, SaveAdded, Zenon
    <3> QED BY <3>1, <3>2, <3>3
  <2> QED BY <2>1, <2>2
<1>7. \/ /\ mode \in {"stream", "plain"} /\ request' = [request EXCEPT ![r] = mode]
         /\ sseRef' \in {r, sseRef} /\ messages' = list /\ timers' = ts
      \/ /\ mode = "failing" /\ request' = [request EXCEPT ![r] = "closed"]
         /\ sseRef' = 0 /\ messages' = failed
         /\ timers' = ts \o <<SaveTimer(failed)>>
  BY <1>6, Zenon DEF Dispatch, failed, update
<1> HIDE DEF failed
<1>8. CASE mode \in {"stream", "plain"}
  <2>1. /\ request' = [request EXCEPT ![r] = mode]
        /\ sseRef' \in {r, sseRef} /\ messages' = list /\ timers' = ts
    BY <1>7, <1>8
  <2>2. /\ request' \in [Requests -> RequestStates]
        /\ Sent' = Sent \cup {r} /\ \A q \in Sent' : q <= r
        /\ InOrder'
    BY <1>8, <2>1, NextRequestStep
  <2>3. Display' /\ Saves'
    BY <1>6, <2>1 DEF Display, Saves
  <2>4. Latest'
    BY <2>1, <2>2 DEF Latest, Newest
  <2>5. Saved'
    <3>1. detached' = (saved = <<>>)
      BY <1>8
    <3> QED BY <1>6, <2>1, <3>1 DEF Saved
  <2>6. StopRef'
    BY <2>1, <2>2 DEF StopRef
  <2> QED BY <1>0, <2>1, <2>2, <2>3, <2>4, <2>5, <2>6
<1>9. CASE mode = "failing"
  <2>1. /\ request' = [request EXCEPT ![r] = "closed"]
        /\ sseRef' = 0 /\ messages' = failed
        /\ timers' = ts \o <<SaveTimer(failed)>>
    BY <1>7, <1>9
  <2>2. /\ request' \in [Requests -> RequestStates]
        /\ InOrder'
    BY <2>1, NextRequestStep
  <2>3. /\ timers' \in Seq(Timer(putBack)) /\ timers' # <<>>
        /\ Last(timers').kind = "save" /\ Last(timers').list = failed
    <3>1. timers' = Append(ts, SaveTimer(failed))
      BY <1>0, <1>5, <2>1, SaveAdded, Zenon
    <3> QED BY <1>0, <1>5, <3>1, SaveAdded
  <2>4. Display' /\ Saves' /\ Saved'
    BY <1>5, <2>1, <2>3, Zenon DEF Display, Saves, Saved
  <2>5. Latest'
    BY <1>5, <2>1 DEF Latest, Newest, Settled, Generating
  <2>6. StopRef'
    BY <2>1 DEF StopRef
  <2> QED BY <1>0, <2>1, <2>2, <2>4, <2>5, <2>6
<1> QED BY <1>7, <1>8, <1>9

\* The answer of a request that is sent.
LEMMA AnswerFits ==
    ASSUME NEW p \in BOOLEAN, NEW r \in Requests, NEW id \in Nat
    PROVE  /\ Msg(r, id, "assistant", "loading") \in Fit(p)
           /\ Msg(r, id, "assistant", "loading").req = r
           /\ Msg(r, id, "assistant", "loading").status = "loading"
BY PlaygroundAssumption DEF Msg, Fit, Message, Requests, Generating, Settled

\* Messages at the end of a list.
LEMMA OneMore ==
    ASSUME NEW S, NEW s \in Seq(S), NEW y \in S
    PROVE  Append(s, y) \in Seq(S) /\ Append(s, y) # <<>> /\ Last(Append(s, y)) = y
<1>1. PICK l \in Seq(S) : l = Append(s, y)
  BY AppendProperties
<1>2. l # <<>> /\ Len(l) = Len(s) + 1 /\ l[Len(s) + 1] = y
  BY <1>1, AppendProperties
<1>3. Last(l) = y
  BY <1>2 DEF Last
<1> QED BY <1>1, <1>2, <1>3

LEMMA TwoMore ==
    ASSUME NEW S, NEW s \in Seq(S), NEW x \in S, NEW y \in S
    PROVE  /\ s \o <<x, y>> \in Seq(S) /\ s \o <<x, y>> # <<>>
           /\ Last(s \o <<x, y>>) = y
<1>1. s \o <<x, y>> = Append(Append(s, x), y) /\ Append(s, x) \in Seq(S)
  OBVIOUS
<1> QED BY <1>1, OneMore

LEMMA SendMessageStep ==
    ASSUME ChatInv, NEW r \in Requests, NEW mode, SendMessage(r, mode),
           delayed' \in Seq({"resend", "regenerate"}),
           UNCHANGED <<stored, fresh, editing, dialog, page, operations, putBack>>
    PROVE  ChatInv'
<1> DEFINE question == Msg(r, nextId + 2, "user", "none")
           answer == Msg(r, nextId + 1, "assistant", "loading")
           list == messages \o <<question, answer>>
<1>0. /\ Controls /\ StopRef /\ InOrder /\ Saves /\ putBack \in BOOLEAN /\ nextId \in Nat
      /\ messages \in Seq(Fit(putBack)) /\ r \in {Imported} \cup 0..MaxRequests
  BY DEF ChatInv, Controls, Display, Requests
<1>1. /\ question \in Fit(putBack) /\ answer \in Fit(putBack)
      /\ answer.req = r /\ answer.status = "loading"
  <2>1. "none" \in {"none"} \cup Generating \cup Settled /\ "none" \notin Generating
        /\ "loading" \in {"none"} \cup Generating \cup Settled
    BY DEF Generating, Settled
  <2>2. nextId + 1 \in Nat /\ nextId + 2 \in Nat
    BY <1>0
  <2> QED BY <1>0, <2>1, <2>2, MsgFits
<1>2. Dispatch(r, mode, list, <<SaveTimer(list)>>)
  BY Zenon DEF SendMessage
<1>9. NextRequest(r) /\ nextId' = nextId + 3 /\ detached' = FALSE
  BY Zenon DEF SendMessage
<1> HIDE DEF question, answer
<1>3. list \in Seq(Fit(putBack)) /\ list # <<>> /\ Last(list) = answer
  BY <1>0, <1>1, TwoMore
<1> HIDE DEF list
<1>4. <<SaveTimer(list)>> \in {<<>>, <<SaveTimer(list)>>} /\ <<SaveTimer(list)>> # <<>>
  OBVIOUS
<1>5. detached' = (<<SaveTimer(list)>> = <<>> /\ mode # "failing")
  BY <1>4, <1>9
<1>6. /\ request' \in [Requests -> RequestStates]
      /\ sseRef' \in 0..MaxRequests
      /\ StopRef' /\ InOrder' /\ Display' /\ Saves' /\ Saved' /\ Latest'
  BY <1>0, <1>1, <1>2, <1>3, <1>4, <1>5, <1>9, DispatchStep
<1>7. Controls'
  <2>1. nextId' \in Nat
    BY <1>0, <1>9
  <2>2. detached' \in BOOLEAN
    BY <1>9, Zenon
  <2> QED BY <1>0, <1>6, <2>1, <2>2 DEF Controls
<1>8. Storage' /\ Question'
  BY DEF ChatInv, Storage, Question
<1> QED BY <1>6, <1>7, <1>8 DEF ChatInv

LEMMA RegenerateStep ==
    ASSUME ChatInv, NEW r \in Requests, NEW mode, Regenerate(r, mode),
           delayed' \in Seq({"resend", "regenerate"}),
           UNCHANGED <<stored, fresh, editing, dialog, page, operations, putBack>>
    PROVE  ChatInv'
<1> DEFINE answer == Msg(r, nextId, "assistant", "loading")
           list == Append(messages, answer)
<1>0. /\ Controls /\ StopRef /\ InOrder /\ Saves /\ putBack \in BOOLEAN /\ nextId \in Nat
      /\ messages \in Seq(Fit(putBack)) /\ r \in {Imported} \cup 0..MaxRequests
  BY DEF ChatInv, Controls, Display, Requests
<1>1. answer \in Fit(putBack) /\ answer.req = r /\ answer.status = "loading"
  BY <1>0, AnswerFits
<1>2. Dispatch(r, mode, list, <<>>)
  BY Zenon DEF Regenerate
<1>9. NextRequest(r) /\ nextId' = nextId + 1 /\ detached' = (mode # "failing")
  BY Zenon DEF Regenerate
<1> HIDE DEF answer
<1>3. list \in Seq(Fit(putBack)) /\ list # <<>> /\ Last(list) = answer
  BY <1>0, <1>1, OneMore
<1> HIDE DEF list
<1>4. <<>> \in {<<>>, <<SaveTimer(list)>>} /\ detached' = (<<>> = <<>> /\ mode # "failing")
  BY <1>9
<1>5. /\ request' \in [Requests -> RequestStates]
      /\ sseRef' \in 0..MaxRequests
      /\ StopRef' /\ InOrder' /\ Display' /\ Saves' /\ Saved' /\ Latest'
  BY <1>0, <1>1, <1>2, <1>3, <1>4, <1>9, DispatchStep
<1>6. Controls'
  <2>1. nextId' \in Nat
    BY <1>0, <1>9
  <2>2. detached' \in BOOLEAN
    BY <1>9, Zenon
  <2> QED BY <1>0, <1>5, <2>1, <2>2 DEF Controls
<1>7. Storage' /\ Question'
  BY DEF ChatInv, Storage, Question
<1> QED BY <1>5, <1>6, <1>7 DEF ChatInv

LEMMA SendStep ==
    ASSUME ChatInv, NEW r \in Requests, NEW mode, Send(r, mode) \/ RunDelayed(r, mode)
    PROVE  ChatInv'
<1>0. delayed \in Seq({"resend", "regenerate"})
  BY DEF ChatInv, Controls
<1>1. CASE Send(r, mode)
  BY <1>0, <1>1, SendMessageStep DEF Send
<1>2. CASE RunDelayed(r, mode)
  <2>1. /\ delayed # <<>> /\ delayed' = Tail(delayed)
        /\ SendMessage(r, mode) \/ Regenerate(r, mode)
        /\ UNCHANGED <<stored, fresh, editing, dialog, page, operations, putBack>>
    BY <1>2 DEF RunDelayed
  <2>2. delayed' \in Seq({"resend", "regenerate"})
    BY <1>0, <2>1
  <2> QED BY <2>1, <2>2, SendMessageStep, RegenerateStep
<1> QED BY <1>1, <1>2

-----------------------------------------------------------------------------
(* Operations on the list                                                  *)

\* The parts of the invariant about the requests and the controls.
LEMMA OperationKeeps ==
    ASSUME ChatInv, UNCHANGED <<nextId, request, sseRef>>,
           fresh' \in BOOLEAN, detached' \in BOOLEAN, putBack' \in BOOLEAN,
           delayed' \in Seq({"resend", "regenerate"}),
           editing' \in Seq(Message), Len(editing') <= 1,
           page' \in {"up", "crashed"}, operations' \in 0..MaxActs
    PROVE  Controls' /\ StopRef' /\ InOrder' /\ Sent' = Sent
<1>1. Controls'
  BY DEF ChatInv, Controls
<1>2. Sent' = Sent
  BY DEF Sent
<1>3. StopRef' /\ InOrder'
  BY <1>2 DEF ChatInv, StopRef, InOrder
<1> QED BY <1>1, <1>2, <1>3

\* What the invariant says of the variables, for the steps that follow.
LEMMA ChatParts ==
    ASSUME ChatInv
    PROVE  /\ Controls /\ StopRef /\ InOrder /\ Display /\ Storage /\ Saves /\ Question
           /\ Latest /\ Saved
           /\ fresh \in BOOLEAN /\ detached \in BOOLEAN /\ putBack \in BOOLEAN
           /\ delayed \in Seq({"resend", "regenerate"})
           /\ editing \in Seq(Message) /\ Len(editing) <= 1
           /\ page \in {"up", "crashed"} /\ operations \in 0..MaxActs
           /\ messages \in Seq(Fit(putBack))
           /\ timers \in Seq(Timer(putBack)) /\ dialog \in Dialog(putBack)
           /\ dialog.list \in Seq(Fit(putBack))
BY DEF ChatInv, Controls, Display, Saves, Question, Dialog

LEMMA SameSaved ==
    ASSUME Saved, UNCHANGED <<messages, stored, timers, delayed, detached, page>>
    PROVE  Saved'
BY DEF Saved, Restored

LEMMA SameQuestion == ASSUME Question, UNCHANGED <<dialog, putBack>> PROVE Question'
BY DEF Question

LEMMA SameStorage == ASSUME Storage, UNCHANGED <<stored, putBack>> PROVE Storage'
BY DEF Storage

\* No dialog, after one.
LEMMA DialogClosed == ASSUME putBack' \in BOOLEAN, dialog' = NoDialog PROVE Question'
<1>1. <<>> \in Seq(Fit(putBack'))
  BY EmptySeq
<1> QED BY <1>1 DEF Question, Dialog, NoDialog

\* Messages none of which is being generated.
Calm(p) == {m \in Fit(p) : m.status \notin Generating}

LEMMA CalmNewest ==
    ASSUME NEW p, NEW list \in Seq(Calm(p))
    PROVE  list \in Seq(Fit(p)) /\ \A R : Newest(list, R)
<1>1. list \in Seq(Fit(p))
  BY DEF Calm
<1>2. list # <<>> => Last(list) \in Calm(p)
  BY EmptySeq DEF Last
<1> QED BY <1>1, <1>2 DEF Newest, Calm

LEMMA EnabledCalm ==
    ASSUME NEW m, ActionsEnabled(m), NEW p, messages \in Seq(Fit(p))
    PROVE  messages \in Seq(Calm(p))
<1>1. \A i \in DOMAIN messages : messages[i].status \notin Generating
  BY DEF ActionsEnabled, AnyGenerating, IsGenerating
<1>2. DOMAIN messages = 1..Len(messages) /\ Len(messages) \in Nat
      /\ \A i \in 1..Len(messages) : messages[i] \in Fit(p)
  OBVIOUS
<1>3. \A i \in 1..Len(messages) : messages[i] \in Calm(p)
  BY <1>1, <1>2 DEF Calm
<1> QED BY <1>2, <1>3

LEMMA EditedFits ==
    ASSUME NEW p \in BOOLEAN, NEW list \in Seq(Fit(p)), NEW id
    PROVE  /\ Edited(list, id) \in Seq(Fit(p)) /\ Len(Edited(list, id)) = Len(list)
           /\ \A i \in 1..Len(list) : Edited(list, id)[i].role = list[i].role
           /\ \A R : Newest(list, R) => Newest(Edited(list, id), R)
<1> DEFINE One(m) == IF m.id = id THEN [m EXCEPT !.from = {}] ELSE m
<1>1. ASSUME NEW m \in Fit(p)
      PROVE  /\ One(m) \in Fit(p) /\ One(m).role = m.role /\ One(m).req = m.req
             /\ One(m).status = m.status
  BY DEF Fit, Message
<1>2. DOMAIN list = 1..Len(list) /\ Len(list) \in Nat
      /\ \A i \in 1..Len(list) : list[i] \in Fit(p)
  OBVIOUS
<1>3. Edited(list, id) = [i \in 1..Len(list) |-> One(list[i])]
  BY <1>2, Zenon DEF Edited
<1> HIDE DEF One
<1>4. PICK new \in Seq(Fit(p)) : new = [i \in 1..Len(list) |-> One(list[i])]
  <2>1. \A i \in 1..Len(list) : One(list[i]) \in Fit(p)
    BY <1>1, <1>2
  <2>2. [i \in 1..Len(list) |-> One(list[i])] \in Seq(Fit(p))
    BY <1>2, <2>1, IsASeq
  <2> QED BY <2>2
<1>5. Len(new) = Len(list) /\ \A i \in 1..Len(list) : new[i] = One(list[i])
  BY <1>2, <1>4
<1>6. \A i \in 1..Len(list) : new[i].role = list[i].role
  BY <1>1, <1>2, <1>5
<1>7. ASSUME NEW R, Newest(list, R) PROVE Newest(new, R)
  <2> SUFFICES ASSUME new # <<>>, Last(new).status \in Generating
               PROVE  \A r \in R : r <= Last(new).req
    BY DEF Newest
  <2>1. Len(list) \in 1..Len(list) /\ list # <<>>
    BY <1>2, <1>5, EmptySeq
  <2>2. Last(new) = One(Last(list)) /\ Last(list) \in Fit(p)
    BY <1>2, <1>5, <2>1 DEF Last
  <2>3. Last(new).status = Last(list).status /\ Last(new).req = Last(list).req
    BY <1>1, <2>2
  <2> QED BY <1>7, <2>1, <2>3 DEF Newest
<1>8. new = Edited(list, id)
  BY <1>3, <1>4
<1> QED BY <1>5, <1>6, <1>7, <1>8

LEMMA StopStep == ASSUME ChatInv, Stop PROVE ChatInv'
<1>0. PICK p \in BOOLEAN : p = putBack /\ messages \in Seq(Fit(p))
  BY ChatParts
<1>1. /\ request' = [r \in Requests |-> IF r = sseRef THEN "closed" ELSE request[r]]
      /\ sseRef' = 0 /\ ShowAndSave(SettleLast(messages))
      /\ UNCHANGED <<stored, fresh, nextId, delayed, editing, dialog, page, operations, putBack>>
  BY Zenon DEF Stop
<1>2. request \in [Requests -> RequestStates] /\ StopRef
  BY DEF ChatInv, Controls
<1>3. /\ request' \in [Requests -> RequestStates]
      /\ \A r \in Requests : request'[r] # "unsent" <=> request[r] # "unsent"
  <2>1. \A r \in Requests : r = sseRef => request[r] # "unsent"
    BY <1>2, PlaygroundAssumption DEF StopRef, Sent, Requests
  <2>2. \A r \in Requests : request'[r] = IF r = sseRef THEN "closed" ELSE request[r]
    BY <1>1
  <2>3. request' \in [Requests -> RequestStates]
    BY <1>1, <1>2
  <2> QED BY <2>1, <2>2, <2>3
<1>4. Sent' = Sent
  BY <1>3 DEF Sent
<1>5. SettleLast(messages) \in Seq(Fit(p)) /\ Newest(SettleLast(messages), Sent)
  BY <1>0, SettleLastFits
<1>6. SettleLast(messages) \in Seq(Fit(putBack'))
  BY <1>0, <1>1, <1>5, Zenon
<1>7. Display' /\ Saves' /\ Saved' /\ messages' = SettleLast(messages) /\ detached' \in BOOLEAN
  BY <1>0, <1>1, <1>6, ChatParts, ShowAndSaveStep
<1>8. Controls'
  BY <1>1, <1>3, <1>7, PlaygroundAssumption DEF ChatInv, Controls
<1>9. StopRef' /\ InOrder'
  BY <1>1, <1>4 DEF ChatInv, StopRef, InOrder
<1>10. Latest'
  BY <1>4, <1>5, <1>7 DEF Latest
<1>11. Storage' /\ Question'
  BY <1>1, ChatParts, SameStorage, SameQuestion
<1> QED BY <1>7, <1>8, <1>9, <1>10, <1>11 DEF ChatInv

\* Cutting the list before a question.
LEMMA RetryStep == ASSUME ChatInv, NEW i \in DOMAIN messages, Retry(i) PROVE ChatInv'
<1> DEFINE target == IndexOf(messages, messages[i])
           cut == BeforeQuestion(messages, target)
<1>0. /\ messages \in Seq(Fit(putBack)) /\ Controls /\ delayed \in Seq({"resend", "regenerate"})
      /\ Saved
  BY ChatParts
<1>1. /\ Acts < MaxActs /\ operations' = operations + 1 /\ ActionsEnabled(messages[i])
      /\ messages' = cut
      /\ delayed' = IF cut = messages THEN delayed ELSE Append(delayed, "resend")
      /\ UNCHANGED <<stored, fresh, nextId, request, sseRef, timers, editing, dialog,
                     page, detached, putBack>>
  BY Zenon DEF Retry, Operate
<1>2. messages \in Seq(Calm(putBack))
  BY <1>0, <1>1, EnabledCalm
<1>3. target \in Nat /\ target <= Len(messages)
  BY <1>0, IndexOfType
<1> HIDE DEF target
<1>4. cut \in Seq(Calm(putBack))
  BY <1>2, <1>3, BeforeQuestionType
<1>5. cut \in Seq(Fit(putBack)) /\ Newest(cut, Sent)
  BY <1>4, CalmNewest
<1> HIDE DEF cut
<1>6. operations' \in 0..MaxActs
  BY <1>0, <1>1, OperateStep
<1>7. /\ delayed' \in Seq({"resend", "regenerate"})
      /\ delayed' = <<>> => delayed = <<>> /\ messages' = messages
  <2>1. "resend" \in {"resend", "regenerate"}
    OBVIOUS
  <2>2. /\ Append(delayed, "resend") \in Seq({"resend", "regenerate"})
        /\ Append(delayed, "resend") # <<>>
    BY <1>0, <2>1, AppendProperties
  <2> QED BY <1>0, <1>1, <2>2
<1>8. Controls' /\ StopRef' /\ InOrder' /\ Sent' = Sent
  <2>1. /\ fresh' \in BOOLEAN /\ detached' \in BOOLEAN /\ putBack' \in BOOLEAN
        /\ editing' \in Seq(Message) /\ Len(editing') <= 1 /\ page' \in {"up", "crashed"}
    BY <1>1, ChatParts
  <2> QED BY <1>1, <1>6, <1>7, <2>1, OperationKeeps
<1>9. Display' /\ Latest'
  BY <1>1, <1>5, <1>8 DEF Display, Latest
<1>10. Storage' /\ Question' /\ Saves'
  BY <1>1, ChatParts, SameStorage, SameQuestion DEF Saves
<1>11. Saved'
  BY <1>0, <1>1, <1>7 DEF Saved, Restored
<1> QED BY <1>8, <1>9, <1>10, <1>11 DEF ChatInv

\* An operation that opens a dialog or begins an edit, or drops one.
LEMMA AskStep ==
    ASSUME ChatInv, UNCHANGED <<messages, stored, fresh, nextId, request, sseRef, timers,
                                delayed, page, detached, putBack>>,
           operations' \in 0..MaxActs, editing' \in Seq(Message), Len(editing') <= 1, Question'
    PROVE  ChatInv'
<1>1. Controls' /\ StopRef' /\ InOrder' /\ Sent' = Sent
  <2>1. /\ fresh' \in BOOLEAN /\ detached' \in BOOLEAN /\ putBack' \in BOOLEAN
        /\ delayed' \in Seq({"resend", "regenerate"}) /\ page' \in {"up", "crashed"}
    BY ChatParts
  <2> QED BY <2>1, OperationKeeps
<1>2. Display' /\ Saves' /\ Latest'
  BY <1>1, ChatParts DEF Display, Saves, Latest
<1>3. Storage' /\ Saved'
  BY ChatParts, SameStorage, SameSaved
<1> QED BY <1>1, <1>2, <1>3 DEF ChatInv

LEMMA AskDeleteStep == ASSUME ChatInv, NEW i \in DOMAIN messages, AskDelete(i) PROVE ChatInv'
<1>0. messages \in Seq(Fit(putBack)) /\ Controls /\ putBack' = putBack
  BY ChatParts DEF AskDelete
<1>1. operations' \in 0..MaxActs
  BY <1>0, OperateStep DEF AskDelete, Operate
<1>2. Question'
  <2>1. PICK list \in Seq(Fit(putBack)) : list = <<messages[i]>> /\ list # <<>>
    <3>1. messages[i] \in Fit(putBack)
      BY <1>0
    <3>2. <<messages[i]>> \in Seq(Fit(putBack)) /\ <<messages[i]>> # <<>>
      BY <3>1
    <3> QED BY <3>2
  <2>2. dialog' = [kind |-> "delete", list |-> list, at |-> i] /\ i \in Nat
    BY <1>0, <2>1 DEF AskDelete
  <2> QED BY <1>0, <2>1, <2>2 DEF Question, Dialog
<1> QED BY <1>1, <1>2, ChatParts, AskStep DEF AskDelete

LEMMA StartEditStep == ASSUME ChatInv, NEW i \in DOMAIN messages, StartEdit(i) PROVE ChatInv'
<1>0. messages \in Seq(Fit(putBack)) /\ Controls /\ putBack \in BOOLEAN
  BY ChatParts
<1>1. operations' \in 0..MaxActs
  BY <1>0, OperateStep DEF StartEdit, Operate
<1>2. messages[i] \in Message
  BY <1>0 DEF Fit
<1>3. editing' \in Seq(Message) /\ Len(editing') <= 1
  BY <1>2 DEF StartEdit
<1>4. Question'
  BY ChatParts, SameQuestion DEF StartEdit
<1> QED BY <1>1, <1>3, <1>4, AskStep DEF StartEdit

LEMMA CancelStep ==
    ASSUME ChatInv, CancelEdit \/ DismissDialog
    PROVE  ChatInv'
<1>0. operations' \in 0..MaxActs /\ putBack' \in BOOLEAN
  BY ChatParts DEF CancelEdit, DismissDialog
<1>1. CASE CancelEdit
  <2>1. editing' \in Seq(Message) /\ Len(editing') <= 1
    BY <1>1 DEF CancelEdit
  <2>2. Question'
    BY <1>1, ChatParts, SameQuestion DEF CancelEdit
  <2> QED BY <1>0, <1>1, <2>1, <2>2, AskStep DEF CancelEdit
<1>2. CASE DismissDialog
  <2>1. editing' \in Seq(Message) /\ Len(editing') <= 1
    BY <1>2, ChatParts DEF DismissDialog
  <2>2. Question'
    BY <1>0, <1>2, DialogClosed DEF DismissDialog
  <2> QED BY <1>0, <1>2, <2>1, <2>2, AskStep DEF DismissDialog
<1> QED BY <1>1, <1>2

\* An operation that shows a list and saves it.
LEMMA ShowAndSaveKeeps ==
    ASSUME ChatInv, putBack' \in BOOLEAN, putBack => putBack',
           NEW list \in Seq(Fit(putBack')), ShowAndSave(list), putBack' \/ Newest(list, Sent),
           UNCHANGED <<stored, fresh, nextId, request, sseRef, page>>,
           delayed' \in Seq({"resend", "regenerate"}), operations' \in 0..MaxActs,
           editing' \in Seq(Message), Len(editing') <= 1, Question'
    PROVE  ChatInv'
<1>1. Display' /\ Saves' /\ Saved' /\ messages' = list /\ detached' \in BOOLEAN
  BY ChatParts, ShowAndSaveStep
<1>2. Controls' /\ StopRef' /\ InOrder' /\ Sent' = Sent
  <2>1. fresh' \in BOOLEAN /\ page' \in {"up", "crashed"}
    BY ChatParts
  <2> QED BY <1>1, <2>1, OperationKeeps
<1>3. Latest'
  BY <1>1, <1>2 DEF Latest
<1>4. Storage'
  BY ChatParts, FitGrows DEF Storage
<1> QED BY <1>1, <1>2, <1>3, <1>4 DEF ChatInv

LEMMA ConfirmDeleteStep == ASSUME ChatInv, ConfirmDelete PROVE ChatInv'
<1> DEFINE m == dialog.list[1]
           rest == AfterDelete(messages, m)
<1>0. PICK p \in BOOLEAN : p = putBack /\ messages \in Seq(Fit(p))
  BY ChatParts
<1>1. /\ dialog' = NoDialog
      /\ IF IndexOf(messages, m) = 0
         THEN UNCHANGED <<messages, timers, detached, putBack>>
         ELSE /\ ShowAndSave(rest)
              /\ putBack' = (putBack \/ (SettleLast(rest) # rest
                                         /\ Last(rest) # Last(messages)))
      /\ UNCHANGED <<stored, fresh, nextId, request, sseRef, delayed, editing, page,
                     operations>>
  BY Zenon DEF ConfirmDelete
<1> HIDE DEF m
<1>2. /\ editing' \in Seq(Message) /\ Len(editing') <= 1 /\ operations' \in 0..MaxActs
      /\ delayed' \in Seq({"resend", "regenerate"})
  BY <1>1, ChatParts
<1>3. CASE IndexOf(messages, m) = 0
  <2>1. UNCHANGED <<messages, timers, detached, putBack>>
    BY <1>1, <1>3
  <2>2. Question'
    BY <1>0, <1>1, <2>1, DialogClosed
  <2> QED BY <1>1, <1>2, <2>1, <2>2, AskStep
<1>4. CASE IndexOf(messages, m) # 0
  <2>1. /\ ShowAndSave(rest)
        /\ putBack' = (putBack \/ (SettleLast(rest) # rest /\ Last(rest) # Last(messages)))
    BY <1>1, <1>4
  <2>2. rest \in Seq(Fit(p))
    BY <1>0, AfterDeleteType
  <2>3. messages # <<>>
    BY <1>0, <1>4, IndexOfType, EmptySeq
  <2> HIDE DEF rest
  <2>4. PICK q \in BOOLEAN : q = putBack' /\ (putBack => q)
    BY <1>0, <2>1, Zenon
  <2>5. rest \in Seq(Fit(q))
    BY <1>0, <2>2, <2>4, FitGrows
  <2>6. q \/ Newest(rest, Sent)
    <3>1. CASE SettleLast(rest) = rest
      BY <2>2, <3>1, SettleLastFits
    <3>2. CASE Last(rest) = Last(messages)
      <4>1. putBack \/ Newest(messages, Sent)
        BY ChatParts DEF Latest
      <4> QED BY <2>3, <2>4, <3>2, <4>1 DEF Newest
    <3>3. CASE SettleLast(rest) # rest /\ Last(rest) # Last(messages)
      BY <2>1, <2>4, <3>3
    <3> QED BY <3>1, <3>2, <3>3
  <2>7. /\ rest \in Seq(Fit(putBack')) /\ putBack' \in BOOLEAN /\ (putBack => putBack')
        /\ putBack' \/ Newest(rest, Sent)
    BY <2>4, <2>5, <2>6, Zenon
  <2>8. Question'
    BY <1>1, <2>7, DialogClosed
  <2> QED BY <1>1, <1>2, <2>1, <2>7, <2>8, ShowAndSaveKeeps
<1> QED BY <1>3, <1>4

LEMMA ToggleStep == ASSUME ChatInv, NEW i \in DOMAIN messages, ToggleRole(i) PROVE ChatInv'
<1> DEFINE m == messages[i]
           other == IF m.role = "assistant" THEN "system" ELSE "assistant"
           One(x) == IF x.id = m.id /\ x.role # "user" THEN [x EXCEPT !.role = other] ELSE x
           list == [j \in DOMAIN messages |->
                      IF messages[j].id = m.id /\ messages[j].role # "user"
                      THEN [messages[j] EXCEPT !.role = other] ELSE messages[j]]
<1>0. messages \in Seq(Fit(putBack)) /\ Controls /\ putBack \in BOOLEAN
  BY ChatParts
<1>1. /\ Acts < MaxActs /\ operations' = operations + 1 /\ ActionsEnabled(m)
      /\ ShowAndSave(list)
      /\ UNCHANGED <<stored, fresh, nextId, request, sseRef, delayed, editing, dialog,
                     page, putBack>>
  BY Zenon DEF ToggleRole, Operate
<1>2. messages \in Seq(Calm(putBack))
  BY <1>0, <1>1, EnabledCalm
<1> HIDE DEF m
<1>3. ASSUME NEW x \in Calm(putBack) PROVE One(x) \in Calm(putBack)
  BY DEF Calm, Fit, Message
<1>4. list \in Seq(Calm(putBack))
  <2>1. DOMAIN messages = 1..Len(messages) /\ Len(messages) \in Nat
        /\ \A j \in 1..Len(messages) : messages[j] \in Calm(putBack)
    BY <1>2
  <2>2. list = [j \in 1..Len(messages) |-> One(messages[j])]
    BY <2>1, Zenon
  <2> HIDE DEF One, list
  <2>3. \A j \in 1..Len(messages) : One(messages[j]) \in Calm(putBack)
    BY <1>3, <2>1
  <2>4. [j \in 1..Len(messages) |-> One(messages[j])] \in Seq(Calm(putBack))
    BY <2>1, <2>3, IsASeq
  <2> QED BY <2>2, <2>4
<1> HIDE DEF list, One
<1>5. list \in Seq(Fit(putBack)) /\ Newest(list, Sent)
  BY <1>4, CalmNewest
<1>6. operations' \in 0..MaxActs
  BY <1>0, <1>1, OperateStep
<1>7. /\ editing' \in Seq(Message) /\ Len(editing') <= 1 /\ Question'
      /\ delayed' \in Seq({"resend", "regenerate"}) /\ putBack' = putBack
  BY <1>1, ChatParts, SameQuestion
<1>8. list \in Seq(Fit(putBack')) /\ putBack' \in BOOLEAN /\ (putBack => putBack')
  BY <1>0, <1>5, <1>7, Zenon
<1> QED BY <1>1, <1>5, <1>6, <1>7, <1>8, ShowAndSaveKeeps

LEMMA SaveEditStep == ASSUME ChatInv, SaveEdit PROVE ChatInv'
<1> DEFINE at == IndexOf(messages, editing[1])
           list == Edited(messages, editing[1].id)
           confirms == /\ messages[at].role = "user" /\ at < Len(messages)
                   /\ messages[at + 1].role = "assistant"
<1>0. PICK p \in BOOLEAN : p = putBack /\ messages \in Seq(Fit(p))
  BY ChatParts
<1>1. /\ at # 0 /\ editing' = <<>>
      /\ IF confirms THEN /\ dialog' = [kind |-> "edit", list |-> list, at |-> at]
                      /\ UNCHANGED <<messages, timers, detached>>
                 ELSE ShowAndSave(list) /\ UNCHANGED dialog
      /\ UNCHANGED <<stored, fresh, nextId, request, sseRef, delayed, page, operations,
                     putBack>>
  BY Zenon DEF SaveEdit
<1>2. /\ list \in Seq(Fit(p)) /\ Len(list) = Len(messages)
      /\ \A i \in 1..Len(messages) : list[i].role = messages[i].role
      /\ Newest(messages, Sent) => Newest(list, Sent)
  BY <1>0, EditedFits
<1>3. at \in 0..Len(messages) /\ Len(messages) \in Nat
  BY <1>0, IndexOfType
<1> HIDE DEF at, list
<1>4. putBack' \in BOOLEAN /\ (putBack => putBack') /\ list \in Seq(Fit(putBack'))
  BY <1>0, <1>1, <1>2, Zenon
<1>5. /\ operations' \in 0..MaxActs /\ delayed' \in Seq({"resend", "regenerate"})
      /\ editing' \in Seq(Message) /\ Len(editing') <= 1
  BY <1>1, ChatParts
<1>6. CASE confirms
  <2>1. /\ dialog' = [kind |-> "edit", list |-> list, at |-> at]
        /\ UNCHANGED <<messages, timers, detached>>
    BY <1>1, <1>6
  <2>2. at \in 1..Len(list) /\ at \in Nat /\ list[at].role = "user"
    BY <1>1, <1>2, <1>3, <1>6
  <2>3. Question'
    BY <1>4, <2>1, <2>2 DEF Question, Dialog
  <2> QED BY <1>1, <1>5, <2>1, <2>3, AskStep
<1>7. CASE ~confirms
  <2>1. ShowAndSave(list) /\ UNCHANGED dialog
    BY <1>1, <1>7
  <2>2. Question'
    BY <1>1, <2>1, ChatParts, SameQuestion
  <2>3. putBack' \/ Newest(list, Sent)
    BY <1>1, <1>2, ChatParts DEF Latest
  <2> QED BY <1>1, <1>4, <1>5, <2>1, <2>2, <2>3, ShowAndSaveKeeps
<1> QED BY <1>6, <1>7

LEMMA ConfirmEditStep == ASSUME ChatInv, ConfirmEdit PROVE ChatInv'
<1> DEFINE list == SubSeq(dialog.list, 1, dialog.at)
<1>0. /\ putBack \in BOOLEAN /\ dialog.list \in Seq(Fit(putBack)) /\ Question
      /\ delayed \in Seq({"resend", "regenerate"})
  BY ChatParts
<1>1. /\ dialog.kind = "edit" /\ ShowAndSave(list) /\ dialog' = NoDialog
      /\ delayed' = Append(delayed, "regenerate")
      /\ UNCHANGED <<stored, fresh, nextId, request, sseRef, editing, page, operations, putBack>>
  BY DEF ConfirmEdit
<1>2. PICK full \in Seq(Fit(putBack)) : full = dialog.list
  BY <1>0
<1>3. PICK n \in 1..Len(full) : n = dialog.at /\ full[n].role = "user"
  BY <1>0, <1>1, <1>2 DEF Question
<1>4. PICK cut \in Seq(Fit(putBack)) :
        cut = SubSeq(full, 1, n) /\ Len(cut) = n /\ \A i \in 1..n : cut[i] = full[i]
  <2>1. \A i \in 1..n : full[i] \in Fit(putBack)
    OBVIOUS
  <2>2. /\ SubSeq(full, 1, n) \in Seq(Fit(putBack))
        /\ Len(SubSeq(full, 1, n)) = n
        /\ \A i \in 1..n : SubSeq(full, 1, n)[i] = full[1 + i - 1]
    BY <2>1, SubSeqProperties
  <2>3. \A i \in 1..n : SubSeq(full, 1, n)[i] = full[i]
    BY <2>2
  <2> QED BY <2>2, <2>3
<1>5. Newest(cut, Sent)
  <2>1. Last(cut) = full[n] /\ full[n] \in Fit(putBack)
    BY <1>4 DEF Last
  <2>2. Last(cut).status \notin Generating
    BY <1>3, <2>1 DEF Fit
  <2> QED BY <2>2 DEF Newest
<1>6. list = cut
  BY <1>2, <1>3, <1>4
<1> HIDE DEF list
<1>7. /\ cut \in Seq(Fit(putBack')) /\ putBack' \in BOOLEAN /\ (putBack => putBack')
      /\ ShowAndSave(cut)
  BY <1>0, <1>1, <1>6, Zenon
<1>8. Question'
  BY <1>1, <1>7, DialogClosed
<1>9. /\ operations' \in 0..MaxActs /\ editing' \in Seq(Message) /\ Len(editing') <= 1
      /\ delayed' \in Seq({"resend", "regenerate"})
  BY <1>0, <1>1, ChatParts, AppendProperties
<1> QED BY <1>1, <1>5, <1>7, <1>8, <1>9, ShowAndSaveKeeps

LEMMA KeepEditStep == ASSUME ChatInv, KeepEdit PROVE ChatInv'
<1>0. PICK p \in BOOLEAN : p = putBack /\ dialog.list \in Seq(Fit(p))
  BY ChatParts
<1>1. /\ ShowAndSave(dialog.list) /\ dialog' = NoDialog
      /\ putBack' = (putBack \/ SettleLast(dialog.list) # dialog.list)
      /\ UNCHANGED <<stored, fresh, nextId, request, sseRef, delayed, editing, page,
                     operations>>
  BY DEF KeepEdit
<1>2. PICK q \in BOOLEAN : q = putBack' /\ (putBack => q)
  BY <1>0, <1>1, Zenon
<1>3. dialog.list \in Seq(Fit(q))
  BY <1>0, <1>2, FitGrows
<1>4. q \/ Newest(dialog.list, Sent)
  BY <1>0, <1>1, <1>2, SettleLastFits
<1>5. /\ dialog.list \in Seq(Fit(putBack')) /\ putBack' \in BOOLEAN /\ (putBack => putBack')
      /\ putBack' \/ Newest(dialog.list, Sent)
  BY <1>2, <1>3, <1>4, Zenon
<1>6. Question'
  BY <1>1, <1>5, DialogClosed
<1>7. /\ operations' \in 0..MaxActs /\ editing' \in Seq(Message) /\ Len(editing') <= 1
      /\ delayed' \in Seq({"resend", "regenerate"})
  BY <1>1, ChatParts
<1> QED BY <1>1, <1>5, <1>6, <1>7, ShowAndSaveKeeps

LEMMA ClearStep == ASSUME ChatInv, Clear PROVE ChatInv'
<1>0. Controls /\ putBack \in BOOLEAN
  BY ChatParts
<1>1. /\ Acts < MaxActs /\ operations' = operations + 1 /\ ShowAndSave(<<>>)
      /\ UNCHANGED <<stored, fresh, nextId, request, sseRef, delayed, editing, dialog,
                     page, putBack>>
  BY Zenon DEF Clear, Operate
<1>2. operations' \in 0..MaxActs
  BY <1>0, <1>1, OperateStep
<1>3. /\ <<>> \in Seq(Fit(putBack')) /\ putBack' \in BOOLEAN /\ (putBack => putBack')
      /\ Newest(<<>>, Sent)
  BY <1>0, <1>1, EmptySeq DEF Newest
<1>4. /\ editing' \in Seq(Message) /\ Len(editing') <= 1 /\ Question'
      /\ delayed' \in Seq({"resend", "regenerate"})
  BY <1>1, ChatParts, SameQuestion
<1> QED BY <1>1, <1>2, <1>3, <1>4, ShowAndSaveKeeps

-----------------------------------------------------------------------------
(* Import, reset, language, reload, timers                                 *)

LEMMA PickImportStep == ASSUME ChatInv, PickImport PROVE ChatInv'
<1>0. Controls /\ putBack \in BOOLEAN
  BY ChatParts
<1>1. /\ Acts < MaxActs /\ operations' = operations + 1
      /\ stored' = ImportedMessages
      /\ dialog' = [kind |-> "import", list |-> ImportedMessages, at |-> 0]
      /\ detached' = TRUE
      /\ UNCHANGED <<messages, fresh, nextId, request, sseRef, timers, delayed, editing,
                     page, putBack>>
  BY Zenon DEF PickImport, Operate
<1>2. ImportedMessages \in Seq(Fit(putBack)) /\ putBack' = putBack
  BY <1>0, <1>1, StandardFits
<1>3. operations' \in 0..MaxActs
  BY <1>0, <1>1, OperateStep
<1>4. Controls' /\ StopRef' /\ InOrder' /\ Sent' = Sent
  <2>1. /\ fresh' \in BOOLEAN /\ detached' \in BOOLEAN /\ putBack' \in BOOLEAN
        /\ editing' \in Seq(Message) /\ Len(editing') <= 1 /\ page' \in {"up", "crashed"}
        /\ delayed' \in Seq({"resend", "regenerate"})
    BY <1>1, ChatParts
  <2> QED BY <1>1, <1>3, <2>1, OperationKeeps
<1>5. Storage'
  BY <1>1, <1>2 DEF Storage
<1>6. Question'
  BY <1>1, <1>2 DEF Question, Dialog
<1>7. Display' /\ Saves' /\ Latest'
  BY <1>1, <1>4, ChatParts DEF Display, Saves, Latest
<1>8. Saved'
  BY <1>1 DEF Saved
<1> QED BY <1>4, <1>5, <1>6, <1>7, <1>8 DEF ChatInv

LEMMA ConfirmImportStep == ASSUME ChatInv, ConfirmImport PROVE ChatInv'
<1>0. putBack \in BOOLEAN /\ dialog.list \in Seq(Fit(putBack)) /\ Question
  BY ChatParts
<1>1. /\ dialog.kind = "import" /\ messages' = dialog.list
      /\ detached' = (stored # dialog.list \/ timers # <<>>)
      /\ dialog' = NoDialog
      /\ UNCHANGED <<stored, fresh, nextId, request, sseRef, timers, delayed, editing, page,
                     operations, putBack>>
  BY Zenon DEF ConfirmImport
<1>2. Controls' /\ StopRef' /\ InOrder' /\ Sent' = Sent
  <2>1. detached' \in BOOLEAN
    BY <1>1, Zenon
  <2>2. /\ fresh' \in BOOLEAN /\ putBack' \in BOOLEAN
        /\ editing' \in Seq(Message) /\ Len(editing') <= 1 /\ page' \in {"up", "crashed"}
        /\ delayed' \in Seq({"resend", "regenerate"}) /\ operations' \in 0..MaxActs
    BY <1>1, ChatParts
  <2> QED BY <1>1, <2>1, <2>2, OperationKeeps
<1>3. messages' = ImportedMessages /\ Newest(messages', Sent)
  BY <1>0, <1>1, StandardFits DEF Question
<1>4. Display' /\ Latest' /\ Saves' /\ Storage'
  BY <1>0, <1>1, <1>2, <1>3, ChatParts, SameStorage DEF Display, Latest, Saves
<1>5. Question'
  BY <1>0, <1>1, DialogClosed
<1>6. Saved'
  <2>1. dialog.list # NoStore
    BY <1>0, FitGrows, NoStoreAssumption
  <2>2. ~detached' => stored = messages' /\ timers' = <<>> /\ Restored' = messages'
    BY <1>1, <2>1 DEF Restored
  <2> QED BY <2>2, Zenon DEF Saved
<1> QED BY <1>2, <1>4, <1>5, <1>6 DEF ChatInv

LEMMA ChangeLanguageStep == ASSUME ChatInv, ChangeLanguage PROVE ChatInv'
<1>0. Controls /\ putBack \in BOOLEAN
  BY ChatParts
<1>1. /\ Acts < MaxActs /\ operations' = operations + 1
      /\ messages' = IF fresh THEN DefaultMessages ELSE messages
      /\ detached' = IF fresh THEN TRUE ELSE detached
      /\ UNCHANGED <<stored, fresh, nextId, request, sseRef, timers, delayed, editing,
                     dialog, page, putBack>>
  BY Zenon DEF ChangeLanguage, Operate
<1>2. DefaultMessages \in Seq(Fit(putBack)) /\ Newest(DefaultMessages, Sent)
  BY <1>0, StandardFits
<1>3. operations' \in 0..MaxActs
  BY <1>0, <1>1, OperateStep
<1>4. Controls' /\ StopRef' /\ InOrder' /\ Sent' = Sent
  <2>1. detached' \in BOOLEAN
    BY <1>1, ChatParts
  <2>2. /\ fresh' \in BOOLEAN /\ putBack' \in BOOLEAN
        /\ editing' \in Seq(Message) /\ Len(editing') <= 1 /\ page' \in {"up", "crashed"}
        /\ delayed' \in Seq({"resend", "regenerate"})
    BY <1>1, ChatParts
  <2> QED BY <1>1, <1>3, <2>1, <2>2, OperationKeeps
<1>5. Display' /\ Latest'
  BY <1>1, <1>2, <1>4, ChatParts DEF Display, Latest
<1>6. Storage' /\ Question' /\ Saves'
  BY <1>1, ChatParts, SameStorage, SameQuestion DEF Saves
<1>7. Saved'
  <2>1. CASE fresh
    BY <1>1, <2>1 DEF Saved
  <2>2. CASE ~fresh
    BY <1>1, <2>2, ChatParts, SameSaved
  <2> QED BY <2>1, <2>2
<1> QED BY <1>4, <1>5, <1>6, <1>7 DEF ChatInv

LEMMA ResetConfigStep == ASSUME ChatInv, NEW b \in BOOLEAN, ResetConfig(b) PROVE ChatInv'
<1>0. Controls /\ putBack \in BOOLEAN /\ timers \in Seq(Timer(putBack))
  BY ChatParts
<1>1. /\ Acts < MaxActs /\ operations' = operations + 1
      /\ stored' = NoStore /\ detached' = TRUE
      /\ IF b THEN messages' = <<>> /\ timers' = Append(timers, DefaultTimer)
              ELSE UNCHANGED <<messages, timers>>
      /\ UNCHANGED <<fresh, nextId, request, sseRef, delayed, editing, dialog, page, putBack>>
  BY Zenon DEF ResetConfig, Operate
<1>2. operations' \in 0..MaxActs
  BY <1>0, <1>1, OperateStep
<1>3. Controls' /\ StopRef' /\ InOrder' /\ Sent' = Sent
  <2>1. /\ fresh' \in BOOLEAN /\ detached' \in BOOLEAN /\ putBack' \in BOOLEAN
        /\ editing' \in Seq(Message) /\ Len(editing') <= 1 /\ page' \in {"up", "crashed"}
        /\ delayed' \in Seq({"resend", "regenerate"})
    BY <1>1, ChatParts
  <2> QED BY <1>1, <1>2, <2>1, OperationKeeps
<1>4. Display' /\ Latest' /\ Saves'
  <2>1. CASE b
    <3>1. messages' = <<>> /\ timers' = Append(timers, DefaultTimer)
      BY <1>1, <2>1
    <3>2. DefaultTimer \in Timer(putBack)
      BY EmptySeq DEF DefaultTimer, Timer
    <3>3. timers' \in Seq(Timer(putBack))
      BY <1>0, <3>1, <3>2, AppendProperties
    <3>4. messages' \in Seq(Fit(putBack)) /\ Newest(messages', Sent)
      BY <3>1, EmptySeq DEF Newest
    <3> QED BY <1>1, <1>3, <3>3, <3>4 DEF Display, Latest, Saves
  <2>2. CASE ~b
    BY <1>1, <1>3, <2>2, ChatParts DEF Display, Latest, Saves
  <2> QED BY <2>1, <2>2
<1>5. Storage'
  BY <1>1 DEF Storage
<1>6. Question'
  BY <1>1, ChatParts, SameQuestion
<1>7. Saved'
  BY <1>1 DEF Saved
<1> QED BY <1>3, <1>4, <1>5, <1>6, <1>7 DEF ChatInv

LEMMA ReloadStep == ASSUME ChatInv, NEW removed \in BOOLEAN, Reload(removed) PROVE ChatInv'
<1> DEFINE kept == IF removed THEN NoStore ELSE stored
           repaired == SettleLast(kept)
<1>0. /\ Controls /\ putBack \in BOOLEAN /\ StopRef /\ InOrder
      /\ request \in [Requests -> RequestStates]
      /\ stored = NoStore \/ stored \in Seq(Fit(putBack))
  BY ChatParts DEF Controls, Storage
<1>1. /\ Acts < MaxActs /\ operations' = operations + 1
      /\ page' = "up" /\ fresh' = (kept = NoStore) /\ stored' = kept
      /\ messages' = IF kept = NoStore THEN DefaultMessages ELSE repaired
      /\ timers' = IF kept = NoStore \/ repaired = kept THEN <<>>
                   ELSE <<SaveTimer(repaired)>>
      /\ request' = [r \in Requests |-> IF r \in Sent THEN "closed" ELSE "unsent"]
      /\ sseRef' = 0 /\ delayed' = <<>> /\ editing' = <<>> /\ dialog' = NoDialog
      /\ nextId' = FirstId /\ detached' = FALSE
      /\ UNCHANGED putBack
  BY Zenon DEF Reload
<1>2. operations' \in 0..MaxActs
  BY <1>0, <1>1, OperateStep
<1>3. /\ request' \in [Requests -> RequestStates]
      /\ \A r \in Requests : request'[r] # "unsent" <=> request[r] # "unsent"
  BY <1>0, <1>1 DEF Sent
<1>4. Sent' = Sent
  BY <1>3 DEF Sent
<1>5. Controls' /\ StopRef' /\ InOrder'
  <2>1. fresh' \in BOOLEAN
    BY <1>1, Zenon
  <2>2. nextId' \in Nat /\ sseRef' \in 0..MaxRequests
    BY <1>1, PlaygroundAssumption DEF FirstId
  <2>3. /\ delayed' \in Seq({"resend", "regenerate"})
        /\ editing' \in Seq(Message) /\ Len(editing') <= 1
    BY <1>1, EmptySeq
  <2>4. detached' \in BOOLEAN /\ putBack' \in BOOLEAN /\ page' \in {"up", "crashed"}
    BY <1>0, <1>1, Zenon
  <2>5. Controls'
    BY <1>2, <1>3, <2>1, <2>2, <2>3, <2>4, Zenon DEF Controls
  <2> QED BY <1>0, <1>1, <1>4, <2>5 DEF StopRef, InOrder
<1>6. Question'
  BY <1>0, <1>1, DialogClosed
<1>7. Storage' /\ (kept = NoStore \/ kept \in Seq(Fit(putBack)))
  <2>1. kept = NoStore \/ kept = stored
    OBVIOUS
  <2> HIDE DEF kept
  <2> QED BY <1>0, <1>1, <2>1 DEF Storage
<1> HIDE DEF kept
<1>8. CASE kept = NoStore
  <2>1. messages' = DefaultMessages /\ timers' = <<>> /\ Restored' = DefaultMessages
    BY <1>1, <1>8 DEF Restored
  <2>2. DefaultMessages \in Seq(Fit(putBack)) /\ Newest(DefaultMessages, Sent)
    BY <1>0, StandardFits
  <2>3. Display' /\ Latest' /\ Saves'
    BY <1>1, <1>4, <2>1, <2>2, EmptySeq DEF Display, Latest, Saves
  <2>4. Saved'
    BY <2>1 DEF Saved
  <2> QED BY <1>5, <1>6, <1>7, <2>3, <2>4 DEF ChatInv
<1>9. CASE kept # NoStore
  <2>1. /\ repaired \in Seq(Fit(putBack)) /\ Newest(repaired, Sent)
    BY <1>0, <1>7, <1>9, SettleLastFits
  <2>2. messages' = repaired
    BY <1>1, <1>9
  <2> HIDE DEF repaired
  <2>3. Display' /\ Latest'
    BY <1>1, <1>4, <2>1, <2>2 DEF Display, Latest
  <2>4. CASE repaired = kept
    <3>1. timers' = <<>> /\ Restored' = messages'
      BY <1>1, <1>9, <2>2, <2>4 DEF Restored
    <3>2. Saves' /\ Saved'
      BY <3>1, EmptySeq DEF Saves, Saved
    <3> QED BY <1>5, <1>6, <1>7, <2>3, <3>2 DEF ChatInv
  <2>5. CASE repaired # kept
    <3>1. timers' = <<SaveTimer(repaired)>>
      BY <1>1, <1>9, <2>5
    <3>0. /\ SaveTimer(repaired) \in Timer(putBack)
          /\ SaveTimer(repaired).kind = "save" /\ SaveTimer(repaired).list = repaired
      BY <2>1 DEF SaveTimer, Timer
    <3>2. PICK t \in Timer(putBack) : t = SaveTimer(repaired) /\ t.kind = "save"
                                      /\ t.list = repaired
      BY <3>0
    <3>3. timers' \in Seq(Timer(putBack)) /\ timers' # <<>> /\ Last(timers') = t
      BY <3>1, <3>2 DEF Last
    <3>4. Saves' /\ Saved'
      BY <1>1, <2>2, <3>2, <3>3 DEF Saves, Saved
    <3> QED BY <1>5, <1>6, <1>7, <2>3, <3>4 DEF ChatInv
  <2> QED BY <2>4, <2>5
<1> QED BY <1>8, <1>9

LEMMA RunTimerStep == ASSUME ChatInv, RunTimer PROVE ChatInv'
<1>0. /\ Controls /\ putBack \in BOOLEAN /\ timers \in Seq(Timer(putBack)) /\ Saved
  BY ChatParts
<1>1. /\ timers # <<>> /\ timers' = Tail(timers)
      /\ IF Head(timers).kind = "save"
         THEN stored' = Head(timers).list /\ UNCHANGED <<messages, detached>>
         ELSE /\ messages' = IF page = "up" THEN DefaultMessages ELSE messages
              /\ detached' = TRUE /\ UNCHANGED stored
      /\ UNCHANGED <<fresh, nextId, request, sseRef, delayed, editing, dialog, page,
                     operations, putBack>>
  BY Zenon DEF RunTimer
<1>2. /\ Head(timers) \in Timer(putBack) /\ timers' \in Seq(Timer(putBack))
      /\ Len(timers') = Len(timers) - 1 /\ Len(timers) \in Nat
      /\ \A i \in 1..Len(timers') : timers'[i] = timers[i + 1]
  BY <1>0, <1>1, HeadTailProperties
<1>3. /\ timers' = <<>> => Head(timers) = Last(timers)
      /\ timers' # <<>> => Last(timers') = Last(timers)
  <2>1. Len(timers) # 0
    BY <1>0, <1>1, EmptySeq
  <2>2. timers' = <<>> => Len(timers) = 1
    BY <1>2
  <2>3. Head(timers) = timers[1]
    BY <1>0, <1>1
  <2>4. timers' # <<>> => Len(timers') # 0
    BY <1>2, EmptySeq
  <2> QED BY <1>2, <2>1, <2>2, <2>3, <2>4 DEF Last
<1>4. Controls' /\ StopRef' /\ InOrder' /\ Sent' = Sent
  <2>1. detached' \in BOOLEAN
    BY <1>1, ChatParts
  <2>2. /\ fresh' \in BOOLEAN /\ putBack' \in BOOLEAN
        /\ editing' \in Seq(Message) /\ Len(editing') <= 1 /\ page' \in {"up", "crashed"}
        /\ delayed' \in Seq({"resend", "regenerate"}) /\ operations' \in 0..MaxActs
    BY <1>1, ChatParts
  <2> QED BY <1>1, <2>1, <2>2, OperationKeeps
<1>5. Question' /\ Saves'
  BY <1>1, <1>2, ChatParts, SameQuestion DEF Saves
<1>6. CASE Head(timers).kind = "save"
  <2>1. stored' = Head(timers).list /\ UNCHANGED <<messages, detached>>
    BY <1>1, <1>6
  <2>2. Head(timers).list \in Seq(Fit(putBack)) /\ Head(timers).list # NoStore
    BY <1>0, <1>2, FitGrows, NoStoreAssumption DEF Timer
  <2>3. Storage' /\ Display' /\ Latest'
    BY <1>1, <1>4, <2>1, <2>2, ChatParts DEF Storage, Display, Latest
  <2>4. Restored' = Head(timers).list
    BY <2>1, <2>2 DEF Restored
  <2>5. Saved'
    <3>1. SUFFICES ASSUME ~detached', page' = "up", delayed' = <<>>
                   PROVE  IF timers' # <<>>
                          THEN /\ Last(timers').kind = "save"
                               /\ Shown(messages') = Shown(Last(timers').list)
                          ELSE Shown(messages') = Shown(Restored')
      BY Zenon DEF Saved
    <3>2. /\ Last(timers).kind = "save"
          /\ Shown(messages) = Shown(Last(timers).list)
      BY <1>0, <1>1, <2>1, <3>1 DEF Saved
    <3> QED BY <1>3, <2>1, <2>4, <3>2
  <2> QED BY <1>4, <1>5, <2>3, <2>5 DEF ChatInv
<1>7. CASE Head(timers).kind # "save"
  <2>1. /\ messages' = IF page = "up" THEN DefaultMessages ELSE messages
        /\ detached' = TRUE /\ UNCHANGED stored
    BY <1>1, <1>7
  <2>2. DefaultMessages \in Seq(Fit(putBack)) /\ Newest(DefaultMessages, Sent)
    BY <1>0, StandardFits
  <2>3. Display' /\ Latest' /\ Storage' /\ Saved'
    BY <1>1, <1>4, <2>1, <2>2, ChatParts, SameStorage DEF Display, Latest, Saved
  <2> QED BY <1>4, <1>5, <2>3 DEF ChatInv
<1> QED BY <1>6, <1>7

-----------------------------------------------------------------------------
(* The theorems                                                            *)

LEMMA InitStep == ASSUME Init PROVE ChatInv
<1>1. Sent = {}
  BY DEF Init, Sent
<1>2. /\ messages = DefaultMessages /\ stored = NoStore /\ fresh = TRUE
      /\ nextId = FirstId
      /\ request = [r \in Requests |-> "unsent"] /\ sseRef = 0
      /\ timers = <<>> /\ delayed = <<>>
      /\ editing = <<>> /\ dialog = NoDialog
      /\ page = "up" /\ operations = 0
      /\ detached = FALSE /\ putBack = FALSE
  BY Zenon DEF Init
<1>3. /\ DefaultMessages \in Seq(Fit(putBack)) /\ Newest(DefaultMessages, Sent)
      /\ <<>> \in Seq(Fit(putBack))
  BY <1>2, StandardFits, EmptySeq
<1>4. Controls
  <2>1. /\ nextId \in Nat /\ sseRef \in 0..MaxRequests /\ operations \in 0..MaxActs
    BY <1>2, PlaygroundAssumption DEF FirstId
  <2>2. /\ delayed \in Seq({"resend", "regenerate"})
        /\ editing \in Seq(Message) /\ Len(editing) <= 1
    BY <1>2, EmptySeq
  <2>3. request \in [Requests -> RequestStates]
    BY <1>2
  <2>4. /\ fresh \in BOOLEAN /\ detached \in BOOLEAN /\ putBack \in BOOLEAN
        /\ page \in {"up", "crashed"}
    BY <1>2, Zenon
  <2> QED BY <2>1, <2>2, <2>3, <2>4, Zenon DEF Controls
<1>5. StopRef /\ InOrder
  BY <1>1, <1>2 DEF StopRef, InOrder
<1>6. Display /\ Storage /\ Latest
  BY <1>2, <1>3 DEF Display, Storage, Latest
<1>7. Saves
  BY <1>2, EmptySeq DEF Saves
<1>8. Question
  BY <1>2, <1>3 DEF Question, Dialog, NoDialog
<1>9. Saved
  BY <1>2 DEF Saved, Restored
<1> QED BY <1>4, <1>5, <1>6, <1>7, <1>8, <1>9 DEF ChatInv

LEMMA ChatStep == ASSUME ChatInv, [Next]_vars PROVE ChatInv'
<1>1. ASSUME NEW r \in Requests, NEW mode \in Modes, Send(r, mode) \/ RunDelayed(r, mode)
      PROVE  ChatInv'
  BY <1>1, SendStep
<1>2. CASE Network
  BY <1>2, NetworkStep
<1>3. CASE Stop \/ RunTimer
  BY <1>3, StopStep, RunTimerStep
<1>4. ASSUME NEW i \in DOMAIN messages,
             Retry(i) \/ AskDelete(i) \/ ToggleRole(i) \/ StartEdit(i)
      PROVE  ChatInv'
  BY <1>4, RetryStep, AskDeleteStep, ToggleStep, StartEditStep
<1>5. CASE ConfirmDelete \/ SaveEdit \/ ConfirmEdit \/ KeepEdit \/ CancelEdit \/ Clear
  BY <1>5, ConfirmDeleteStep, SaveEditStep, ConfirmEditStep, KeepEditStep, CancelStep,
     ClearStep
<1>6. CASE PickImport \/ ConfirmImport \/ DismissDialog \/ ChangeLanguage
  BY <1>6, PickImportStep, ConfirmImportStep, CancelStep, ChangeLanguageStep
<1>7. ASSUME NEW b \in BOOLEAN, ResetConfig(b) \/ Reload(b) PROVE ChatInv'
  BY <1>7, ResetConfigStep, ReloadStep
<1>8. CASE UNCHANGED vars
  <2>1. Sent' = Sent /\ Restored' = Restored
    BY <1>8 DEF vars, Sent, Restored
  <2> QED BY <1>8, <2>1 DEF vars, ChatInv, Controls, StopRef, InOrder, Display, Storage,
                            Saves, Question, Latest, Saved
<1> QED BY <1>1, <1>2, <1>3, <1>4, <1>5, <1>6, <1>7, <1>8 DEF Next

\* The inductive invariant.
THEOREM ChatInvariant == Spec => []ChatInv
<1>1. Init => ChatInv
  BY InitStep
<1>2. ChatInv /\ [Next]_vars => ChatInv'
  BY ChatStep
<1> QED BY <1>1, <1>2, PTL DEF Spec

\* Lists, timers, dialog and controls keep their types, whatever the network
\* and the user do.
THEOREM TypeCorrect == Spec => []TypeOK
<1>1. ChatInv => TypeOK
  <2> SUFFICES ASSUME ChatInv PROVE TypeOK
    OBVIOUS
  <2>1. /\ Controls /\ putBack \in BOOLEAN /\ messages \in Seq(Fit(putBack))
        /\ stored = NoStore \/ stored \in Seq(Fit(putBack))
        /\ timers \in Seq(Timer(putBack)) /\ dialog \in Dialog(putBack)
    BY ChatParts DEF Storage
  <2>2. \A l \in Seq(Fit(putBack)) : l \in Seq(Message)
    BY <2>1, FitGrows
  <2>3. messages \in Seq(Message) /\ (stored = NoStore \/ stored \in Seq(Message))
    BY <2>1, <2>2
  <2>4. Timer(putBack) \subseteq [kind : {"save", "default"}, list : Seq(Message)]
    BY <2>2 DEF Timer
  <2>5. timers \in Seq([kind : {"save", "default"}, list : Seq(Message)])
    <3>1. PICK S : S = [kind : {"save", "default"}, list : Seq(Message)]
      OBVIOUS
    <3>2. PICK T : T = Timer(putBack)
      OBVIOUS
    <3>3. T \subseteq S /\ timers \in Seq(T)
      BY <2>1, <2>4, <3>1, <3>2
    <3>4. timers \in Seq(S)
      BY <3>3
    <3> QED BY <3>1, <3>4
  <2>6. dialog \in [kind : {"none", "delete", "edit", "import"}, list : Seq(Message),
                    at : Nat]
    BY <2>1, <2>2 DEF Dialog
  <2> QED BY <2>1, <2>3, <2>5, <2>6, Zenon DEF TypeOK, Controls
<1> QED BY <1>1, ChatInvariant, PTL

\* The data of a request shows in no message of an earlier request, as long
\* as no older message being generated was made the last one.
THEOREM NoEarlierAnswerHolds == Spec => []NoEarlierAnswer
<1>1. ChatInv => NoEarlierAnswer
  <2> SUFFICES ASSUME ChatInv, ~putBack, NEW i \in DOMAIN messages,
                      NEW r \in messages[i].from
               PROVE  r <= messages[i].req
    BY DEF NoEarlierAnswer
  <2>1. messages[i] \in Fit(putBack)
    BY ChatParts
  <2> QED BY <2>1 DEF Fit
<1> QED BY <1>1, ChatInvariant, PTL

\* When nothing is pending, a reload shows the messages on display, unless
\* the last operation wrote the storage or the display alone.
THEOREM StoredAgreesHolds == Spec => []StoredAgrees
<1>1. ChatInv => StoredAgrees
  BY ChatParts DEF StoredAgrees, Saved, Quiet, Restored
<1> QED BY <1>1, ChatInvariant, PTL

\* No network callback writes a settled answer, adds a message or removes one.
THEOREM SettledStays == Spec => SettledIsFinal
<1> DEFINE Changes == \/ Len(messages') # Len(messages)
                      \/ \E i \in DOMAIN messages :
                            messages[i].status \in Settled /\ messages'[i] # messages[i]
<1>1. ChatInv /\ [Next]_vars => [Changes => ~Network]_vars
  <2> SUFFICES ASSUME ChatInv, Network PROVE ~Changes
    OBVIOUS
  <2>1. Touched(messages, messages') /\ DOMAIN messages = 1..Len(messages)
    BY ChatParts, NetworkStep
  <2> QED BY <2>1 DEF Touched
<1> QED BY <1>1, ChatInvariant, PTL DEF Spec, SettledIsFinal

-----------------------------------------------------------------------------
(* The channels page                                                       *)

Flags ==
    /\ keyword \in BOOLEAN /\ loading \in BOOLEAN /\ searching \in BOOLEAN
    /\ open \in BOOLEAN /\ isBatchTesting \in BOOLEAN /\ shouldStop \in BOOLEAN
    /\ crossed \in BOOLEAN /\ olderList \in BOOLEAN /\ lost \in BOOLEAN
    /\ broken \in BOOLEAN

TableTypes ==
    /\ activePage \in 0..Pages /\ shown \in List
    /\ counter \in 1..MaxUserActs + 1
    /\ asks \subseteq [no : 1..MaxUserActs + 1, page : 0..Pages, kind : Kinds]
    /\ managing \subseteq List
    /\ acts \in 0..MaxUserActs /\ last \in List /\ last.no <= acts + 1

\* Requests for a list have the number of the latest or a smaller one, and
\* the latest asks for the page that is awaited.
Asked ==
    \A a \in asks : /\ a.no <= last.no
                    /\ a.no = last.no => last.page = IF a.page = 0 THEN 1 ELSE a.page

\* Without a crossing, the only answer that is taken is that of the latest
\* request.
Numbered ==
    ~crossed => \A a \in asks :
        IF Plain(a.kind) THEN counter = last.no ELSE a.no = last.no

\* Its list is shown or awaited.
Awaited ==
    ~crossed /\ ~olderList /\ ~lost => shown = last \/ \E a \in asks : a.no = last.no

TableInv == TableTypes /\ Asked /\ Numbered /\ Awaited

DialogTypes ==
    /\ channel \in 0..Pages /\ (open => channel \in 1..Pages)
    /\ batches \in Seq(Batch)
    /\ singles \subseteq [of : 1..Pages, model : Model, seen : BOOLEAN,
                          list : List]
    /\ testing \subseteq Model
    /\ results \in [(1..Pages) \X Model -> {"none", "passed", "failed"}]

\* Where a batch is: what it waits for has been sent, it pauses before models
\* that are left, and settles after the last of them.
Underway(b) ==
    /\ \A m \in b.going : m < b.next
    /\ b.phase = "chunk" <=> b.going # {}
    /\ b.phase = "pause" => b.next <= b.size
    /\ b.phase = "settling" => b.next > b.size

AllUnderway == \A i \in DOMAIN batches : Underway(batches[i])

\* What was sent and is not awaited: a channel's latest batch has its results.
Due(b) == {m \in 1..b.size : m < b.next} \ b.going
NoneAfter(i) == \A j \in DOMAIN batches : j > i => batches[j].of # batches[i].of
Counted ==
    \A i \in DOMAIN batches : NoneAfter(i) =>
        \A m \in Due(batches[i]) :
            results[<<batches[i].of, m>>] # "none"

DialogInv == DialogTypes /\ AllUnderway /\ Counted

PageInv == Flags /\ TableInv /\ DialogInv

LEMMA Constants ==
    /\ Pages \in Nat /\ Pages >= 1 /\ Models \in Nat /\ Models >= 1
           /\ Limit \in Nat /\ Limit >= 1 /\ MaxUserActs \in Nat /\ MaxUserActs >= 1
BY ChannelsPageAssumption

-----------------------------------------------------------------------------
(* The table                                                               *)

LEMMA SendKeeps ==
    ASSUME TableInv, NEW number \in 0..Pages, NEW kind \in Kinds,
           SendAsk(number, kind), activePage' \in 0..Pages,
           acts < MaxUserActs, acts' = acts + 1
    PROVE  TableInv'
<1> DEFINE ask == [no |-> last.no + 1, page |-> number, kind |-> kind]
           asked == IF number = 0 THEN 1 ELSE number
<1>1. /\ asks' = asks \cup {ask}
      /\ counter' = IF Plain(kind) THEN last.no + 1 ELSE counter
      /\ last' = [no |-> last.no + 1, page |-> asked]
      /\ crossed' = (asks # {} /\ (crossed \/ \E a \in asks \cup {ask} : ~Plain(a.kind)))
      /\ UNCHANGED <<shown, managing>>
  BY Zenon DEF SendAsk
<1>2. /\ ask.no = last.no + 1 /\ ask.page = number /\ ask.kind = kind
      /\ last'.no = last.no + 1 /\ last'.page = asked
  BY <1>1
<1>3. /\ last.no \in 0..MaxUserActs /\ asked \in 1..Pages /\ acts' \in 0..MaxUserActs
      /\ last.no + 1 \in 1..MaxUserActs + 1 /\ last.no + 1 <= acts' + 1
  <2>1. last.no \in Nat /\ last.no <= acts + 1 /\ acts \in Nat
    BY Constants DEF TableInv, TableTypes, List
  <2>2. asked \in 1..Pages
    BY Constants
  <2> HIDE DEF asked
  <2> QED BY <2>1, <2>2, Constants
<1> HIDE DEF ask, asked
<1>4. TableTypes'
  <2>1. /\ ask \in [no : 1..MaxUserActs + 1, page : 0..Pages, kind : Kinds]
        /\ last' \in List
    BY <1>1, <1>3, Constants DEF ask, List
  <2>2. counter' \in 1..MaxUserActs + 1
    BY <1>1, <1>3 DEF TableInv, TableTypes
  <2>3. asks' \subseteq [no : 1..MaxUserActs + 1, page : 0..Pages, kind : Kinds]
    BY <1>1, <2>1 DEF TableInv, TableTypes
  <2> QED BY <1>1, <1>2, <1>3, <2>1, <2>2, <2>3 DEF TableInv, TableTypes
<1>5. Asked'
  <2>1. \A a \in asks : a.no \in Nat /\ a.no <= last.no
    BY DEF TableInv, TableTypes, Asked
  <2>2. \A a \in asks : a.no <= last'.no /\ a.no # last'.no
    BY <1>2, <1>3, <2>1
  <2> QED BY <1>1, <1>2, <1>3, <2>2 DEF Asked, asked
<1>6. Numbered'
  BY <1>1, <1>2 DEF Numbered
<1>7. Awaited'
  BY <1>1, <1>2 DEF Awaited
<1> QED BY <1>4, <1>5, <1>6, <1>7 DEF TableInv

LEMMA TableSame ==
    ASSUME TableInv,
           UNCHANGED <<shown, counter, asks, last, crossed, olderList, lost, activePage>>,
           managing' \subseteq List, acts' \in 0..MaxUserActs, acts <= acts'
    PROVE  TableInv'
<1>1. TableTypes'
  BY DEF TableInv, TableTypes, List
<1>2. Asked' /\ Numbered' /\ Awaited'
  BY DEF TableInv, Asked, Numbered, Awaited
<1> QED BY <1>1, <1>2 DEF TableInv

\* A closure puts its list back.
LEMMA PutBackKeeps ==
    ASSUME TableInv, NEW list \in List, PutBack(list),
           UNCHANGED <<counter, asks, last, crossed, lost, activePage, acts>>,
           managing' \subseteq List
    PROVE  TableInv'
<1>1. shown' = list /\ olderList' = (olderList \/ list # shown)
  BY DEF PutBack
<1>2. TableTypes'
  BY <1>1 DEF TableInv, TableTypes, List
<1>3. Asked' /\ Numbered'
  BY DEF TableInv, Asked, Numbered
<1>4. Awaited'
  BY <1>1 DEF TableInv, Awaited
<1> QED BY <1>2, <1>3, <1>4 DEF TableInv

LEMMA AnswerListKeeps ==
    ASSUME TableInv, NEW a \in asks, NEW outcome,
           AnswerList(a, outcome)
    PROVE  TableInv'
<1> DEFINE takes == Current(a) /\ outcome = "ok"
           number == IF a.page = 0 THEN 1 ELSE a.page
<1>1. /\ asks' = asks \ {a}
      /\ shown' = IF takes THEN [no |-> a.no, page |-> number] ELSE shown
      /\ olderList' = (olderList /\ ~takes)
      /\ activePage' = IF takes /\ ~Plain(a.kind) THEN a.page ELSE activePage
      /\ lost' = (lost \/ (a.no = last.no /\ outcome # "ok"))
      /\ UNCHANGED <<counter, managing, acts, last, crossed>>
  BY Zenon DEF AnswerList
<1>2. /\ a.no \in 1..MaxUserActs + 1 /\ a.page \in 0..Pages /\ number \in 1..Pages
      /\ last \in List
  BY Constants DEF TableInv, TableTypes
<1>3. a.no = last.no => last = [no |-> a.no, page |-> number]
  BY <1>2 DEF TableInv, Asked, List
<1>4. ~crossed => (Current(a) <=> a.no = last.no)
  BY DEF TableInv, Numbered, Current
<1> HIDE DEF number
<1>5. TableTypes'
  <2>1. [no |-> a.no, page |-> number] \in List
    BY <1>2, Constants DEF List
  <2>2. shown' \in List /\ activePage' \in 0..Pages
    BY <1>1, <1>2, <2>1 DEF TableInv, TableTypes
  <2> QED BY <1>1, <2>2 DEF TableInv, TableTypes
<1>6. Asked' /\ Numbered'
  BY <1>1 DEF TableInv, Asked, Numbered
<1>7. Awaited'
  <2> SUFFICES ASSUME ~crossed', ~olderList', ~lost'
               PROVE  shown' = last' \/ \E b \in asks' : b.no = last'.no
    BY DEF Awaited
  <2>1. CASE takes
    BY <1>1, <1>3, <1>4, <2>1
  <2>2. CASE ~takes
    <3>1. a.no # last.no
      BY <1>1, <1>4, <2>2
    <3> QED BY <1>1, <2>2, <3>1 DEF TableInv, Awaited
  <2> QED BY <2>1, <2>2
<1> QED BY <1>5, <1>6, <1>7 DEF TableInv
-----------------------------------------------------------------------------
(* The dialog                                                              *)

\* What a batch that starts its next chunk waits for.
LEMMA StartedBatch ==
    ASSUME NEW b \in Batch, b.going = {}, b.next <= b.size
    PROVE  /\ Started(b) \in Batch /\ Underway(Started(b))
           /\ Started(b).of = b.of /\ Chunk(b) \subseteq Model
           /\ Due(Started(b)) = {m \in 1..b.size : m < b.next}
<1>1. /\ b.of \in 1..Pages /\ b.list \in List /\ b.size \in 1..Models
      /\ b.next \in 1..Models + Limit
  BY DEF Batch, Model
<1>2. PICK c : c = Chunk(b)
  OBVIOUS
<1>3. PICK next \in Int : next = b.next + Limit
  BY <1>1, Constants
<1>4. /\ c = {m \in b.next..b.size : m < next} /\ b.next \in c /\ c \subseteq 1..Models
      /\ next \in 1..Models + Limit
  BY <1>1, <1>2, <1>3, Constants DEF Chunk
<1>5. Started(b) = [b EXCEPT !.going = c, !.next = next, !.phase = "chunk"]
  BY <1>2, <1>3, Zenon DEF Started
<1>6. PICK new : new = [b EXCEPT !.going = c, !.next = next, !.phase = "chunk"]
  OBVIOUS
<1>7. /\ new \in Batch /\ new.of = b.of /\ new.next = next /\ new.going = c
      /\ new.size = b.size /\ new.phase = "chunk"
  BY <1>4, <1>6 DEF Batch, Model, Phases
<1>8. Underway(new)
  BY <1>4, <1>7 DEF Underway
<1>9. Due(new) = {m \in 1..b.size : m < b.next}
  BY <1>1, <1>3, <1>4, <1>7, Constants DEF Due
<1> QED BY <1>2, <1>4, <1>5, <1>6, <1>7, <1>8, <1>9 DEF Model

\* What an answer makes of a batch that awaits it.
LEMMA AnsweredBatch ==
    ASSUME NEW b \in Batch, Underway(b), NEW m \in b.going,
           NEW new, new = AfterChunk([b EXCEPT !.going = @ \ {m}])
    PROVE  /\ new \in Batch /\ Underway(new)
           /\ new.of = b.of /\ new.next = b.next /\ new.going = b.going \ {m}
           /\ new.list = b.list /\ new.size = b.size
<1>1. b.phase = "chunk"
  BY DEF Underway
<1>2. PICK c \in Batch : c = [b EXCEPT !.going = @ \ {m}]
  BY DEF Batch
<1>3. /\ c.of = b.of /\ c.next = b.next /\ c.size = b.size /\ c.going = b.going \ {m}
      /\ c.phase = "chunk" /\ c.list = b.list
  BY <1>1, <1>2 DEF Batch
<1>4. \A k \in c.going : k < c.next
  BY <1>3 DEF Underway
<1>5. CASE c.going # {}
  <2>1. new = c
    BY <1>2, <1>5 DEF AfterChunk
  <2> QED BY <1>3, <1>4, <1>5, <2>1 DEF Underway
<1>6. CASE c.going = {}
  <2>1. PICK ph \in {"over", "pause", "settling"} :
            /\ new = [c EXCEPT !.phase = ph]
            /\ ph = "pause" => c.next <= c.size
            /\ ph = "settling" => ~(c.next <= c.size)
    <3>1. new = [c EXCEPT !.phase = IF shouldStop THEN "over"
                          ELSE IF c.next <= c.size THEN "pause" ELSE "settling"]
      BY <1>2, <1>3, <1>6 DEF AfterChunk
    <3> QED BY <3>1
  <2>2. /\ new \in Batch
        /\ new.of = c.of /\ new.next = c.next /\ new.size = c.size /\ new.going = c.going
        /\ new.phase = ph /\ new.list = c.list
    BY <2>1 DEF Batch, Phases
  <2>3. c.next \in Int /\ c.size \in Int
    BY Constants DEF Batch, Model
  <2>4. new.phase = "settling" => new.next > new.size
    BY <2>1, <2>2, <2>3
  <2>5. Underway(new)
    BY <1>4, <1>6, <2>1, <2>2, <2>4 DEF Underway
  <2> QED BY <1>3, <2>2, <2>5
<1> QED BY <1>5, <1>6

\* A batch that is over.
LEMMA BatchOver ==
    ASSUME NEW b \in Batch, Underway(b), b.phase # "chunk"
    PROVE  /\ [b EXCEPT !.phase = "over"] \in Batch
           /\ Underway([b EXCEPT !.phase = "over"])
           /\ [b EXCEPT !.phase = "over"].of = b.of
           /\ [b EXCEPT !.phase = "over"].next = b.next
           /\ Due([b EXCEPT !.phase = "over"]) = Due(b)
<1>1. PICK new : new = [b EXCEPT !.phase = "over"]
  OBVIOUS
<1>2. /\ new \in Batch /\ new.of = b.of /\ new.next = b.next
      /\ new.going = b.going /\ new.size = b.size /\ new.phase = "over"
  BY <1>1 DEF Batch, Phases
<1>3. Underway(new) /\ Due(new) = Due(b)
  BY <1>2 DEF Underway, Due
<1> QED BY <1>1, <1>2, <1>3

LEMMA DialogSame ==
    ASSUME DialogInv, UNCHANGED <<batches, results>>,
           channel' \in 0..Pages /\ (open' => channel' \in 1..Pages),
           testing' \subseteq Model,
           singles' \subseteq [of : 1..Pages, model : Model, seen : BOOLEAN,
                               list : List]
    PROVE  DialogInv'
<1>1. DialogTypes'
  BY DEF DialogInv, DialogTypes
<1>2. AllUnderway' /\ Counted'
  BY DEF DialogInv, AllUnderway, Counted, NoneAfter
<1> QED BY <1>1, <1>2 DEF DialogInv

LEMMA BatchTestKeeps ==
    ASSUME TableInv, DialogInv, NEW n \in Model,
           BatchTest(n)
    PROVE  DialogInv'
<1> DEFINE b == [of |-> channel, size |-> n, next |-> 1, going |-> {},
                 phase |-> "pause", list |-> shown]
<1>1. /\ open
      /\ results' = [r \in DOMAIN results |->
                       IF r[1] = channel /\ r[2] <= n THEN "none" ELSE results[r]]
      /\ batches' = Append(batches, Started(b))
      /\ testing' = testing \cup Chunk(b)
      /\ UNCHANGED <<open, channel, singles>>
  BY Zenon DEF BatchTest
<1>2. b \in Batch /\ b.of = channel /\ b.next = 1 /\ b.size = n /\ b.going = {}
  BY <1>1, Constants DEF TableInv, TableTypes, DialogInv, DialogTypes, Batch,
                         Model, Phases
<1> HIDE DEF b
<1>3. b.next <= b.size
  BY <1>2 DEF Model
<1>4. PICK new \in Batch :
        /\ new = Started(b) /\ Underway(new) /\ new.of = channel
        /\ Due(new) = {} /\ Chunk(b) \subseteq Model
  <2>1. {m \in 1..b.size : m < b.next} = {}
    BY <1>2
  <2> QED BY <1>2, <1>3, <2>1, StartedBatch
<1>5. /\ batches \in Seq(Batch)
      /\ batches' \in Seq(Batch) /\ DOMAIN batches' = 1..(Len(batches) + 1)
      /\ DOMAIN batches = 1..Len(batches) /\ Len(batches) \in Nat
      /\ \A i \in 1..Len(batches) : batches'[i] = batches[i]
      /\ batches'[Len(batches) + 1] = new
  BY <1>1, <1>4, AppendProperties DEF DialogInv, DialogTypes
<1>6. results' \in [(1..Pages) \X Model -> {"none", "passed", "failed"}]
  BY <1>1 DEF DialogInv, DialogTypes
<1>7. DialogTypes'
  BY <1>1, <1>4, <1>5, <1>6 DEF DialogInv, DialogTypes
<1>8. AllUnderway'
  BY <1>4, <1>5 DEF DialogInv, AllUnderway
<1>9. Counted'
  <2> SUFFICES ASSUME NEW i \in DOMAIN batches', NoneAfter(i)',
                      NEW m \in Due(batches'[i])
               PROVE  results'[<<batches'[i].of, m>>] # "none"
    BY DEF Counted
  <2>1. i \in 1..Len(batches) /\ batches'[i] = batches[i]
    BY <1>4, <1>5
  <2>2. batches[i].of # channel
    BY <1>4, <1>5, <2>1 DEF NoneAfter
  <2>3. NoneAfter(i)
    BY <1>5, <2>1 DEF NoneAfter
  <2>4. results[<<batches[i].of, m>>] # "none"
    BY <1>5, <2>1, <2>3 DEF DialogInv, Counted
  <2>5. <<batches[i].of, m>> \in DOMAIN results
    <3>1. batches[i] \in Batch
      BY <1>5, <2>1
    <3>2. batches[i].of \in 1..Pages /\ m \in Model
      BY <2>1, <3>1, Constants DEF Batch, Model, Due
    <3> QED BY <3>2 DEF DialogInv, DialogTypes
  <2> QED BY <1>1, <2>1, <2>2, <2>4, <2>5
<1> QED BY <1>7, <1>8, <1>9 DEF DialogInv

\* The end of a pause, or the count.
LEMMA TimerKeeps ==
    ASSUME DialogInv, NEW i \in DOMAIN batches,
           PauseEnds(i) \/ Settle(i)
    PROVE  DialogInv'
<1>1. PICK new, more :
        /\ batches' = [batches EXCEPT ![i] = new] /\ testing' = testing \cup more
        /\ UNCHANGED <<open, channel, singles, results>>
        /\ \/ /\ new = [batches[i] EXCEPT !.phase = "over"] /\ more = {}
              /\ batches[i].phase # "chunk"
           \/ /\ new = Started(batches[i]) /\ more = Chunk(batches[i])
              /\ batches[i].phase = "pause"
  <2>1. CASE Settle(i)
    <3>1. /\ batches' = [batches EXCEPT ![i] = [batches[i] EXCEPT !.phase = "over"]]
          /\ testing' = testing \cup {} /\ batches[i].phase # "chunk"
          /\ UNCHANGED <<open, channel, singles, results>>
      BY <2>1 DEF Settle
    <3> QED BY <3>1
  <2>2. CASE PauseEnds(i) /\ shouldStop
    <3>1. /\ batches' = [batches EXCEPT ![i] = [batches[i] EXCEPT !.phase = "over"]]
          /\ testing' = testing \cup {} /\ batches[i].phase # "chunk"
          /\ UNCHANGED <<open, channel, singles, results>>
      BY <2>2 DEF PauseEnds
    <3> QED BY <3>1
  <2>3. CASE PauseEnds(i) /\ ~shouldStop
    <3>1. /\ batches' = [batches EXCEPT ![i] = Started(batches[i])]
          /\ testing' = testing \cup Chunk(batches[i])
          /\ batches[i].phase = "pause"
          /\ UNCHANGED <<open, channel, singles, results>>
      BY <2>3 DEF PauseEnds
    <3> QED BY <2>3, <3>1
  <2> QED BY <2>1, <2>2, <2>3
<1>2. /\ batches \in Seq(Batch) /\ DOMAIN batches = 1..Len(batches)
      /\ Len(batches) \in Nat /\ \A j \in DOMAIN batches : batches[j] \in Batch
      /\ \A j \in DOMAIN batches : Underway(batches[j])
  BY DEF DialogInv, DialogTypes, AllUnderway
<1>3. /\ new \in Batch /\ Underway(new) /\ new.of = batches[i].of
      /\ Due(new) = Due(batches[i]) /\ more \subseteq Model
  <2>1. batches[i] \in Batch /\ Underway(batches[i])
    BY <1>2
  <2>2. CASE /\ new = [batches[i] EXCEPT !.phase = "over"] /\ more = {}
             /\ batches[i].phase # "chunk"
    BY <2>1, <2>2, BatchOver DEF Underway
  <2>3. CASE /\ new = Started(batches[i]) /\ more = Chunk(batches[i])
             /\ batches[i].phase = "pause"
    <3>1. batches[i].going = {} /\ batches[i].next <= batches[i].size
      BY <2>1, <2>3 DEF Underway
    <3>2. Due(batches[i]) = {m \in 1..batches[i].size : m < batches[i].next}
      BY <3>1 DEF Due
    <3> QED BY <2>1, <2>3, <3>1, <3>2, StartedBatch
  <2> QED BY <1>1, <2>2, <2>3
<1>4. /\ batches' \in Seq(Batch) /\ DOMAIN batches' = DOMAIN batches
      /\ batches'[i] = new /\ \A j \in DOMAIN batches : j # i => batches'[j] = batches[j]
  BY <1>1, <1>2, <1>3
<1>5. DialogTypes'
  BY <1>1, <1>3, <1>4 DEF DialogInv, DialogTypes
<1>6. AllUnderway'
  BY <1>2, <1>3, <1>4 DEF AllUnderway
<1>7. Counted'
  <2>1. \A j \in DOMAIN batches : batches'[j].of = batches[j].of
    BY <1>3, <1>4
  <2>2. \A j \in DOMAIN batches : Due(batches'[j]) = Due(batches[j])
    BY <1>3, <1>4
  <2>3. \A j \in DOMAIN batches : NoneAfter(j)' => NoneAfter(j)
    BY <1>4, <2>1 DEF NoneAfter
  <2> QED BY <1>1, <1>4, <2>1, <2>2, <2>3 DEF DialogInv, Counted
<1> QED BY <1>5, <1>6, <1>7 DEF DialogInv

\* The answer about a model: every batch that awaits it has its result.
LEMMA AnswerTestKeeps ==
    ASSUME PageInv, NEW c \in 1..Pages, NEW m \in Model,
           NEW outcome, AnswerTest(c, m, outcome)
    PROVE  TableInv' /\ DialogInv'
<1> DEFINE bs == {i \in DOMAIN batches : batches[i].of = c /\ m \in batches[i].going}
           ss == {s \in singles : s.of = c /\ s.model = m}
           kept == {s \in ss : outcome = "error" \/ ~Dropped(s)}
           lists == {l \in {batches[i].list : i \in bs} \cup {s.list : s \in kept} : l.page = c}
           answered(i) == AfterChunk([batches[i] EXCEPT !.going = @ \ {m}])
<1>1. /\ bs # {} \/ ss # {}
      /\ singles' = singles \ ss
      /\ testing' = testing \ {m}
      /\ results' = IF bs # {} \/ kept # {}
                    THEN [results EXCEPT ![<<c, m>>] = IF outcome = "passed" THEN "passed" ELSE "failed"]
                    ELSE results
      /\ IF outcome = "passed" /\ lists # {}
         THEN \E l \in lists : PutBack(l)
         ELSE UNCHANGED <<shown, olderList>>
      /\ batches' = [i \in DOMAIN batches |-> IF i \in bs THEN answered(i) ELSE batches[i]]
      /\ UNCHANGED <<activePage, counter, asks, managing, open, channel, acts, last, crossed, lost>>
  BY Zenon DEF AnswerTest
<1>2. /\ batches \in Seq(Batch) /\ DOMAIN batches = 1..Len(batches)
      /\ Len(batches) \in Nat /\ \A j \in DOMAIN batches : batches[j] \in Batch
      /\ \A j \in DOMAIN batches : Underway(batches[j])
  BY DEF PageInv, DialogInv, DialogTypes, AllUnderway
<1>3. ASSUME NEW i \in bs
      PROVE  /\ answered(i) \in Batch /\ Underway(answered(i))
             /\ answered(i).of = batches[i].of /\ answered(i).next = batches[i].next
             /\ Due(answered(i)) \subseteq Due(batches[i]) \cup {m}
  <2>1. PICK new : new = answered(i)
    OBVIOUS
  <2>2. /\ batches[i] \in Batch /\ Underway(batches[i]) /\ m \in batches[i].going
    BY <1>2
  <2>3. /\ new \in Batch /\ Underway(new) /\ new.of = batches[i].of
        /\ new.next = batches[i].next /\ new.going = batches[i].going \ {m}
        /\ new.size = batches[i].size
    BY <2>1, <2>2, AnsweredBatch
  <2>4. Due(new) \subseteq Due(batches[i]) \cup {m}
    BY <2>3 DEF Due
  <2> QED BY <2>1, <2>3, <2>4
<1>4. bs \subseteq DOMAIN batches /\ \A i \in bs : batches[i].of = c
  OBVIOUS
<1>5. \A l \in lists : l \in List
  <2>1. \A i \in bs : batches[i].list \in List
    BY <1>2 DEF Batch
  <2>2. \A s \in kept : s.list \in List
    BY DEF PageInv, DialogInv, DialogTypes
  <2> QED BY <2>1, <2>2
<1>6. TableInv'
  <2> HIDE DEF lists
  <2>1. CASE outcome = "passed" /\ lists # {}
    <3>1. PICK l \in lists : PutBack(l)
      BY <1>1, <2>1
    <3>2. managing' \subseteq List
      BY <1>1 DEF PageInv, TableInv, TableTypes
    <3> QED BY <1>1, <1>5, <3>1, <3>2, PutBackKeeps DEF PageInv
  <2>2. CASE ~(outcome = "passed" /\ lists # {})
    <3>1. managing' \subseteq List /\ acts' \in 0..MaxUserActs /\ acts <= acts'
      BY <1>1, Constants DEF PageInv, TableInv, TableTypes
    <3> QED BY <1>1, <2>2, <3>1, TableSame DEF PageInv
  <2> QED BY <2>1, <2>2
<1>7. /\ results' \in [(1..Pages) \X Model -> {"none", "passed", "failed"}]
      /\ bs # {} => results'[<<c, m>>] # "none"
      /\ \A r \in (1..Pages) \X Model :
            results[r] # "none" => results'[r] # "none"
  <2> HIDE DEF bs, kept
  <2>1. /\ results \in [(1..Pages) \X Model -> {"none", "passed", "failed"}]
        /\ <<c, m>> \in (1..Pages) \X Model
    BY DEF PageInv, DialogInv, DialogTypes
  <2>2. PICK v \in {"passed", "failed"} : v = IF outcome = "passed" THEN "passed" ELSE "failed"
    OBVIOUS
  <2>3. results' = [results EXCEPT ![<<c, m>>] = v] \/ (bs = {} /\ results' = results)
    BY <1>1, <2>2
  <2> QED BY <2>1, <2>3
<1> HIDE DEF bs, ss, kept, lists, answered
<1>8. /\ DOMAIN batches' = DOMAIN batches
      /\ \A i \in DOMAIN batches :
           batches'[i] = IF i \in bs THEN answered(i) ELSE batches[i]
  BY <1>1
<1>9. \A i \in DOMAIN batches :
        /\ batches'[i] \in Batch /\ Underway(batches'[i])
        /\ batches'[i].of = batches[i].of /\ batches'[i].next = batches[i].next
        /\ i \notin bs => batches'[i] = batches[i]
        /\ i \in bs => Due(batches'[i]) \subseteq Due(batches[i]) \cup {m}
  BY <1>2, <1>3, <1>8
<1>10. batches' \in Seq(Batch)
  <2>1. batches' = [i \in 1..Len(batches) |-> IF i \in bs THEN answered(i) ELSE batches[i]]
    BY <1>1, <1>2
  <2>2. \A i \in 1..Len(batches) : (IF i \in bs THEN answered(i) ELSE batches[i]) \in Batch
    BY <1>2, <1>3
  <2>3. [i \in 1..Len(batches) |-> IF i \in bs THEN answered(i) ELSE batches[i]]
          \in Seq(Batch)
    BY <1>2, <2>2, IsASeq
  <2> QED BY <2>1, <2>3
<1>11. DialogTypes'
  BY <1>1, <1>7, <1>10 DEF PageInv, DialogInv, DialogTypes
<1>12. AllUnderway'
  BY <1>8, <1>9 DEF AllUnderway
<1>13. Counted'
  <2> SUFFICES ASSUME NEW i \in DOMAIN batches', NoneAfter(i)', NEW k \in Due(batches'[i])
               PROVE  results'[<<batches'[i].of, k>>] # "none"
    BY DEF Counted
  <2>1. i \in DOMAIN batches /\ batches'[i].of = batches[i].of /\ NoneAfter(i)
    BY <1>8, <1>9 DEF NoneAfter
  <2>2. CASE i \in bs /\ k = m
    BY <1>4, <1>7, <2>1, <2>2
  <2>3. CASE i \notin bs \/ k # m
    <3>1. k \in Due(batches[i])
      BY <1>9, <2>1, <2>3
    <3>2. results[<<batches[i].of, k>>] # "none"
      BY <2>1, <3>1 DEF PageInv, DialogInv, Counted
    <3>3. <<batches[i].of, k>> \in (1..Pages) \X Model
      <4>1. batches[i] \in Batch
        BY <1>2, <2>1
      <4> QED BY <3>1, <4>1, Constants DEF Batch, Model, Due
    <3> QED BY <1>7, <2>1, <3>2, <3>3
  <2> QED BY <2>2, <2>3
<1> QED BY <1>6, <1>11, <1>12, <1>13 DEF DialogInv
-----------------------------------------------------------------------------
(* The theorems about the channels page                                    *)

\* What the user does at the table.
LEMMA AtTableKeeps ==
    ASSUME PageInv,
           \/ \E p \in 1..Pages : TurnPage(p)
           \/ ReloadList \/ RefreshButton \/ Submit
           \/ SwitchView \/ TypeKeyword \/ Manage
    PROVE  TableInv' /\ DialogInv' /\ batches' = batches
<1>1. /\ AtTable /\ acts < MaxUserActs /\ acts' = acts + 1
      /\ UNCHANGED <<open, channel, isBatchTesting, shouldStop, batches, singles, testing,
                     results>>
  BY DEF AtTable, UserActs, dialogVars, TurnPage,
         ReloadList, RefreshButton, Submit, SwitchView,
         TypeKeyword, Manage
<1>2. DialogInv'
  <2>1. /\ channel' \in 0..Pages /\ (open' => channel' \in 1..Pages)
        /\ testing' \subseteq Model
        /\ singles' \subseteq [of : 1..Pages, model : Model, seen : BOOLEAN,
                               list : List]
    BY <1>1 DEF PageInv, DialogInv, DialogTypes
  <2> QED BY <1>1, <2>1, DialogSame DEF PageInv
<1>3. /\ activePage \in 0..Pages /\ 0 \in 0..Pages /\ 1 \in 0..Pages
      /\ \A p \in 1..Pages : p \in 0..Pages
  BY Constants DEF PageInv, TableInv, TableTypes
<1>4. ASSUME NEW number \in 0..Pages, NEW kind \in Kinds, SendAsk(number, kind),
             activePage' \in 0..Pages
      PROVE  TableInv'
  BY <1>1, <1>4, SendKeeps DEF PageInv
<1>5. ASSUME NEW number \in 0..Pages,
             \/ LoadChannels(number) \/ SearchChannels(number)
             \/ Refresh(number),
             activePage' \in 0..Pages
      PROVE  TableInv'
  <2>1. \E kind \in Kinds : SendAsk(number, kind)
    BY <1>5 DEF LoadChannels, SearchChannels, Refresh,
                Kinds
  <2> QED BY <1>4, <1>5, <2>1
<1>6. ASSUME NEW p \in 1..Pages, TurnPage(p) PROVE TableInv'
  BY <1>3, <1>5, <1>6 DEF TurnPage
<1>7. CASE ReloadList
  BY <1>1, <1>2, <1>3, <1>5, <1>7 DEF ReloadList
<1>8. CASE RefreshButton
  BY <1>1, <1>2, <1>3, <1>5, <1>8 DEF RefreshButton
<1>9. CASE Submit
  BY <1>1, <1>2, <1>3, <1>5, <1>9 DEF Submit
<1>10. CASE SwitchView
  BY <1>1, <1>2, <1>3, <1>5, <1>10 DEF SwitchView
<1>11. CASE TypeKeyword \/ Manage
  <2>1. /\ UNCHANGED <<shown, counter, asks, last, crossed, olderList, lost, activePage>>
        /\ managing' = managing \/ managing' = managing \cup {shown}
    BY <1>11 DEF TypeKeyword, Manage, historyVars
  <2>2. managing' \subseteq List /\ acts' \in 0..MaxUserActs /\ acts <= acts'
    BY <1>1, <2>1, Constants DEF PageInv, TableInv, TableTypes
  <2> QED BY <1>1, <1>2, <2>1, <2>2, TableSame DEF PageInv
<1> QED BY <1>1, <1>2, <1>6, <1>7, <1>8, <1>9, <1>10, <1>11

\* What the user does in the dialog, but for a batch.
LEMMA AtDialogKeeps ==
    ASSUME PageInv,
           \/ OpenTests \/ CloseTests
           \/ \E m \in Model : TestOne(m)
    PROVE  TableInv' /\ DialogInv' /\ batches' = batches
<1>1. /\ acts < MaxUserActs /\ acts' = acts + 1
      /\ UNCHANGED <<shown, counter, asks, last, crossed, olderList, lost, activePage, managing>>
      /\ UNCHANGED <<batches, results>>
  BY DEF OpenTests, CloseTests, TestOne, UserActs,
         tableVars, historyVars
<1>2. TableInv'
  <2>1. managing' \subseteq List /\ acts' \in 0..MaxUserActs /\ acts <= acts'
    BY <1>1, Constants DEF PageInv, TableInv, TableTypes
  <2> QED BY <1>1, <2>1, TableSame DEF PageInv
<1>3. /\ DialogTypes /\ shown \in List /\ isBatchTesting \in BOOLEAN
  BY DEF PageInv, TableInv, TableTypes, DialogInv, Flags
<1>4. CASE OpenTests
  <2>1. channel' = shown.page /\ UNCHANGED <<singles, testing>>
    BY <1>4 DEF OpenTests
  <2>2. channel' \in 1..Pages /\ channel' \in 0..Pages
    BY <1>3, <2>1, Constants DEF List
  <2> QED BY <1>1, <1>2, <1>3, <2>1, <2>2, DialogSame DEF PageInv, DialogTypes
<1>5. CASE CloseTests
  <2>1. open' = FALSE /\ testing' = {} /\ UNCHANGED <<channel, singles>>
    BY <1>5 DEF CloseTests
  <2> QED BY <1>1, <1>2, <1>3, <2>1, DialogSame DEF PageInv, DialogTypes
<1>6. ASSUME NEW m \in Model, TestOne(m) PROVE DialogInv'
  <2>1. /\ open /\ UNCHANGED <<open, channel>>
        /\ singles' = singles \cup
             {[of |-> channel, model |-> m, seen |-> isBatchTesting, list |-> shown]}
        /\ testing' = testing \cup {m}
    BY <1>6 DEF TestOne
  <2>2. singles' \subseteq [of : 1..Pages, model : Model, seen : BOOLEAN,
                            list : List]
    BY <1>3, <2>1 DEF DialogTypes
  <2> QED BY <1>1, <1>3, <2>1, <2>2, DialogSame DEF PageInv, DialogTypes
<1> QED BY <1>1, <1>2, <1>4, <1>5, <1>6

\* The answers to the table's requests leave the dialog alone.
LEMMA AnswersKeep ==
    ASSUME PageInv, ListAnswers \/ ManageAnswers
    PROVE  TableInv' /\ DialogInv' /\ batches' = batches
<1>1. UNCHANGED <<open, channel, batches, singles, testing, results>>
  BY DEF ListAnswers, ManageAnswers, AnswerList,
         AnswerManage, dialogVars
<1>2. DialogInv'
  <2>1. /\ channel' \in 0..Pages /\ (open' => channel' \in 1..Pages)
        /\ testing' \subseteq Model
        /\ singles' \subseteq [of : 1..Pages, model : Model, seen : BOOLEAN,
                               list : List]
    BY <1>1 DEF PageInv, DialogInv, DialogTypes
  <2> QED BY <1>1, <2>1, DialogSame DEF PageInv
<1>3. CASE ListAnswers
  BY <1>1, <1>2, <1>3, AnswerListKeeps DEF PageInv, ListAnswers
<1>4. CASE ManageAnswers
  <2>1. PICK l \in managing, ok \in BOOLEAN : AnswerManage(l, ok)
    BY <1>4 DEF ManageAnswers
  <2>2. /\ managing' = managing \ {l}
        /\ PutBack(l) \/ UNCHANGED <<shown, olderList>>
        /\ UNCHANGED <<activePage, counter, asks, acts, last, crossed, lost>>
    BY <2>1 DEF AnswerManage
  <2>3. /\ managing' \subseteq List /\ l \in List
        /\ acts' \in 0..MaxUserActs /\ acts <= acts'
    BY <2>2, Constants DEF PageInv, TableInv, TableTypes
  <2>4. CASE PutBack(l)
    BY <1>1, <1>2, <2>2, <2>3, <2>4, PutBackKeeps DEF PageInv
  <2>5. CASE UNCHANGED <<shown, olderList>>
    BY <1>1, <1>2, <2>2, <2>3, <2>5, TableSame DEF PageInv
  <2> QED BY <2>2, <2>4, <2>5
<1> QED BY <1>3, <1>4

\* The flags stay flags.
LEMMA FlagsKeep == ASSUME Flags, PageNext PROVE Flags'
<1> USE DEF Flags
<1>1. ASSUME NEW number, NEW kind, SendAsk(number, kind),
             UNCHANGED <<open, isBatchTesting, shouldStop, keyword>>
      PROVE  Flags'
  BY <1>1 DEF SendAsk
<1>2. CASE User
  <2>1. ASSUME NEW number, AtTable, UNCHANGED keyword,
               \/ LoadChannels(number) \/ SearchChannels(number)
               \/ Refresh(number)
        PROVE  Flags'
    <3>1. UNCHANGED <<open, isBatchTesting, shouldStop>>
      BY <2>1 DEF AtTable, dialogVars
    <3>2. \E kind : SendAsk(number, kind)
      BY <2>1 DEF LoadChannels, SearchChannels, Refresh
    <3> QED BY <1>1, <2>1, <3>1, <3>2
  <2>2. ASSUME NEW p, TurnPage(p) PROVE Flags'
    BY <2>1, <2>2 DEF TurnPage
  <2>3. CASE ReloadList \/ RefreshButton \/ Submit \/ SwitchView
    BY <2>1, <2>3 DEF ReloadList, RefreshButton, Submit,
                      SwitchView
  <2>4. CASE TypeKeyword \/ Manage
    BY <2>4 DEF TypeKeyword, Manage, AtTable, dialogVars,
                historyVars
  <2>5. CASE OpenTests \/ CloseTests
    BY <2>5 DEF OpenTests, CloseTests, tableVars, historyVars
  <2>6. ASSUME NEW m, TestOne(m) PROVE Flags'
    BY <2>6 DEF TestOne, tableVars, historyVars
  <2>7. ASSUME NEW n, BatchTest(n) PROVE Flags'
    BY <2>7 DEF BatchTest, tableVars, historyVars
  <2> QED BY <1>2, <2>2, <2>3, <2>4, <2>5, <2>6, <2>7 DEF User
<1>3. CASE ListAnswers
  <2>1. PICK a, outcome : AnswerList(a, outcome)
    BY <1>3 DEF ListAnswers
  <2>2. UNCHANGED <<keyword, open, isBatchTesting, shouldStop, crossed>>
    BY <2>1 DEF AnswerList, dialogVars
  <2>3. searching' \in BOOLEAN
    BY <2>1 DEF AnswerList, StillSearching
  <2>4. /\ olderList' \in BOOLEAN /\ loading' \in BOOLEAN /\ broken' \in BOOLEAN
        /\ lost' \in BOOLEAN
    BY <2>1 DEF AnswerList
  <2> QED BY <2>2, <2>3, <2>4
<1>4. CASE ManageAnswers
  <2>1. PICK l, ok : AnswerManage(l, ok)
    BY <1>4 DEF ManageAnswers
  <2> QED BY <2>1 DEF AnswerManage, PutBack, dialogVars
<1>5. CASE TestAnswers
  <2>1. PICK c, m, outcome : AnswerTest(c, m, outcome)
    BY <1>5 DEF TestAnswers
  <2>2. UNCHANGED <<keyword, loading, searching, open, shouldStop, crossed, lost, broken>>
    BY <2>1 DEF AnswerTest
  <2>3. olderList' \in BOOLEAN
    BY <2>1 DEF AnswerTest, PutBack
  <2>4. isBatchTesting' \in BOOLEAN
    BY <2>1 DEF AnswerTest
  <2> QED BY <2>2, <2>3, <2>4
<1>6. CASE TimersFire
  <2>1. PICK i : PauseEnds(i) \/ Settle(i)
    BY <1>6 DEF TimersFire
  <2> QED BY <2>1 DEF PauseEnds, Settle, tableVars, historyVars
<1> QED BY <1>2, <1>3, <1>4, <1>5, <1>6 DEF PageNext

LEMMA PageStart == ASSUME PageInit PROVE PageInv
<1>1. Flags
  BY DEF Flags, PageInit
<1>2. /\ activePage = 1 /\ shown = [no |-> 0, page |-> 1]
      /\ counter = 1 /\ asks = {[no |-> 1, page |-> 1, kind |-> "load"]}
      /\ managing = {} /\ open = FALSE /\ channel = 0
      /\ batches = <<>> /\ singles = {} /\ testing = {}
      /\ results = [r \in (1..Pages) \X Model |-> "none"]
      /\ acts = 0 /\ last = [no |-> 1, page |-> 1]
  BY DEF PageInit, NoChannel
<1>3. TableTypes
  BY <1>2, Constants DEF TableTypes, List, Kinds
<1>4. Asked /\ Numbered /\ Awaited
  BY <1>2 DEF Asked, Numbered, Awaited, Plain
<1>5. DialogTypes
  BY <1>2, Constants, EmptySeq DEF DialogTypes
<1>6. AllUnderway /\ Counted
  BY <1>2 DEF AllUnderway, Counted
<1> QED BY <1>1, <1>3, <1>4, <1>5, <1>6 DEF PageInv, TableInv, DialogInv

\* Every step keeps the invariant.
LEMMA PageStep ==
    ASSUME PageInv, [PageNext]_pageVars
    PROVE  PageInv'
<1>1. CASE UNCHANGED pageVars
  <2>1. UNCHANGED <<keyword, activePage, shown, counter, asks, managing, loading, searching,
                    open, channel, isBatchTesting, shouldStop, batches, singles, testing,
                    results, acts, last, crossed, olderList, lost, broken>>
    BY <1>1 DEF pageVars, tableVars, dialogVars, historyVars
  <2>2. Flags' /\ TableInv' /\ DialogInv'
    BY <2>1 DEF PageInv, Flags, TableInv, TableTypes, Asked, Numbered, Awaited, DialogInv,
                DialogTypes, AllUnderway, Counted, NoneAfter
  <2> QED BY <2>1, <2>2 DEF PageInv
<1>2. CASE PageNext
  <2>1. Flags'
    BY <1>2, FlagsKeep DEF PageInv
  <2>2. ASSUME NEW n \in Model, BatchTest(n)
        PROVE  TableInv' /\ DialogInv'
    <3>1. DialogInv'
      BY <2>2, BatchTestKeeps DEF PageInv
    <3>2. /\ acts < MaxUserActs /\ acts' = acts + 1 /\ managing' = managing
          /\ UNCHANGED <<shown, counter, asks, last, crossed, olderList, lost, activePage>>
      BY <2>2 DEF BatchTest, UserActs, tableVars, historyVars
    <3>3. managing' \subseteq List /\ acts' \in 0..MaxUserActs /\ acts <= acts'
      BY <3>2, Constants DEF PageInv, TableInv, TableTypes
    <3> QED BY <3>1, <3>2, <3>3, TableSame DEF PageInv
  <2>3. CASE User
    <3>1. CASE \E n \in Model : BatchTest(n)
      BY <2>1, <2>2, <3>1 DEF PageInv
    <3>2. CASE ~\E n \in Model : BatchTest(n)
      <4>1. TableInv' /\ DialogInv' /\ batches' = batches
        BY <2>3, <3>2, AtTableKeeps, AtDialogKeeps DEF User
      <4> QED BY <2>1, <4>1 DEF PageInv
    <3> QED BY <3>1, <3>2
  <2>4. CASE ListAnswers \/ ManageAnswers
    BY <2>1, <2>4, AnswersKeep DEF PageInv
  <2>5. CASE TestAnswers
    BY <2>1, <2>5, AnswerTestKeeps DEF PageInv, TestAnswers
  <2>6. CASE TimersFire
    <3>1. PICK i \in DOMAIN batches : PauseEnds(i) \/ Settle(i)
      BY <2>6 DEF TimersFire
    <3>2. UNCHANGED <<shown, counter, asks, last, crossed, olderList, lost, activePage,
                      managing, acts>>
      BY <3>1 DEF PauseEnds, Settle, tableVars, historyVars
    <3>3. managing' \subseteq List /\ acts' \in 0..MaxUserActs /\ acts <= acts'
      BY <3>2, Constants DEF PageInv, TableInv, TableTypes
    <3>4. TableInv'
      BY <3>2, <3>3, TableSame DEF PageInv
    <3> QED BY <2>1, <3>1, <3>4, TimerKeeps DEF PageInv
  <2> QED BY <1>2, <2>3, <2>4, <2>5, <2>6 DEF PageNext
<1> QED BY <1>1, <1>2

\* The inductive invariant of the channels page.
THEOREM PageInvariant == PageSpec => []PageInv
<1>1. PageInit => PageInv
  BY PageStart
<1>2. PageInv /\ [PageNext]_pageVars => PageInv'
  BY PageStep
<1> QED BY <1>1, <1>2, PTL DEF PageSpec

\* The state of the table and of the dialog keeps its types.
THEOREM PageTypeCorrect == PageSpec => []PageTypeOK
<1>1. PageInv => PageTypeOK
  <2> SUFFICES ASSUME PageInv PROVE PageTypeOK
    OBVIOUS
  <2>1. channel \in {NoChannel} \cup 1..Pages
    BY Constants DEF PageInv, DialogInv, DialogTypes, NoChannel
  <2>2. {crossed, olderList, lost, broken} \subseteq BOOLEAN
    BY DEF PageInv, Flags
  <2> QED BY <2>1, <2>2 DEF PageInv, Flags, TableInv, TableTypes, DialogInv, DialogTypes,
                            PageTypeOK
<1> QED BY <1>1, PageInvariant, PTL

\* Once every request is answered the table shows the list asked for last,
\* but for keyword requests that crossed others, a closure that put an older
\* list back, and a last request that brought none.
THEOREM LastAskedIsShown == PageSpec => []LastAskedShown
<1>1. PageInv => LastAskedShown
  BY DEF PageInv, TableInv, Awaited, LastAskedShown
<1> QED BY <1>1, PageInvariant, PTL

\* A batch that counts its results has one for each of its models, unless a
\* later batch of the channel has cleared them.
THEOREM CountsAreOfResults == PageSpec => []CountsAreComplete
<1>1. PageInv => CountsAreComplete
  <2> SUFFICES ASSUME PageInv, NEW i \in DOMAIN batches, batches[i].phase = "settling",
                      \A j \in DOMAIN batches : j > i => batches[j].of # batches[i].of,
                      NEW m \in 1..batches[i].size
               PROVE  results[<<batches[i].of, m>>] # "none"
    BY DEF CountsAreComplete
  <2>1. batches[i] \in Batch /\ Underway(batches[i])
    BY DEF PageInv, DialogInv, DialogTypes, AllUnderway
  <2>2. batches[i].going = {} /\ batches[i].next > batches[i].size
    BY <2>1 DEF Underway
  <2>3. m \in Due(batches[i])
    BY <2>1, <2>2, Constants DEF Due, Batch, Model
  <2> QED BY <2>3 DEF PageInv, DialogInv, Counted, NoneAfter
<1> QED BY <1>1, PageInvariant, PTL
=============================================================================
