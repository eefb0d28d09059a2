------------------------ MODULE RelayBillingProofs ------------------------
(***************************************************************************)
(* Proofs about RelayBilling for every finite set of requests, every set   *)
(* of tokens, every amount, any number of faults and both ways of writing. *)
(***************************************************************************)
EXTENDS RelayBilling, FiniteSetTheorems, TLAPS

-----------------------------------------------------------------------------
(* Sums over a finite domain.  The fold that defines Sum is a recursive     *)
(* function on the subsets of the domain.  A fact about it is proved on a   *)
(* least counterexample: were the set of subsets it fails for not empty, a  *)
(* minimal one would be, and taking one element out of that one shows that  *)
(* it does not fail.                                                        *)

\* What a recursive step of the fold adds up, and the function it defines on
\* the parts of the domain.
Chosen(s) == CHOOSE x \in s : TRUE
StepSum(f, g, s) == IF s = {} THEN 0 ELSE f[Chosen(s)] + g[s \ {Chosen(s)}]
SumOn(f) == CHOOSE g : g = [s \in SUBSET (DOMAIN f) |-> StepSum(f, g, s)]

\* The sum the model computes is the fold over its whole domain.
LEMMA SumFolds == ASSUME NEW f PROVE Sum(f) = SumOn(f)[DOMAIN f]
BY Zenon DEF Sum, SumOn, StepSum, Chosen, FoldFunction, FoldFunctionOnSet,
             MapThenFoldSet

\* A nonempty set of natural numbers has a least element.
LEMMA Least ==
    ASSUME NEW S \in SUBSET Nat, S # {}
    PROVE  \E n \in S : \A m \in S : n <= m
<1>1. IsWellFoundedOn(OpToRel(<, Nat), Nat)
  BY NatLessThanWellFounded, Zenon
<1>2. PICK n \in S : \A m \in S : <<m, n>> \notin OpToRel(<, Nat)
  BY <1>1, WFMin, Zenon
<1>3. ASSUME NEW m \in S PROVE ~(m < n)
  BY <1>2 DEF OpToRel
<1> QED BY <1>3

\* Among the subsets of a finite set with some fault, one is minimal: without
\* any one of its elements it has the fault no more.
LEMMA MinimalSet ==
    ASSUME NEW D, IsFiniteSet(D), NEW B \in SUBSET (SUBSET D), B # {}
    PROVE  \E s \in B : \A x \in s : s \ {x} \notin B
<1>1. IsWellFoundedOn(StrictSubsetOrdering(D), SUBSET D)
  BY FS_StrictSubsetOrderingWellFounded, FS_FiniteSubsetsOfFinite
<1>2. PICK s \in B : \A t \in B : <<t, s>> \notin StrictSubsetOrdering(D)
  BY <1>1, WFMin, Zenon
<1>3. ASSUME NEW x \in s, s \ {x} \in B PROVE FALSE
  <2>1. s \ {x} \in SUBSET D /\ s \in SUBSET D /\ s \ {x} \subseteq s /\ s \ {x} # s
    BY <1>3
  <2> QED BY <1>2, <1>3, <2>1 DEF StrictSubsetOrdering
<1> QED BY <1>2, <1>3

\* A nonempty finite set of natural numbers has a greatest element.
LEMMA Greatest ==
    ASSUME NEW D \in SUBSET Nat, IsFiniteSet(D), D # {}
    PROVE  \E m \in D : \A x \in D : x <= m
<1> DEFINE Top(s) == \E m \in s : \A x \in s : x <= m
           B == {s \in SUBSET D : s # {} /\ ~Top(s)}
<1>1. SUFFICES ASSUME B # {} PROVE FALSE
  OBVIOUS
<1>2. PICK s \in B : \A x \in s : s \ {x} \notin B
  BY <1>1, MinimalSet
<1>3. s \in SUBSET D /\ s # {} /\ ~Top(s)
  OBVIOUS
<1>4. PICK c \in s : TRUE
  BY <1>3
<1>5. s \ {c} = {} \/ Top(s \ {c})
  BY <1>2
<1>6. CASE s \ {c} = {}
  BY <1>3, <1>4, <1>6
<1>7. CASE Top(s \ {c})
  <2>1. PICK m \in s \ {c} : \A x \in s \ {c} : x <= m
    BY <1>7
  <2>2. m \in Nat /\ c \in Nat /\ \A x \in s : x \in Nat
    BY <1>3, <1>4, <2>1
  <2>3. CASE c <= m
    BY <1>3, <2>1, <2>3
  <2>4. CASE m < c
    BY <1>3, <1>4, <2>1, <2>2, <2>4
  <2>5. QED
    BY <2>2, <2>3, <2>4
<1>8. QED
  BY <1>5, <1>6, <1>7

\* The recursion over the subsets of a finite domain defines a function.
LEMMA SumOnExists ==
    ASSUME NEW D, IsFiniteSet(D), NEW f, DOMAIN f = D
    PROVE  SumOn(f) = [s \in SUBSET D |-> StepSum(f, SumOn(f), s)]
<1> DEFINE Level(n) == {s \in SUBSET D : Cardinality(s) <= n}
           Good(n) == \E g : g = [s \in Level(n) |-> StepSum(f, g, s)]
           Bad == {n \in Nat : ~Good(n)}
<1>1. ASSUME NEW s \in SUBSET D
      PROVE  /\ IsFiniteSet(s) /\ Cardinality(s) \in Nat
             /\ Cardinality(s) <= Cardinality(D)
  BY FS_Subset, FS_CardinalityType
<1>2. Good(0)
  <2>1. ASSUME NEW s \in Level(0) PROVE s = {}
    BY <1>1, FS_EmptySet
  <2> DEFINE g == [s \in Level(0) |-> 0]
  <2>2. g = [s \in Level(0) |-> StepSum(f, g, s)]
    BY <2>1 DEF StepSum
  <2> QED BY <2>2
<1>3. ASSUME NEW n \in Nat, Good(n) PROVE Good(n + 1)
  <2>1. PICK g : g = [s \in Level(n) |-> StepSum(f, g, s)]
    BY <1>3
  <2> DEFINE h == [s \in Level(n + 1) |-> StepSum(f, g, s)]
  <2>2. ASSUME NEW s \in Level(n + 1), s # {}
        PROVE  s \ {Chosen(s)} \in Level(n)
    <3>1. Chosen(s) \in s
      BY <2>2 DEF Chosen
    <3>2. Cardinality(s \ {Chosen(s)}) = Cardinality(s) - 1
      BY <1>1, <3>1, FS_RemoveElement
    <3> QED BY <1>1, <3>2
  <2>3. ASSUME NEW s \in Level(n) PROVE s \in Level(n + 1) /\ h[s] = g[s]
    <3>1. s \in Level(n + 1)
      BY <1>1
    <3>2. h[s] = StepSum(f, g, s) /\ g[s] = StepSum(f, g, s)
      BY <2>1, <3>1, Zenon
    <3> QED BY <3>1, <3>2
  <2>4. ASSUME NEW s \in Level(n + 1) PROVE StepSum(f, g, s) = StepSum(f, h, s)
    BY <2>2, <2>3, Zenon DEF StepSum
  <2>5. h = [s \in Level(n + 1) |-> StepSum(f, h, s)]
    BY <2>4, Zenon
  <2> QED BY <2>5
<1>4. Bad = {}
  <2> SUFFICES ASSUME Bad # {} PROVE FALSE
    OBVIOUS
  <2> HIDE DEF Good
  <2>1. PICK n \in Bad : \A m \in Bad : n <= m
    BY Least
  <2>2. n \in Nat /\ n # 0 /\ n - 1 \in Nat /\ n - 1 \notin Bad
    BY <1>2, <2>1
  <2>3. Good(n - 1)
    BY <2>2
  <2>4. Good((n - 1) + 1)
    BY <1>3, <2>2, <2>3
  <2> QED BY <2>2, <2>4
<1>5. Cardinality(D) \in Nat /\ Level(Cardinality(D)) = SUBSET D
  BY <1>1
<1>6. \E g : g = [s \in SUBSET D |-> StepSum(f, g, s)]
  <2>1. Good(Cardinality(D))
    BY <1>4, <1>5
  <2> HIDE DEF Level
  <2> QED BY <2>1, <1>5
<1> QED BY <1>6, Zenon DEF SumOn

\* The sum over nothing, and over a part with one element taken out.
Unrolled(f) ==
    /\ SumOn(f)[{}] = 0
    /\ \A s \in SUBSET (DOMAIN f) :
         s # {} => /\ Chosen(s) \in s
                   /\ SumOn(f)[s] = f[Chosen(s)] + SumOn(f)[s \ {Chosen(s)}]

\* On a finite domain the sum unrolls so.
LEMMA SumUnrolls ==
    ASSUME NEW D, IsFiniteSet(D), NEW f \in [D -> Int]
    PROVE  Unrolled(f) /\ DOMAIN f = D
<1> SUFFICES ASSUME NEW s \in SUBSET D
             PROVE  /\ SumOn(f)[s] = StepSum(f, SumOn(f), s)
                    /\ s # {} => Chosen(s) \in s
  BY DEF Unrolled, StepSum
<1>1. \A g : g = [t \in SUBSET D |-> StepSum(f, SumOn(f), t)] =>
            g[s] = StepSum(f, SumOn(f), s)
  OBVIOUS
<1>2. DOMAIN f = D
  OBVIOUS
<1>3. SumOn(f)[s] = StepSum(f, SumOn(f), s)
  BY <1>1, <1>2, SumOnExists, Zenon
<1>4. s # {} => Chosen(s) \in s
  BY DEF Chosen
<1> QED BY <1>3, <1>4

\* A sum of integers is an integer.
LEMMA SumOnType ==
    ASSUME NEW D, IsFiniteSet(D), NEW f \in [D -> Int]
    PROVE  \A s \in SUBSET D : SumOn(f)[s] \in Int
<1> DEFINE B == {s \in SUBSET D : SumOn(f)[s] \notin Int}
<1> SUFFICES ASSUME B # {} PROVE FALSE
  OBVIOUS
<1>1. PICK s \in B : \A x \in s : s \ {x} \notin B
  BY MinimalSet
<1> HIDE DEF B
<1>2. s \in SUBSET D /\ SumOn(f)[s] \notin Int
  BY DEF B
<1>3. Unrolled(f) /\ DOMAIN f = D
  BY SumUnrolls, Zenon
<1>4. s # {} => SumOn(f)[s \ {Chosen(s)}] \in Int
  BY <1>1, <1>2, <1>3 DEF B, Unrolled
<1>5. s # {} => Chosen(s) \in D /\ f[Chosen(s)] \in Int
  BY <1>2, <1>3 DEF Unrolled
<1>6. s # {} => SumOn(f)[s] = f[Chosen(s)] + SumOn(f)[s \ {Chosen(s)}]
  BY <1>2, <1>3 DEF Unrolled
<1>7. s = {} => SumOn(f)[s] = 0
  BY <1>3 DEF Unrolled
<1> QED BY <1>2, <1>4, <1>5, <1>6, <1>7

\* Adding two functions pointwise adds their sums.
LEMMA SumAdds ==
    ASSUME NEW D, IsFiniteSet(D), NEW f \in [D -> Int], NEW g \in [D -> Int],
           NEW h \in [D -> Int], \A x \in D : h[x] = f[x] + g[x]
    PROVE  Sum(f) \in Int /\ Sum(g) \in Int /\ Sum(h) = Sum(f) + Sum(g)
<1> DEFINE B == {s \in SUBSET D : SumOn(h)[s] # SumOn(f)[s] + SumOn(g)[s]}
<1>0. /\ Unrolled(f) /\ DOMAIN f = D /\ Unrolled(g) /\ DOMAIN g = D
      /\ Unrolled(h) /\ DOMAIN h = D
  BY SumUnrolls, Zenon
<1>1. B = {}
  <2> SUFFICES ASSUME B # {} PROVE FALSE
    OBVIOUS
  <2>1. PICK s \in B : \A x \in s : s \ {x} \notin B
    BY MinimalSet
  <2> HIDE DEF B
  <2>2. s \in SUBSET D /\ SumOn(h)[s] # SumOn(f)[s] + SumOn(g)[s]
    BY DEF B
  <2>3. CASE s = {}
    BY <2>2, <1>0, <2>3 DEF Unrolled
  <2>4. CASE s # {}
    <3> DEFINE c == Chosen(s) t == s \ {Chosen(s)}
    <3>1. c \in s /\ c \in D /\ t \in SUBSET D
      BY <2>2, <2>4, <1>0 DEF Unrolled
    <3>2. SumOn(h)[t] = SumOn(f)[t] + SumOn(g)[t]
      BY <2>1, <3>1 DEF B
    <3>3. /\ SumOn(h)[s] = h[c] + SumOn(h)[t]
          /\ SumOn(f)[s] = f[c] + SumOn(f)[t]
          /\ SumOn(g)[s] = g[c] + SumOn(g)[t]
      BY <2>2, <2>4, <1>0 DEF Unrolled
    <3>4. SumOn(f)[t] \in Int /\ SumOn(g)[t] \in Int /\ h[c] = f[c] + g[c]
          /\ f[c] \in Int /\ g[c] \in Int
      BY <3>1, SumOnType
    <3> QED BY <2>2, <3>2, <3>3, <3>4
  <2> QED BY <2>3, <2>4
<1>2. SumOn(h)[D] = SumOn(f)[D] + SumOn(g)[D]
  BY <1>1
<1>3. DOMAIN f = D /\ DOMAIN g = D /\ DOMAIN h = D
  OBVIOUS
<1> QED BY <1>2, <1>3, SumFolds, SumOnType

\* The sum of amounts of which at most one is not zero is that one.
LEMMA SumOfOne ==
    ASSUME NEW D, IsFiniteSet(D), NEW f \in [D -> Int], NEW r \in D,
           \A x \in D : x # r => f[x] = 0
    PROVE  Sum(f) = f[r]
<1> DEFINE B == {s \in SUBSET D : SumOn(f)[s] # IF r \in s THEN f[r] ELSE 0}
<1>0. Unrolled(f) /\ DOMAIN f = D
  BY SumUnrolls, Zenon
<1>1. B = {}
  <2> SUFFICES ASSUME B # {} PROVE FALSE
    OBVIOUS
  <2>1. PICK s \in B : \A x \in s : s \ {x} \notin B
    BY MinimalSet
  <2> HIDE DEF B
  <2>2. s \in SUBSET D /\ SumOn(f)[s] # IF r \in s THEN f[r] ELSE 0
    BY DEF B
  <2>3. CASE s = {}
    BY <2>2, <1>0, <2>3 DEF Unrolled
  <2>4. CASE s # {}
    <3> DEFINE c == Chosen(s) t == s \ {Chosen(s)}
    <3>1. c \in s /\ c \in D /\ t \in SUBSET D
      BY <2>2, <2>4, <1>0 DEF Unrolled
    <3>2. SumOn(f)[t] = IF r \in t THEN f[r] ELSE 0
      BY <2>1, <3>1 DEF B
    <3>3. SumOn(f)[s] = f[c] + SumOn(f)[t]
      BY <2>2, <2>4, <1>0 DEF Unrolled
    <3>4. f[c] \in Int /\ f[r] \in Int
      BY <3>1
    <3> QED BY <2>2, <3>1, <3>2, <3>3, <3>4
  <2> QED BY <2>3, <2>4
<1>2. SumOn(f)[D] = f[r]
  BY <1>1
<1> QED BY <1>2, SumFolds

\* A sum of amounts none of which exceeds m is at most m for each of them.
LEMMA SumBounded ==
    ASSUME NEW D, IsFiniteSet(D), NEW f \in [D -> Int], NEW m \in Int,
           \A x \in D : f[x] <= m
    PROVE  Sum(f) <= Cardinality(D) * m
<1> DEFINE B == {s \in SUBSET D : ~(SumOn(f)[s] <= Cardinality(s) * m)}
<1>0. Unrolled(f) /\ DOMAIN f = D
  BY SumUnrolls, Zenon
<1>1. B = {}
  <2> SUFFICES ASSUME B # {} PROVE FALSE
    OBVIOUS
  <2>1. PICK s \in B : \A x \in s : s \ {x} \notin B
    BY MinimalSet
  <2> HIDE DEF B
  <2>2. s \in SUBSET D /\ ~(SumOn(f)[s] <= Cardinality(s) * m)
    BY DEF B
  <2>3. CASE s = {}
    BY <2>2, <1>0, <2>3, FS_EmptySet DEF Unrolled
  <2>4. CASE s # {}
    <3> DEFINE c == Chosen(s) t == s \ {Chosen(s)}
    <3>1. c \in s /\ c \in D /\ t \in SUBSET D
      BY <2>2, <2>4, <1>0 DEF Unrolled
    <3>2. SumOn(f)[t] <= Cardinality(t) * m
      BY <2>1, <3>1 DEF B
    <3>3. SumOn(f)[s] = f[c] + SumOn(f)[t] /\ f[c] <= m
      BY <2>2, <2>4, <3>1, <1>0 DEF Unrolled
    <3>4. f[c] \in Int /\ SumOn(f)[t] \in Int
      BY <3>1, SumOnType
    <3>5. Cardinality(t) = Cardinality(s) - 1 /\ Cardinality(s) \in Nat
      BY <2>2, <3>1, FS_Subset, FS_RemoveElement, FS_CardinalityType
    <3> DEFINE n == Cardinality(t) a == SumOn(f)[t] b == f[c]
    <3>6. n \in Int /\ Cardinality(s) = n + 1
      BY <3>5
    <3>7. (n + 1) * m = n * m + m
      BY <3>6
    <3> QED BY <2>2, <3>2, <3>3, <3>4, <3>6, <3>7
  <2> QED BY <2>3, <2>4
<1>2. SumOn(f)[D] <= Cardinality(D) * m
  BY <1>1
<1> QED BY <1>2, SumFolds

\* Replacing one amount moves the sum by the difference.
LEMMA SumChanges ==
    ASSUME NEW D, IsFiniteSet(D), NEW f \in [D -> Int], NEW h \in [D -> Int],
           NEW r \in D, \A x \in D : x # r => h[x] = f[x]
    PROVE  Sum(h) = Sum(f) - f[r] + h[r]
<1>1. PICK g \in [D -> Int] : \A x \in D : g[x] = h[x] - f[x]
  <2>1. [x \in D |-> h[x] - f[x]] \in [D -> Int]
    OBVIOUS
  <2>2. QED
    BY <2>1
<1>2. \A x \in D : h[x] = f[x] + g[x]
  BY <1>1
<1>3. \A x \in D : x # r => g[x] = 0
  BY <1>1
<1>4. Sum(g) = g[r]
  BY <1>3, SumOfOne
<1>5. Sum(f) \in Int /\ Sum(h) = Sum(f) + Sum(g)
  BY <1>2, SumAdds
<1>6. f[r] \in Int /\ h[r] \in Int /\ g[r] = h[r] - f[r]
  BY <1>1
<1>7. QED
  BY <1>4, <1>5, <1>6

\* Amounts moved from one table to another keep their sum.
LEMMA SumsAgree ==
    ASSUME NEW D, IsFiniteSet(D), NEW f \in [D -> Int], NEW s \in [D -> Int],
           NEW g \in [D -> Int], NEW u \in [D -> Int],
           \A x \in D : f[x] + s[x] = g[x] + u[x]
    PROVE  Sum(g) + Sum(u) = Sum(f) + Sum(s)
<1>1. PICK h \in [D -> Int] : \A x \in D : h[x] = f[x] + s[x]
  <2>1. [x \in D |-> f[x] + s[x]] \in [D -> Int]
    OBVIOUS
  <2>2. QED
    BY <2>1
<1>2. \A x \in D : h[x] = g[x] + u[x]
  BY <1>1
<1>3. Sum(h) = Sum(f) + Sum(s)
  BY <1>1, SumAdds
<1>4. Sum(h) = Sum(g) + Sum(u)
  BY <1>2, SumAdds
<1>5. QED
  BY <1>3, <1>4

\* The sum of nothing but zeros is zero.
LEMMA SumOfZeros ==
    ASSUME NEW D, IsFiniteSet(D), NEW f \in [D -> Int], \A x \in D : f[x] = 0
    PROVE  Sum(f) = 0
<1>1. \A x \in D : f[x] = f[x] + f[x]
  OBVIOUS
<1>2. Sum(f) \in Int /\ Sum(f) = Sum(f) + Sum(f)
  BY <1>1, SumAdds
<1>3. QED
  BY <1>2

\* A sum of amounts none of which is negative is not negative.
LEMMA SumNatural ==
    ASSUME NEW D, IsFiniteSet(D), NEW f \in [D -> Int], \A x \in D : 0 <= f[x]
    PROVE  0 <= Sum(f)
<1>1. PICK g \in [D -> Int] : \A x \in D : g[x] = -f[x]
  <2>1. [x \in D |-> -f[x]] \in [D -> Int]
    OBVIOUS
  <2>2. QED
    BY <2>1
<1>2. PICK z \in [D -> Int] : \A x \in D : z[x] = 0
  <2>1. [x \in D |-> 0] \in [D -> Int]
    OBVIOUS
  <2>2. QED
    BY <2>1
<1>3. \A x \in D : z[x] = f[x] + g[x]
  BY <1>1, <1>2
<1>4. Sum(f) \in Int /\ Sum(g) \in Int /\ Sum(z) = Sum(f) + Sum(g)
  BY <1>3, SumAdds
<1>5. Sum(z) = 0
  BY <1>2, SumOfZeros
<1>6. \A x \in D : g[x] <= 0
  BY <1>1
<1>7. Sum(g) <= Cardinality(D) * 0
  BY <1>6, SumBounded
<1>8. Cardinality(D) * 0 = 0
  BY FS_CardinalityType
<1>9. QED
  BY <1>4, <1>5, <1>7, <1>8

-----------------------------------------------------------------------------
(* Types of what the writes and moves of a request change. *)

USE TokensAssumption, AmountsAssumption

LEMMA AddType ==
    ASSUME TypeOK, NEW c \in Columns, NEW v \in Int, Add(c, v)
    PROVE  db' \in [Columns -> Int] /\ store' \in [Columns -> Int]
BY DEF TypeOK, Add

LEMMA AddFailsType ==
    ASSUME TypeOK, AddFails
    PROVE  /\ db' \in [Columns -> Int] /\ store' \in [Columns -> Int]
           /\ dbErrs' \in Nat
BY DEF TypeOK, AddFails

LEMMA IdleType == Idle \in Request
BY DEF Idle, Request, PCs

LEMMA OutType ==
    ASSUME NEW l, NEW q \in Request
    PROVE  Out(l, q) \in Int /\ UserOut(q) \in Int /\ TokenOut(q) \in Int
BY DEF Request, Out, UserOut, TokenOut

LEMMA StrandType ==
    ASSUME TypeOK, NEW r \in Requests, NEW L, Strand(L, r)
    PROVE  stranded' \in [Ledgers -> [Requests -> Int]]
BY OutType DEF TypeOK, Strand

-----------------------------------------------------------------------------
(* Control: a step moves one request, and moves it as ControlOK says. *)

\* What ControlOK says of one request record.
Sound(q) ==
    /\ q.pc \in {"exhaust", "check_token", "hold_token", "post_token"}
          => q.tok \in Tokens
    /\ q.pc \in {"check_token", "hold_token", "hold_user"} => q.pre > 0
    /\ q.pc \in {"post_user", "post_token"} => q.delta # 0
    /\ q.pc = "check_user" => q.final = 0

LEMMA IdleSound == Sound(Idle)
BY DEF Sound, Idle

\* Replacing one record by a sound one keeps the table typed and sound.
LEMMA MoveOne ==
    ASSUME TypeOK, ControlOK, NEW r \in Requests, NEW q \in Request, Sound(q),
           req' = [req EXCEPT ![r] = q]
    PROVE  req' \in [Requests -> Request] /\ ControlOK'
<1>1. req' \in [Requests -> Request]
  BY DEF TypeOK
<1>2. ASSUME NEW x \in Requests
      PROVE  Sound(req'[x])
  <2>1. CASE x = r
    BY <2>1 DEF TypeOK
  <2>2. CASE x # r
    BY <2>2 DEF TypeOK, ControlOK, Sound
  <2>3. QED
    BY <2>1, <2>2
<1>3. QED
  BY <1>1, <1>2 DEF ControlOK, Sound

LEMMA FinishSound ==
    ASSUME TypeOK, ControlOK, NEW r \in Requests, Finish(r)
    PROVE  req' \in [Requests -> Request] /\ ControlOK'
BY MoveOne, IdleType, IdleSound DEF Finish

LEMMA GotoSound ==
    ASSUME TypeOK, ControlOK, NEW r \in Requests, NEW label \in PCs,
           Goto(r, label),
           label \in {"check_token", "hold_token", "post_token"}
              => req[r].tok \in Tokens,
           label \in {"check_token", "hold_token", "hold_user"}
              => req[r].pre > 0,
           label = "post_token" => req[r].delta # 0,
           label \notin {"exhaust", "post_user", "check_user"}
    PROVE  req' \in [Requests -> Request] /\ ControlOK'
<1> DEFINE q == [req[r] EXCEPT !.pc = label]
<1>1. req[r] \in Request
  BY DEF TypeOK
<1>2. q \in Request
  BY <1>1 DEF Request
<1>3. q.pc = label /\ q.tok = req[r].tok /\ q.pre = req[r].pre
        /\ q.delta = req[r].delta
  BY <1>1 DEF Request
<1>4. Sound(q)
  BY <1>3 DEF Sound, PCs
<1>5. req' = [req EXCEPT ![r] = q]
  BY DEF Goto
<1>6. QED
  BY <1>2, <1>4, <1>5, MoveOne

LEMMA AdmitSound ==
    ASSUME TypeOK, ControlOK, NEW r \in Requests, NEW a \in Nat, Admit(r, a)
    PROVE  req' \in [Requests -> Request] /\ ControlOK'
<1> DEFINE q == [req[r] EXCEPT !.pc = "upstream", !.final = a]
<1>1. req[r] \in Request
  BY DEF TypeOK
<1>2. q \in Request /\ q.pc = "upstream"
  BY <1>1 DEF Request, PCs
<1>3. Sound(q)
  BY <1>2 DEF Sound
<1>4. QED
  BY <1>2, <1>3, MoveOne DEF Admit

LEMMA PostSound ==
    ASSUME TypeOK, ControlOK, NEW r \in Requests, NEW v \in Int, Post(r, v)
    PROVE  req' \in [Requests -> Request] /\ ControlOK'
<1> DEFINE q == [req[r] EXCEPT !.pc = "post_user", !.delta = v]
<1>1. CASE v = 0
  BY <1>1, FinishSound DEF Post
<1>2. CASE v # 0
  <2>1. req[r] \in Request
    BY DEF TypeOK
  <2>2. q \in Request /\ q.pc = "post_user" /\ q.delta = v
    BY <2>1 DEF Request, PCs
  <2>3. Sound(q)
    BY <1>2, <2>2 DEF Sound
  <2>4. req' = [req EXCEPT ![r] = q]
    BY <1>2 DEF Post
  <2>5. QED
    BY <2>2, <2>3, <2>4, MoveOne
<1>3. QED
  BY <1>1, <1>2

-----------------------------------------------------------------------------
(* One lemma per action: it keeps the types and the control invariant. *)

LEMMA InitInv == Init => TypeOK /\ ControlOK
<1> SUFFICES ASSUME Init PROVE TypeOK /\ ControlOK
  OBVIOUS
<1>1. TypeOK
  BY IdleType DEF Init, TypeOK, Zero, Columns, Ledgers
<1>2. ControlOK
  BY DEF Init, ControlOK, Idle
<1>3. QED
  BY <1>1, <1>2

LEMMA TokenAuthInv ==
    ASSUME TypeOK, ControlOK, NEW r \in Requests, NEW t \in Tokens,
           NEW p \in Estimates, TokenAuth(r, t, p)
    PROVE  TypeOK' /\ ControlOK'
<1> DEFINE lab == IF t \notin UnlimitedTokens /\ db[t] <= 0
                  THEN "exhaust" ELSE "check_user"
           seen == IF t \in UnlimitedTokens THEN 0 ELSE db[t]
           q == [Idle EXCEPT !.pc = lab, !.tok = t, !.pre = p,
                             !.tokenQuota = seen]
<1>1. /\ db[t] \in Int /\ seen \in Int /\ p \in Nat
      /\ lab \in PCs /\ t \in Tokens \cup {NoToken}
  <2>1. db[t] \in Int
    BY DEF TypeOK, Columns
  <2>2. p \in Nat
    OBVIOUS
  <2>3. lab \in PCs
    BY DEF PCs
  <2>4. QED
    BY <2>1, <2>2, <2>3
<1>2. q \in Request
  <2> HIDE DEF lab, seen
  <2>1. QED
    BY <1>1, IdleType DEF Request
<1>3. Sound(q)
  BY DEF Sound, Idle
<1>4. req' = [req EXCEPT ![r] = q]
  BY DEF TokenAuth
<1>5. req' \in [Requests -> Request] /\ ControlOK'
  BY <1>2, <1>3, <1>4, MoveOne
<1>6. QED
  BY <1>5 DEF TokenAuth, TypeOK

LEMMA PlaygroundAuthInv ==
    ASSUME TypeOK, ControlOK, NEW r \in Requests, NEW p \in Estimates,
           PlaygroundAuth(r, p)
    PROVE  TypeOK' /\ ControlOK'
<1> DEFINE q == [Idle EXCEPT !.pc = "check_user", !.pre = p]
<1>1. q \in Request
  <2>1. "check_user" \in PCs /\ p \in Nat
    BY DEF PCs
  <2>2. QED
    BY <2>1, IdleType DEF Request
<1>2. Sound(q)
  BY DEF Sound, Idle
<1>3. req' \in [Requests -> Request] /\ ControlOK'
  BY <1>1, <1>2, MoveOne DEF PlaygroundAuth
<1>4. QED
  BY <1>3 DEF PlaygroundAuth, TypeOK

LEMMA MarkExhaustedInv ==
    ASSUME TypeOK, ControlOK, NEW r \in Requests, MarkExhausted(r)
    PROVE  TypeOK' /\ ControlOK'
<1>1. req' \in [Requests -> Request] /\ ControlOK'
  BY FinishSound DEF MarkExhausted
<1>2. QED
  BY <1>1 DEF MarkExhausted, TypeOK

LEMMA SkipPreConsumeInv ==
    ASSUME TypeOK, ControlOK, NEW r \in Requests, SkipPreConsume(r)
    PROVE  TypeOK' /\ ControlOK'
<1> DEFINE q == [req[r] EXCEPT !.pc = "upstream", !.free = TRUE]
<1>1. req[r] \in Request
  BY DEF TypeOK
<1>2. q \in Request /\ q.pc = "upstream"
  BY <1>1 DEF Request, PCs
<1>3. Sound(q)
  BY <1>2 DEF Sound
<1>4. req' \in [Requests -> Request] /\ ControlOK'
  BY <1>2, <1>3, MoveOne DEF SkipPreConsume
<1>5. QED
  BY <1>4 DEF SkipPreConsume, TypeOK

LEMMA CheckUserQuotaInv ==
    ASSUME TypeOK, ControlOK, NEW r \in Requests, CheckUserQuota(r)
    PROVE  TypeOK' /\ ControlOK'
<1>1. req[r] \in Request
  BY DEF TypeOK
<1>2. CASE Finish(r)
  BY <1>2, FinishSound DEF CheckUserQuota, TypeOK
<1>3. CASE Admit(r, 0)
  BY <1>3, AdmitSound DEF CheckUserQuota, TypeOK
<1>4. CASE /\ req[r].pre > 0
           /\ Goto(r, IF Playground(r) THEN "hold_user" ELSE "check_token")
  <2>1. CASE Playground(r)
    <3>1. Goto(r, "hold_user") /\ "hold_user" \in PCs
      BY <1>4, <2>1 DEF PCs
    <3>2. req' \in [Requests -> Request] /\ ControlOK'
      BY <3>1, <1>4, GotoSound
    <3>3. QED
      BY <3>2 DEF CheckUserQuota, TypeOK
  <2>2. CASE ~Playground(r)
    <3>1. Goto(r, "check_token") /\ "check_token" \in PCs
      BY <1>4, <2>2 DEF PCs
    <3>2. req[r].tok \in Tokens
      BY <1>1, <2>2 DEF Request, Playground
    <3>3. req' \in [Requests -> Request] /\ ControlOK'
      BY <3>1, <3>2, <1>4, GotoSound
    <3>4. QED
      BY <3>3 DEF CheckUserQuota, TypeOK
  <2>3. QED
    BY <2>1, <2>2
<1>5. QED
  BY <1>2, <1>3, <1>4 DEF CheckUserQuota

LEMMA CheckTokenQuotaInv ==
    ASSUME TypeOK, ControlOK, NEW r \in Requests, CheckTokenQuota(r)
    PROVE  TypeOK' /\ ControlOK'
<1>1. req[r].tok \in Tokens /\ req[r].pre > 0
  BY DEF CheckTokenQuota, ControlOK
<1>2. CASE Finish(r)
  BY <1>2, FinishSound DEF CheckTokenQuota, TypeOK
<1>3. CASE Goto(r, "hold_token")
  <2>1. "hold_token" \in PCs
    BY DEF PCs
  <2>2. req' \in [Requests -> Request] /\ ControlOK'
    BY <1>1, <1>3, <2>1, GotoSound
  <2>3. QED
    BY <2>2 DEF CheckTokenQuota, TypeOK
<1>4. QED
  BY <1>2, <1>3 DEF CheckTokenQuota

LEMMA HoldTokenInv ==
    ASSUME TypeOK, ControlOK, NEW r \in Requests, HoldToken(r)
    PROVE  TypeOK' /\ ControlOK'
<1>1. /\ req[r].tok \in Columns /\ req[r].tok \in Tokens
      /\ req[r].pre > 0 /\ -req[r].pre \in Int
  BY DEF HoldToken, ControlOK, Columns, TypeOK, Request
<1>2. CASE Add(req[r].tok, -req[r].pre) /\ Goto(r, "hold_user") /\ UNCHANGED dbErrs
  <2>1. "hold_user" \in PCs
    BY DEF PCs
  <2>2. req' \in [Requests -> Request] /\ ControlOK'
    BY <1>1, <1>2, <2>1, GotoSound
  <2>3. db' \in [Columns -> Int] /\ store' \in [Columns -> Int]
    BY <1>1, <1>2, AddType
  <2>4. QED
    BY <1>2, <2>2, <2>3 DEF HoldToken, TypeOK
<1>3. CASE AddFails /\ Finish(r)
  BY <1>3, AddFailsType, FinishSound DEF HoldToken, TypeOK
<1>4. QED
  BY <1>2, <1>3 DEF HoldToken

LEMMA HoldUserInv ==
    ASSUME TypeOK, ControlOK, NEW r \in Requests, HoldUser(r)
    PROVE  TypeOK' /\ ControlOK'
<1>1. req[r].pre \in Nat /\ -req[r].pre \in Int /\ "quota" \in Columns
  BY DEF TypeOK, Request, Columns
<1>2. CASE /\ Add("quota", -req[r].pre) /\ Admit(r, req[r].pre)
           /\ UNCHANGED <<dbErrs, stranded>>
  <2>1. req' \in [Requests -> Request] /\ ControlOK'
    BY <1>1, <1>2, AdmitSound
  <2>2. db' \in [Columns -> Int] /\ store' \in [Columns -> Int]
    BY <1>1, <1>2, AddType
  <2>3. QED
    BY <1>2, <2>1, <2>2 DEF HoldUser, TypeOK
<1>3. CASE AddFails /\ Finish(r) /\ Strand({req[r].tok}, r)
  BY <1>3, AddFailsType, FinishSound, StrandType DEF HoldUser, TypeOK
<1>4. QED
  BY <1>2, <1>3 DEF HoldUser

LEMMA RetryUpstreamInv ==
    ASSUME TypeOK, ControlOK, NEW r \in Requests, RetryUpstream(r)
    PROVE  TypeOK' /\ ControlOK'
<1> DEFINE q == [req[r] EXCEPT !.attempt = @ + 1]
<1>1. req[r] \in Request /\ req[r].pc = "upstream"
  BY DEF TypeOK, RetryUpstream
<1>2. q \in Request /\ q.pc = "upstream"
  BY <1>1 DEF Request
<1>3. Sound(q)
  BY <1>2 DEF Sound
<1>4. req' \in [Requests -> Request] /\ ControlOK'
  BY <1>2, <1>3, MoveOne DEF RetryUpstream
<1>5. QED
  BY <1>4 DEF RetryUpstream, TypeOK

LEMMA HangUpstreamInv ==
    ASSUME TypeOK, ControlOK, NEW r \in Requests, HangUpstream(r)
    PROVE  TypeOK' /\ ControlOK'
<1> DEFINE q == [req[r] EXCEPT !.hung = TRUE]
<1>1. req[r] \in Request /\ req[r].pc = "upstream"
  BY DEF TypeOK, HangUpstream
<1>2. q \in Request /\ q.pc = "upstream"
  BY <1>1 DEF Request
<1>3. Sound(q)
  BY <1>2 DEF Sound
<1>4. req' \in [Requests -> Request] /\ ControlOK'
  BY <1>2, <1>3, MoveOne DEF HangUpstream
<1>5. QED
  BY <1>4 DEF HangUpstream, TypeOK

LEMMA FailUpstreamInv ==
    ASSUME TypeOK, ControlOK, NEW r \in Requests, FailUpstream(r)
    PROVE  TypeOK' /\ ControlOK'
<1>1. -req[r].final \in Int
  BY DEF TypeOK, Request
<1>2. req' \in [Requests -> Request] /\ ControlOK'
  BY <1>1, PostSound DEF FailUpstream
<1>3. QED
  BY <1>2 DEF FailUpstream, TypeOK

LEMMA ServeUpstreamInv ==
    ASSUME TypeOK, ControlOK, NEW r \in Requests, NEW price \in Prices,
           ServeUpstream(r, price)
    PROVE  TypeOK' /\ ControlOK'
<1>1. price \in Nat /\ price - req[r].final \in Int /\ "used" \in Columns
  <2>1. price \in Nat /\ "used" \in Columns
    BY DEF Columns
  <2>2. req[r].final \in Nat
    BY DEF TypeOK, Request
  <2>3. QED
    BY <2>1, <2>2
<1>2. req' \in [Requests -> Request] /\ ControlOK'
  BY <1>1, PostSound DEF ServeUpstream
<1>3. /\ db' \in [Columns -> Int] /\ store' \in [Columns -> Int]
      /\ dbErrs' \in Nat /\ dropped' \in [Columns -> Int]
  <2>1. CASE Add("used", price) /\ UNCHANGED <<dbErrs, dropped>>
    <3>1. db' \in [Columns -> Int] /\ store' \in [Columns -> Int]
      BY <1>1, <2>1, AddType
    <3>2. QED
      BY <2>1, <3>1 DEF TypeOK
  <2>2. CASE AddFails /\ dropped' = [dropped EXCEPT !["used"] = @ + price]
    <3>1. dropped' \in [Columns -> Int]
      BY <1>1, <2>2 DEF TypeOK
    <3>2. QED
      BY <2>2, <3>1, AddFailsType
  <2>3. QED
    BY <2>1, <2>2 DEF ServeUpstream
<1>4. tokenBilled' \in [Tokens -> Nat] /\ unchecked' \in Nat
  BY <1>1 DEF ServeUpstream, TypeOK
<1>5. QED
  BY <1>2, <1>3, <1>4 DEF ServeUpstream, TypeOK

LEMMA PostUserInv ==
    ASSUME TypeOK, ControlOK, NEW r \in Requests, PostUser(r)
    PROVE  TypeOK' /\ ControlOK'
<1>1. /\ req[r] \in Request /\ -req[r].delta \in Int /\ "quota" \in Columns
      /\ req[r].delta # 0
  BY DEF TypeOK, Request, Columns, PostUser, ControlOK
<1>2. CASE /\ Add("quota", -req[r].delta)
           /\ IF Playground(r) THEN Finish(r) ELSE Goto(r, "post_token")
           /\ UNCHANGED <<dbErrs, stranded>>
  <2>1. db' \in [Columns -> Int] /\ store' \in [Columns -> Int]
    BY <1>1, <1>2, AddType
  <2>2. req' \in [Requests -> Request] /\ ControlOK'
    <3>1. CASE Playground(r)
      BY <1>2, <3>1, FinishSound
    <3>2. CASE ~Playground(r)
      <4>1. req[r].tok \in Tokens /\ "post_token" \in PCs
        BY <1>1, <3>2 DEF Playground, Request, PCs
      <4>2. Goto(r, "post_token")
        BY <1>2, <3>2
      <4>3. QED
        BY <1>1, <4>1, <4>2, GotoSound
    <3>3. QED
      BY <3>1, <3>2
  <2>3. QED
    BY <1>2, <2>1, <2>2 DEF PostUser, TypeOK
<1>3. CASE AddFails /\ Finish(r) /\ Strand({"quota", req[r].tok}, r)
  BY <1>3, AddFailsType, FinishSound, StrandType DEF PostUser, TypeOK
<1>4. QED
  BY <1>2, <1>3 DEF PostUser

LEMMA PostTokenInv ==
    ASSUME TypeOK, ControlOK, NEW r \in Requests, PostToken(r)
    PROVE  TypeOK' /\ ControlOK'
<1>1. req[r].tok \in Columns /\ -req[r].delta \in Int
  BY DEF TypeOK, Request, Columns, PostToken, ControlOK
<1>2. req' \in [Requests -> Request] /\ ControlOK'
  BY FinishSound DEF PostToken
<1>3. CASE Add(req[r].tok, -req[r].delta) /\ UNCHANGED <<dbErrs, stranded>>
  BY <1>1, <1>2, <1>3, AddType DEF PostToken, TypeOK
<1>4. CASE AddFails /\ Strand({req[r].tok}, r)
  BY <1>2, <1>4, AddFailsType, StrandType DEF PostToken, TypeOK
<1>5. QED
  BY <1>3, <1>4 DEF PostToken

LEMMA SwapNextTypeInv ==
    ASSUME TypeOK, ControlOK, SwapNextType
    PROVE  TypeOK' /\ ControlOK'
<1>1. phase' \in 0..3
  BY DEF TypeOK, SwapNextType
<1>2. drain' \in [Columns -> Int] /\ store' \in [Columns -> Int]
  BY DEF TypeOK, SwapNextType
<1>3. ControlOK'
  BY DEF ControlOK, SwapNextType
<1>4. QED
  BY <1>1, <1>2, <1>3 DEF TypeOK, SwapNextType

LEMMA ApplyChangeInv ==
    ASSUME TypeOK, ControlOK, NEW c \in Columns, ApplyChange(c)
    PROVE  TypeOK' /\ ControlOK'
<1>1. ControlOK'
  BY DEF ControlOK, ApplyChange
<1>2. drain' \in [Columns -> Int]
  BY DEF TypeOK, ApplyChange
<1>3. /\ db' \in [Columns -> Int] /\ dbErrs' \in Nat
      /\ dropped' \in [Columns -> Int]
  BY DEF TypeOK, ApplyChange
<1>4. QED
  BY <1>1, <1>2, <1>3 DEF TypeOK, ApplyChange

LEMMA CrashInv ==
    ASSUME TypeOK, ControlOK, Crash
    PROVE  TypeOK' /\ ControlOK'
<1>1. req' \in [Requests -> Request]
  BY IdleType DEF Crash
<1>2. ControlOK'
  BY DEF Crash, ControlOK, Idle
<1>3. stranded' \in [Ledgers -> [Requests -> Int]]
  BY OutType DEF Crash, TypeOK
<1>4. /\ dropped' \in [Columns -> Int] /\ store' \in [Columns -> Int]
      /\ drain' \in [Columns -> Int]
  BY DEF Crash, TypeOK, Zero
<1>5. QED
  BY <1>1, <1>2, <1>3, <1>4 DEF Crash, TypeOK

\* In every reachable state all variables have their types, and a request in
\* a given control state has the token, the estimate or the change that the
\* code after that point takes for granted.
THEOREM TypeCorrect == Spec => [](TypeOK /\ ControlOK)
<1>1. TypeOK /\ ControlOK /\ [Next]_vars => TypeOK' /\ ControlOK'
  <2> SUFFICES ASSUME TypeOK, ControlOK, [Next]_vars
               PROVE  TypeOK' /\ ControlOK'
    OBVIOUS
  <2>1. ASSUME NEW r \in Requests, Begin(r)
        PROVE  TypeOK' /\ ControlOK'
    BY <2>1, PlaygroundAuthInv, TokenAuthInv DEF Begin
  <2>2. ASSUME NEW r \in Requests, Proceed(r)
        PROVE  TypeOK' /\ ControlOK'
    BY <2>2, MarkExhaustedInv, SkipPreConsumeInv, CheckUserQuotaInv,
       CheckTokenQuotaInv, HoldTokenInv, HoldUserInv, RetryUpstreamInv, HangUpstreamInv,
       FailUpstreamInv, ServeUpstreamInv, PostUserInv, PostTokenInv
       DEF Proceed
  <2>3. CASE BatchUpdate
    BY <2>3, SwapNextTypeInv, ApplyChangeInv DEF BatchUpdate
  <2>4. CASE Crash
    BY <2>4, CrashInv
  <2>5. CASE UNCHANGED vars
    BY <2>5 DEF vars, TypeOK, ControlOK
  <2>6. QED
    BY <2>1, <2>2, <2>3, <2>4, <2>5 DEF Next
<1>2. QED
  BY <1>1, InitInv, PTL DEF Spec

-----------------------------------------------------------------------------
(* Refinement: every account is kept as QuotaAccount says. *)

Balance(l) == Book(l) + dropped[l]
Billed(l) == IF l = "quota" THEN Book("used") + dropped["used"]
             ELSE tokenBilled[l]
Outs(l) == [r \in Requests |-> Out(l, req[r])]

AccountStep(l) == [Account(l)!Next]_(Account(l)!acctVars)

LEMMA LedgerColumns ==
    /\ "quota" \in Columns /\ "used" \in Columns
    /\ \A l \in Ledgers : l \in Columns /\ l # "used"
    /\ "used" \notin Ledgers
BY DEF Ledgers, Columns

\* A step that changes none of an account's four values is a stutter.
LEMMA Stutter ==
    ASSUME NEW l \in Ledgers, Balance(l)' = Balance(l), Billed(l)' = Billed(l),
           Outs(l)' = Outs(l), stranded'[l] = stranded[l]
    PROVE  AccountStep(l)
BY DEF AccountStep, Account!acctVars, Balance, Billed, Outs

LEMMA ReserveStep ==
    ASSUME NEW l \in Ledgers, NEW r \in Requests, Outs(l)[r] = 0,
           Balance(l)' < Balance(l), Billed(l)' = Billed(l),
           Outs(l)' = [Outs(l) EXCEPT ![r] = Balance(l) - Balance(l)'],
           stranded'[l] = stranded[l]
    PROVE  AccountStep(l)
BY DEF AccountStep, Account!Next, Account!Reserve, Balance, Billed, Outs

LEMMA ServeStep ==
    ASSUME NEW l \in Ledgers, NEW r \in Requests, Balance(l)' = Balance(l),
           Billed(l)' >= Billed(l),
           Outs(l)' = [Outs(l) EXCEPT ![r] = @ - (Billed(l)' - Billed(l))],
           stranded'[l] = stranded[l]
    PROVE  AccountStep(l)
BY DEF AccountStep, Account!Next, Account!Serve, Balance, Billed, Outs

LEMMA SquareStep ==
    ASSUME NEW l \in Ledgers, NEW r \in Requests, Outs(l)[r] # 0,
           Balance(l)' = Balance(l) + Outs(l)[r], Billed(l)' = Billed(l),
           Outs(l)' = [Outs(l) EXCEPT ![r] = 0],
           stranded'[l] = stranded[l]
    PROVE  AccountStep(l)
BY DEF AccountStep, Account!Next, Account!Square, Balance, Billed, Outs

LEMMA AbandonStep ==
    ASSUME NEW l \in Ledgers, NEW S \in SUBSET Requests,
           MaxDBErrors + MaxCrashes > 0,
           Balance(l)' = Balance(l), Billed(l)' = Billed(l),
           Outs(l)' = [x \in Requests |-> IF x \in S THEN 0 ELSE Outs(l)[x]],
           stranded'[l] = [x \in Requests |->
               IF x \in S THEN stranded[l][x] + Outs(l)[x] ELSE stranded[l][x]]
    PROVE  AccountStep(l)
BY DEF AccountStep, Account!Next, Account!Abandon, Balance, Billed, Outs

LEMMA AddBook ==
    ASSUME TypeOK, NEW c \in Columns, NEW v \in Int, Add(c, v), drain' = drain,
           NEW d \in Columns
    PROVE  /\ Book(d)' \in Int /\ Book(d) \in Int
           /\ d = c => Book(d)' = Book(d) + v
           /\ d # c => Book(d)' = Book(d)
<1>1. db[d] \in Int /\ store[d] \in Int /\ drain[d] \in Int
  BY DEF TypeOK
<1>2. CASE BatchUpdateEnabled
  BY <1>1, <1>2 DEF Add, Book, TypeOK
<1>3. CASE ~BatchUpdateEnabled
  BY <1>1, <1>3 DEF Add, Book, TypeOK
<1>4. QED
  BY <1>2, <1>3

LEMMA AddFailsBook ==
    ASSUME TypeOK, AddFails, drain' = drain, NEW d \in Columns
    PROVE  Book(d)' = Book(d) /\ MaxDBErrors + MaxCrashes > 0
BY DEF TypeOK, AddFails, Book

LEMMA OutsMove ==
    ASSUME TypeOK, NEW l \in Ledgers, NEW r \in Requests, NEW q \in Request,
           req' = [req EXCEPT ![r] = q]
    PROVE  Outs(l)' = [Outs(l) EXCEPT ![r] = Out(l, q)]
<1>1. \A x \in Requests : req'[x] = IF x = r THEN q ELSE req[x]
  BY DEF TypeOK
<1>2. Outs(l)' = [x \in Requests |-> Out(l, req'[x])]
  BY DEF Outs
<1>3. [Outs(l) EXCEPT ![r] = Out(l, q)]
        = [x \in Requests |-> IF x = r THEN Out(l, q) ELSE Out(l, req[x])]
  BY DEF Outs
<1>4. ASSUME NEW x \in Requests
      PROVE  Out(l, req'[x]) = IF x = r THEN Out(l, q) ELSE Out(l, req[x])
  BY <1>1
<1>5. QED
  BY <1>2, <1>3, <1>4

\* Moving a request without touching what it has outstanding.
LEMMA OutsStay ==
    ASSUME TypeOK, NEW l \in Ledgers, NEW r \in Requests, NEW q \in Request,
           req' = [req EXCEPT ![r] = q], Out(l, q) = Out(l, req[r])
    PROVE  Outs(l)' = Outs(l)
<1>1. Outs(l)' = [Outs(l) EXCEPT ![r] = Outs(l)[r]]
  BY OutsMove DEF Outs
<1>2. QED
  BY <1>1 DEF Outs

LEMMA OutsFinish ==
    ASSUME TypeOK, NEW l \in Ledgers, NEW r \in Requests, Finish(r)
    PROVE  Outs(l)' = [Outs(l) EXCEPT ![r] = 0]
<1>1. Out(l, Idle) = 0
  BY DEF Out, Idle, UserOut, TokenOut
<1>2. QED
  BY <1>1, IdleType, OutsMove DEF Finish

LEMMA OutsType ==
    ASSUME TypeOK, NEW l \in Ledgers, NEW r \in Requests
    PROVE  Outs(l)[r] = Out(l, req[r]) /\ Outs(l)[r] \in Int
BY OutType DEF Outs, TypeOK

\* The values of an account when the books do not change.
LEMMA SameBooks ==
    ASSUME UNCHANGED <<db, store, drain, tokenBilled, dropped>>, NEW l \in Ledgers
    PROVE  Balance(l)' = Balance(l) /\ Billed(l)' = Billed(l)
BY DEF Balance, Billed, Book

LEMMA Quiet ==
    ASSUME TypeOK, NEW l \in Ledgers, NEW r \in Requests, NEW q \in Request,
           req' = [req EXCEPT ![r] = q], Out(l, q) = Out(l, req[r]),
           UNCHANGED <<db, store, drain, tokenBilled, dropped, stranded>>
    PROVE  AccountStep(l)
BY SameBooks, OutsStay, Stutter

LEMMA TokenAuthAccount ==
    ASSUME TypeOK, ControlOK, NEW r \in Requests, NEW t \in Tokens,
           NEW p \in Estimates, TokenAuth(r, t, p), NEW l \in Ledgers
    PROVE  AccountStep(l)
<1> DEFINE q == req'[r]
<1>1. q \in Request
  BY TokenAuthInv DEF TypeOK
<1>2. req' = [req EXCEPT ![r] = q]
  BY DEF TokenAuth, TypeOK
<1>3. q.pc \in {"exhaust", "check_user"}
  BY DEF TokenAuth, TypeOK, Idle
<1>4. Out(l, q) = 0 /\ Out(l, req[r]) = 0
  BY <1>3 DEF Out, UserOut, TokenOut, TokenAuth
<1>5. QED
  BY <1>1, <1>2, <1>4, Quiet DEF TokenAuth

LEMMA PlaygroundAuthAccount ==
    ASSUME TypeOK, ControlOK, NEW r \in Requests, NEW p \in Estimates,
           PlaygroundAuth(r, p), NEW l \in Ledgers
    PROVE  AccountStep(l)
<1> DEFINE q == req'[r]
<1>1. q \in Request
  BY PlaygroundAuthInv DEF TypeOK
<1>2. req' = [req EXCEPT ![r] = q]
  BY DEF PlaygroundAuth, TypeOK
<1>3. q.pc = "check_user"
  BY DEF PlaygroundAuth, TypeOK, Idle
<1>4. Out(l, q) = 0 /\ Out(l, req[r]) = 0
  BY <1>3 DEF Out, UserOut, TokenOut, PlaygroundAuth
<1>5. QED
  BY <1>1, <1>2, <1>4, Quiet DEF PlaygroundAuth

LEMMA MarkExhaustedAccount ==
    ASSUME TypeOK, ControlOK, NEW r \in Requests, MarkExhausted(r),
           NEW l \in Ledgers
    PROVE  AccountStep(l)
<1>1. Out(l, Idle) = 0 /\ Out(l, req[r]) = 0
  BY DEF Out, UserOut, TokenOut, MarkExhausted, Idle
<1>2. QED
  BY <1>1, IdleType, Quiet DEF MarkExhausted, Finish

LEMMA SkipPreConsumeAccount ==
    ASSUME TypeOK, ControlOK, NEW r \in Requests, SkipPreConsume(r),
           NEW l \in Ledgers
    PROVE  AccountStep(l)
<1> DEFINE q == [req[r] EXCEPT !.pc = "upstream", !.free = TRUE]
<1>1. req[r] \in Request /\ req[r].final = 0
  BY DEF TypeOK, ControlOK, SkipPreConsume
<1>2. q \in Request /\ q.pc = "upstream" /\ q.final = 0
  BY <1>1 DEF Request, PCs
<1>3. Out(l, q) = 0 /\ Out(l, req[r]) = 0
  BY <1>2 DEF Out, UserOut, TokenOut, SkipPreConsume
<1>4. QED
  BY <1>2, <1>3, Quiet DEF SkipPreConsume

LEMMA RetryUpstreamAccount ==
    ASSUME TypeOK, ControlOK, NEW r \in Requests, RetryUpstream(r),
           NEW l \in Ledgers
    PROVE  AccountStep(l)
<1> DEFINE q == [req[r] EXCEPT !.attempt = @ + 1]
<1>1. req[r] \in Request
  BY DEF TypeOK
<1>2. /\ q \in Request /\ q.pc = req[r].pc /\ q.final = req[r].final
      /\ q.tok = req[r].tok /\ q.pre = req[r].pre /\ q.delta = req[r].delta
  BY <1>1 DEF Request
<1>3. Out(l, q) = Out(l, req[r])
  BY <1>2 DEF Out, UserOut, TokenOut
<1>4. QED
  BY <1>2, <1>3, Quiet DEF RetryUpstream

LEMMA HangUpstreamAccount ==
    ASSUME TypeOK, ControlOK, NEW r \in Requests, HangUpstream(r),
           NEW l \in Ledgers
    PROVE  AccountStep(l)
<1> DEFINE q == [req[r] EXCEPT !.hung = TRUE]
<1>1. req[r] \in Request
  BY DEF TypeOK
<1>2. /\ q \in Request /\ q.pc = req[r].pc /\ q.final = req[r].final
      /\ q.tok = req[r].tok /\ q.pre = req[r].pre /\ q.delta = req[r].delta
  BY <1>1 DEF Request
<1>3. Out(l, q) = Out(l, req[r])
  BY <1>2 DEF Out, UserOut, TokenOut
<1>4. QED
  BY <1>2, <1>3, Quiet DEF HangUpstream

LEMMA CheckUserQuotaAccount ==
    ASSUME TypeOK, ControlOK, NEW r \in Requests, CheckUserQuota(r),
           NEW l \in Ledgers
    PROVE  AccountStep(l)
<1> DEFINE lab == IF Playground(r) THEN "hold_user" ELSE "check_token"
           a == [req[r] EXCEPT !.pc = "upstream", !.final = 0]
           g == [req[r] EXCEPT !.pc = "check_token"]
           h == [req[r] EXCEPT !.pc = "hold_user"]
<1>1. /\ req[r] \in Request /\ Out(l, req[r]) = 0
      /\ "upstream" \in PCs /\ "check_token" \in PCs /\ "hold_user" \in PCs
  BY DEF TypeOK, CheckUserQuota, Out, UserOut, TokenOut, PCs
<1>2. CASE Finish(r)
  <2>1. Out(l, Idle) = 0
    BY DEF Out, Idle, UserOut, TokenOut
  <2>2. QED
    BY <1>1, <1>2, <2>1, IdleType, Quiet DEF Finish, CheckUserQuota
<1>3. CASE Admit(r, 0)
  <2>1. a \in Request /\ a.pc = "upstream" /\ a.final = 0
    BY <1>1 DEF Request
  <2>2. Out(l, a) = 0
    BY <2>1 DEF Out, UserOut, TokenOut
  <2>3. QED
    BY <1>1, <1>3, <2>1, <2>2, Quiet DEF Admit, CheckUserQuota
<1>4. CASE Goto(r, lab) /\ ~Playground(r)
  <2>1. g \in Request /\ g.pc = "check_token"
    BY <1>1 DEF Request
  <2>2. Out(l, g) = 0
    BY <2>1 DEF Out, UserOut, TokenOut
  <2>3. req' = [req EXCEPT ![r] = g]
    BY <1>4 DEF Goto
  <2>4. QED
    BY <1>1, <2>1, <2>2, <2>3, Quiet DEF CheckUserQuota
<1>5. CASE Goto(r, lab) /\ Playground(r)
  <2>1. h \in Request /\ h.pc = "hold_user" /\ h.tok = NoToken
    BY <1>1, <1>5 DEF Request, Playground
  <2>2. Out(l, h) = 0
    BY <2>1 DEF Out, UserOut, Ledgers
  <2>3. req' = [req EXCEPT ![r] = h]
    BY <1>5 DEF Goto
  <2>4. QED
    BY <1>1, <2>1, <2>2, <2>3, Quiet DEF CheckUserQuota
<1>6. QED
  BY <1>2, <1>3, <1>4, <1>5 DEF CheckUserQuota

LEMMA CheckTokenQuotaAccount ==
    ASSUME TypeOK, ControlOK, NEW r \in Requests, CheckTokenQuota(r),
           NEW l \in Ledgers
    PROVE  AccountStep(l)
<1> DEFINE g == [req[r] EXCEPT !.pc = "hold_token"]
<1>1. req[r] \in Request /\ Out(l, req[r]) = 0 /\ "hold_token" \in PCs
  BY DEF TypeOK, CheckTokenQuota, Out, UserOut, TokenOut, PCs
<1>2. CASE Finish(r)
  <2>1. Out(l, Idle) = 0
    BY DEF Out, Idle, UserOut, TokenOut
  <2>2. QED
    BY <1>1, <1>2, <2>1, IdleType, Quiet DEF Finish, CheckTokenQuota
<1>3. CASE Goto(r, "hold_token")
  <2>1. g \in Request /\ g.pc = "hold_token"
    BY <1>1 DEF Request
  <2>2. Out(l, g) = 0
    BY <2>1 DEF Out, UserOut, TokenOut
  <2>3. QED
    BY <1>1, <1>3, <2>1, <2>2, Quiet DEF Goto, CheckTokenQuota
<1>4. QED
  BY <1>2, <1>3 DEF CheckTokenQuota

\* A write failed, the request ends, and the ledgers in L keep what it had
\* outstanding on them; on the others it had nothing.
LEMMA StrandAccount ==
    ASSUME TypeOK, NEW r \in Requests, NEW L, AddFails, Finish(r), Strand(L, r),
           UNCHANGED <<drain, tokenBilled, dropped>>, NEW l \in Ledgers,
           l \in L \/ Out(l, req[r]) = 0
    PROVE  AccountStep(l)
<1>1. Balance(l)' = Balance(l) /\ Billed(l)' = Billed(l)
  BY SameBooks DEF AddFails
<1>2. Outs(l)' = [Outs(l) EXCEPT ![r] = 0]
  BY OutsFinish
<1>3. stranded[l] \in [Requests -> Int] /\ Outs(l) \in [Requests -> Int]
  BY OutType DEF TypeOK, Outs
<1>4. CASE l \in L
  <2>1. stranded'[l] = [stranded[l] EXCEPT ![r] = @ + Outs(l)[r]]
    BY <1>4 DEF Strand, Outs
  <2>2. stranded'[l] = [x \in Requests |->
            IF x \in {r} THEN stranded[l][x] + Outs(l)[x] ELSE stranded[l][x]]
    BY <1>3, <2>1
  <2>3. Outs(l)' = [x \in Requests |-> IF x \in {r} THEN 0 ELSE Outs(l)[x]]
    BY <1>2, <1>3
  <2>4. MaxDBErrors + MaxCrashes > 0
    BY DEF AddFails, TypeOK
  <2>5. QED
    BY <1>1, <2>2, <2>3, <2>4, AbandonStep
<1>5. CASE l \notin L
  <2>1. Outs(l)' = Outs(l)
    BY <1>2, <1>5 DEF Outs
  <2>2. stranded'[l] = stranded[l]
    BY <1>5 DEF Strand
  <2>3. QED
    BY <1>1, <2>1, <2>2, Stutter
<1>6. QED
  BY <1>4, <1>5

LEMMA HoldTokenAccount ==
    ASSUME TypeOK, ControlOK, NEW r \in Requests, HoldToken(r), NEW l \in Ledgers
    PROVE  AccountStep(l)
<1> DEFINE t == req[r].tok
           g == [req[r] EXCEPT !.pc = "hold_user"]
<1>1. /\ req[r] \in Request /\ Out(l, req[r]) = 0 /\ "hold_user" \in PCs
      /\ t \in Tokens /\ t \in Columns /\ t # "quota"
      /\ req[r].pre > 0 /\ req[r].pre \in Nat /\ -req[r].pre \in Int
  BY DEF TypeOK, HoldToken, ControlOK, Out, UserOut, TokenOut, PCs, Columns,
         Request
<1>2. CASE Add(t, -req[r].pre) /\ Goto(r, "hold_user") /\ UNCHANGED dbErrs
  <2>1. g \in Request /\ g.pc = "hold_user" /\ g.tok = t /\ g.pre = req[r].pre
    BY <1>1 DEF Request
  <2>2. Out(l, g) = IF l = t THEN req[r].pre ELSE 0
    BY <1>1, <2>1 DEF Out, UserOut, TokenOut
  <2>3. Outs(l)' = [Outs(l) EXCEPT ![r] = Out(l, g)]
    BY <1>2, <2>1, OutsMove DEF Goto
  <2>4. UNCHANGED <<drain, tokenBilled, dropped, stranded>>
    BY DEF HoldToken
  <2>5. /\ Book(l) \in Int /\ Book(l)' \in Int
        /\ l = t => Book(l)' = Book(l) + (-req[r].pre)
        /\ l # t => Book(l)' = Book(l)
    BY <1>1, <1>2, <2>4, AddBook, LedgerColumns
  <2>6. Billed(l)' = Billed(l)
    <3>1. Book("used")' = Book("used")
      BY <1>1, <1>2, <2>4, AddBook, LedgerColumns
    <3>2. QED
      BY <2>4, <3>1 DEF Billed
  <2>7. Outs(l)[r] = 0 /\ dropped[l] \in Int
    BY <1>1, LedgerColumns DEF Outs, TypeOK
  <2>8. CASE l = t
    <3>1. /\ Balance(l)' < Balance(l)
          /\ Balance(l) - Balance(l)' = req[r].pre
      BY <1>1, <2>4, <2>5, <2>7, <2>8 DEF Balance
    <3>2. QED
      BY <2>2, <2>3, <2>4, <2>6, <2>7, <2>8, <3>1, ReserveStep
  <2>9. CASE l # t
    <3>1. Balance(l)' = Balance(l)
      BY <2>4, <2>5, <2>9 DEF Balance
    <3>2. Outs(l)' = Outs(l)
      BY <2>2, <2>3, <2>7, <2>9 DEF Outs
    <3>3. QED
      BY <2>4, <2>6, <3>1, <3>2, Stutter
  <2>10. QED
    BY <2>8, <2>9
<1>3. CASE AddFails /\ Finish(r)
  <2>1. Out(l, Idle) = 0
    BY DEF Out, Idle, UserOut, TokenOut
  <2>2. QED
    BY <1>1, <1>3, <2>1, IdleType, Quiet DEF AddFails, Finish, HoldToken
<1>4. QED
  BY <1>2, <1>3 DEF HoldToken

LEMMA HoldUserAccount ==
    ASSUME TypeOK, ControlOK, NEW r \in Requests, HoldUser(r), NEW l \in Ledgers
    PROVE  AccountStep(l)
<1> DEFINE a == [req[r] EXCEPT !.pc = "upstream", !.final = req[r].pre]
<1>1. /\ req[r] \in Request /\ req[r].pc = "hold_user" /\ "upstream" \in PCs
      /\ req[r].pre > 0 /\ req[r].pre \in Nat /\ -req[r].pre \in Int
      /\ req[r].tok # "quota"
  BY DEF TypeOK, HoldUser, ControlOK, PCs, Request
<1>2. Out(l, req[r]) = IF l = req[r].tok THEN req[r].pre ELSE 0
  BY <1>1 DEF Out, UserOut, TokenOut
<1>3. UNCHANGED <<drain, tokenBilled, dropped>>
  BY DEF HoldUser
<1>4. CASE /\ Add("quota", -req[r].pre) /\ Admit(r, req[r].pre)
           /\ UNCHANGED <<dbErrs, stranded>>
  <2>1. a \in Request /\ a.pc = "upstream" /\ a.tok = req[r].tok
           /\ a.final = req[r].pre
    BY <1>1 DEF Request
  <2>2. Out(l, a) = IF l \in {"quota", req[r].tok} THEN req[r].pre ELSE 0
    BY <2>1 DEF Out, UserOut, TokenOut
  <2>3. Outs(l)' = [Outs(l) EXCEPT ![r] = Out(l, a)]
    BY <1>4, <2>1, OutsMove DEF Admit
  <2>4. /\ Book(l) \in Int /\ Book(l)' \in Int
        /\ l = "quota" => Book(l)' = Book(l) + (-req[r].pre)
        /\ l # "quota" => Book(l)' = Book(l)
    BY <1>1, <1>3, <1>4, AddBook, LedgerColumns
  <2>5. Billed(l)' = Billed(l)
    <3>1. Book("used")' = Book("used")
      BY <1>1, <1>3, <1>4, AddBook, LedgerColumns
    <3>2. QED
      BY <1>3, <3>1 DEF Billed
  <2>6. Outs(l)[r] = Out(l, req[r]) /\ dropped[l] \in Int
    BY LedgerColumns DEF Outs, TypeOK
  <2>7. CASE l = "quota"
    <3>1. /\ Balance(l)' < Balance(l)
          /\ Balance(l) - Balance(l)' = req[r].pre
      <4>1. PICK b \in Int, bb \in Int : b = Book(l) /\ bb = Book(l)'
        BY <2>4
      <4>2. Balance(l) = b + dropped[l] /\ Balance(l)' = bb + dropped[l]
        BY <1>3, <4>1 DEF Balance
      <4>3. bb = b - req[r].pre
        BY <1>1, <2>4, <2>7, <4>1
      <4>4. QED
        BY <1>1, <2>6, <4>2, <4>3
    <3>2. Outs(l)[r] = 0
      BY <1>1, <1>2, <2>6, <2>7
    <3>3. QED
      BY <1>4, <2>2, <2>3, <2>5, <2>7, <3>1, <3>2, ReserveStep
  <2>8. CASE l # "quota"
    <3>1. Balance(l)' = Balance(l)
      BY <1>3, <2>4, <2>8 DEF Balance
    <3>2. Outs(l)' = Outs(l)
      BY <1>2, <2>2, <2>3, <2>6, <2>8 DEF Outs
    <3>3. QED
      BY <1>4, <2>5, <3>1, <3>2, Stutter
  <2>9. QED
    BY <2>7, <2>8
<1>5. CASE AddFails /\ Finish(r) /\ Strand({req[r].tok}, r)
  BY <1>2, <1>3, <1>5, StrandAccount
<1>6. QED
  BY <1>4, <1>5 DEF HoldUser

\* Posting what is still to be taken leaves minus that much outstanding.
LEMMA PostOuts ==
    ASSUME TypeOK, NEW r \in Requests, NEW v \in Int, Post(r, v),
           NEW l \in Ledgers
    PROVE  Outs(l)' = [Outs(l) EXCEPT ![r] =
                          IF l \in {"quota", req[r].tok} THEN -v ELSE 0]
<1> DEFINE q == [req[r] EXCEPT !.pc = "post_user", !.delta = v]
<1>1. CASE v = 0
  BY <1>1, OutsFinish DEF Post
<1>2. CASE v # 0
  <2>1. req[r] \in Request /\ "post_user" \in PCs
    BY DEF TypeOK, PCs
  <2>2. /\ q \in Request /\ q.pc = "post_user" /\ q.delta = v
        /\ q.tok = req[r].tok
    BY <2>1 DEF Request
  <2>3. req' = [req EXCEPT ![r] = q]
    BY <1>2 DEF Post
  <2>4. Out(l, q) = IF l \in {"quota", req[r].tok} THEN -v ELSE 0
    BY <2>2 DEF Out, UserOut, TokenOut
  <2>5. Outs(l)' = [Outs(l) EXCEPT ![r] = Out(l, q)]
    BY <2>2, <2>3, OutsMove
  <2>6. QED
    BY <2>4, <2>5
<1>3. QED
  BY <1>1, <1>2

LEMMA FailUpstreamAccount ==
    ASSUME TypeOK, ControlOK, NEW r \in Requests, FailUpstream(r),
           NEW l \in Ledgers
    PROVE  AccountStep(l)
<1>1. /\ req[r].final \in Nat /\ -req[r].final \in Int
      /\ -(-req[r].final) = req[r].final /\ req[r].pc = "upstream"
  BY DEF TypeOK, Request, FailUpstream
<1>2. Out(l, req[r]) = IF l \in {"quota", req[r].tok} THEN req[r].final ELSE 0
  BY <1>1 DEF Out, UserOut, TokenOut
<1>3. Outs(l)' = [Outs(l) EXCEPT ![r] =
                     IF l \in {"quota", req[r].tok} THEN -(-req[r].final) ELSE 0]
  BY <1>1, PostOuts DEF FailUpstream
<1>4. Outs(l)' = Outs(l)
  BY <1>1, <1>2, <1>3 DEF Outs
<1>5. Balance(l)' = Balance(l) /\ Billed(l)' = Billed(l)
  BY SameBooks DEF FailUpstream
<1>6. QED
  BY <1>4, <1>5, Stutter DEF FailUpstream

LEMMA ServeUpstreamAccount ==
    ASSUME TypeOK, ControlOK, NEW r \in Requests, NEW price \in Prices,
           ServeUpstream(r, price), NEW l \in Ledgers
    PROVE  AccountStep(l)
<1> DEFINE mine == l \in {"quota", req[r].tok}
<1>1. /\ req[r].final \in Nat /\ price \in Nat /\ price - req[r].final \in Int
      /\ price \in Int /\ req[r].pc = "upstream"
  BY DEF TypeOK, Request, ServeUpstream
<1>2. Out(l, req[r]) = IF mine THEN req[r].final ELSE 0
  BY <1>1 DEF Out, UserOut, TokenOut
<1>3. Outs(l)' = [Outs(l) EXCEPT ![r] =
                     IF mine THEN -(price - req[r].final) ELSE 0]
  BY <1>1, PostOuts DEF ServeUpstream
<1>4. drain' = drain /\ stranded' = stranded
  BY DEF ServeUpstream
<1>5. /\ Book(l)' = Book(l) /\ dropped'[l] = dropped[l]
      /\ Book("used") \in Int /\ dropped["used"] \in Int
      /\ Book("used")' + dropped'["used"] = Book("used") + dropped["used"] + price
  <2>1. Book("used") \in Int /\ dropped["used"] \in Int
    BY LedgerColumns DEF Book, TypeOK
  <2>2. CASE Add("used", price) /\ UNCHANGED <<dbErrs, dropped>>
    <3>1. Book(l)' = Book(l)
      BY <1>1, <1>4, <2>2, AddBook, LedgerColumns
    <3>2. Book("used")' = Book("used") + price
      BY <1>1, <1>4, <2>2, AddBook, LedgerColumns
    <3>3. QED
      BY <1>1, <2>1, <2>2, <3>1, <3>2
  <2>3. CASE AddFails /\ dropped' = [dropped EXCEPT !["used"] = @ + price]
    <3>1. Book(l)' = Book(l) /\ Book("used")' = Book("used")
      BY <1>4, <2>3, AddFailsBook, LedgerColumns
    <3>2. dropped'["used"] = dropped["used"] + price /\ dropped'[l] = dropped[l]
      BY <2>3, LedgerColumns DEF TypeOK
    <3>3. QED
      BY <1>1, <2>1, <3>1, <3>2
  <2>4. QED
    BY <2>2, <2>3 DEF ServeUpstream
<1>6. Balance(l)' = Balance(l)
  BY <1>5 DEF Balance
<1>7. /\ Billed(l) \in Int
      /\ Billed(l)' = IF mine THEN Billed(l) + price ELSE Billed(l)
  <2>1. CASE l = "quota"
    BY <1>1, <1>5, <2>1 DEF Billed
  <2>2. CASE l # "quota"
    <3>1. l \in Tokens /\ tokenBilled[l] \in Nat
      BY <2>2 DEF Ledgers, TypeOK
    <3>2. tokenBilled'[l] = IF l = req[r].tok THEN tokenBilled[l] + price
                            ELSE tokenBilled[l]
      BY <3>1 DEF ServeUpstream
    <3>3. QED
      BY <2>2, <3>1, <3>2 DEF Billed
  <2>3. QED
    BY <2>1, <2>2
<1>8. Outs(l)[r] = Out(l, req[r]) /\ Outs(l) = [x \in Requests |-> Out(l, req[x])]
  BY DEF Outs
<1>9. CASE mine
  <2>1. Billed(l)' >= Billed(l) /\ Billed(l)' - Billed(l) = price
    BY <1>1, <1>7, <1>9
  <2>2. -(price - req[r].final) = Outs(l)[r] - (Billed(l)' - Billed(l))
    BY <1>1, <1>2, <1>8, <1>9, <2>1
  <2>3. Outs(l)' = [Outs(l) EXCEPT ![r] = Outs(l)[r] - (Billed(l)' - Billed(l))]
    BY <1>3, <1>9, <2>2
  <2>4. QED
    BY <1>4, <1>6, <2>1, <2>3, ServeStep
<1>10. CASE ~mine
  <2>1. Outs(l)' = Outs(l)
    BY <1>2, <1>3, <1>8, <1>10
  <2>2. QED
    BY <1>4, <1>6, <1>7, <1>10, <2>1, Stutter
<1>11. QED
  BY <1>9, <1>10

\* What is common to the two halves of PostConsumeQuota: ledger t gets v and
\* the request has nothing outstanding there any more.
LEMMA SettleAccount ==
    ASSUME TypeOK, NEW r \in Requests, NEW t \in Ledgers, NEW v \in Int,
           v # 0, Add(t, v), NEW q \in Request, req' = [req EXCEPT ![r] = q],
           UNCHANGED <<drain, tokenBilled, dropped, stranded>>,
           NEW l \in Ledgers,
           l = t => Out(l, req[r]) = v /\ Out(l, q) = 0,
           l # t => Out(l, req[r]) = Out(l, q)
    PROVE  AccountStep(l)
<1>1. /\ Book(l) \in Int /\ Book(l)' \in Int /\ dropped[l] \in Int
      /\ l = t => Book(l)' = Book(l) + v
      /\ l # t => Book(l)' = Book(l)
      /\ Book("used")' = Book("used")
  <2>1. dropped[l] \in Int
    BY LedgerColumns DEF TypeOK
  <2>2. Book("used")' = Book("used")
    BY AddBook, LedgerColumns
  <2>3. QED
    BY <2>1, <2>2, AddBook, LedgerColumns
<1>2. Billed(l)' = Billed(l)
  BY <1>1 DEF Billed
<1>3. Outs(l)[r] = Out(l, req[r])
  BY DEF Outs
<1>4. CASE l = t
  <2>1. Balance(l)' = Balance(l) + Outs(l)[r] /\ Outs(l)[r] # 0
    BY <1>1, <1>3, <1>4 DEF Balance
  <2>2. Outs(l)' = [Outs(l) EXCEPT ![r] = 0]
    <3>1. Outs(l)' = [Outs(l) EXCEPT ![r] = Out(l, q)]
      BY OutsMove
    <3>2. Out(l, q) = 0
      BY <1>4
    <3>3. QED
      BY <3>1, <3>2
  <2>3. stranded'[l] = stranded[l]
    OBVIOUS
  <2>4. QED
    BY <1>2, <2>1, <2>2, <2>3, SquareStep
<1>5. CASE l # t
  <2>1. Balance(l)' = Balance(l)
    BY <1>1, <1>5 DEF Balance
  <2>2. Outs(l)' = Outs(l)
    BY <1>5, OutsStay
  <2>3. QED
    BY <1>2, <2>1, <2>2, Stutter
<1>6. QED
  BY <1>4, <1>5

LEMMA PostUserAccount ==
    ASSUME TypeOK, ControlOK, NEW r \in Requests, PostUser(r), NEW l \in Ledgers
    PROVE  AccountStep(l)
<1> DEFINE g == [req[r] EXCEPT !.pc = "post_token"]
<1>1. /\ req[r] \in Request /\ req[r].pc = "post_user" /\ "post_token" \in PCs
      /\ req[r].delta # 0 /\ -req[r].delta \in Int /\ -req[r].delta # 0
      /\ "quota" \in Ledgers /\ req[r].tok # "quota"
  BY DEF TypeOK, PostUser, ControlOK, PCs, Request, Ledgers
<1>2. Out(l, req[r]) = IF l \in {"quota", req[r].tok} THEN -req[r].delta ELSE 0
  BY <1>1 DEF Out, UserOut, TokenOut
<1>3. CASE /\ Add("quota", -req[r].delta) /\ UNCHANGED stranded
           /\ Playground(r) /\ Finish(r)
  <2>1. Out(l, Idle) = 0
    BY DEF Out, Idle, UserOut, TokenOut
  <2>2. l # "quota" => Out(l, req[r]) = 0
    BY <1>2, <1>3 DEF Ledgers, Playground
  <2>3. QED
    BY <1>1, <1>2, <1>3, <2>1, <2>2, IdleType, SettleAccount DEF Finish, PostUser
<1>4. CASE /\ Add("quota", -req[r].delta) /\ UNCHANGED stranded
           /\ Goto(r, "post_token")
  <2>1. /\ g \in Request /\ g.pc = "post_token" /\ g.tok = req[r].tok
        /\ g.delta = req[r].delta
    BY <1>1 DEF Request
  <2>2. Out(l, g) = IF l = req[r].tok THEN -req[r].delta ELSE 0
    BY <1>1, <2>1 DEF Out, UserOut, TokenOut
  <2>3. req' = [req EXCEPT ![r] = g]
    BY <1>4 DEF Goto
  <2>4. /\ l = "quota" => Out(l, req[r]) = -req[r].delta /\ Out(l, g) = 0
        /\ l # "quota" => Out(l, req[r]) = Out(l, g)
    BY <1>1, <1>2, <2>2
  <2>5. UNCHANGED <<drain, tokenBilled, dropped, stranded>>
    BY <1>4 DEF PostUser
  <2> HIDE DEF g
  <2>6. QED
    BY <1>1, <1>4, <2>1, <2>3, <2>4, <2>5, SettleAccount
<1>5. CASE AddFails /\ Finish(r) /\ Strand({"quota", req[r].tok}, r)
  BY <1>2, <1>5, StrandAccount DEF PostUser
<1>6. QED
  BY <1>3, <1>4, <1>5 DEF PostUser

LEMMA PostTokenAccount ==
    ASSUME TypeOK, ControlOK, NEW r \in Requests, PostToken(r), NEW l \in Ledgers
    PROVE  AccountStep(l)
<1>1. /\ req[r] \in Request /\ req[r].pc = "post_token"
      /\ -req[r].delta \in Int /\ -req[r].delta # 0
      /\ req[r].tok \in Ledgers /\ req[r].tok # "quota"
  BY DEF TypeOK, PostToken, ControlOK, Request, Ledgers
<1>2. Out(l, req[r]) = IF l = req[r].tok THEN -req[r].delta ELSE 0
  BY <1>1 DEF Out, UserOut, TokenOut
<1>3. Out(l, Idle) = 0
  BY DEF Out, Idle, UserOut, TokenOut
<1>4. CASE Add(req[r].tok, -req[r].delta) /\ UNCHANGED <<dbErrs, stranded>>
  BY <1>1, <1>2, <1>3, <1>4, IdleType, SettleAccount DEF Finish, PostToken
<1>5. CASE AddFails /\ Strand({req[r].tok}, r)
  BY <1>2, <1>5, StrandAccount DEF PostToken
<1>6. QED
  BY <1>4, <1>5 DEF PostToken

LEMMA SwapNextTypeAccount ==
    ASSUME TypeOK, SwapNextType, NEW l \in Ledgers
    PROVE  AccountStep(l)
<1>1. ASSUME NEW c \in Columns
      PROVE  Book(c)' = Book(c)
  BY DEF SwapNextType, Book, TypeOK
<1>2. Balance(l)' = Balance(l) /\ Billed(l)' = Billed(l)
  BY <1>1, LedgerColumns DEF Balance, Billed, SwapNextType
<1>3. Outs(l)' = Outs(l)
  BY DEF Outs, SwapNextType
<1>4. QED
  BY <1>2, <1>3, Stutter DEF SwapNextType

LEMMA ApplyChangeAccount ==
    ASSUME TypeOK, NEW c \in Columns, ApplyChange(c), NEW l \in Ledgers
    PROVE  AccountStep(l)
<1>1. ASSUME NEW d \in Columns
      PROVE  Book(d)' + dropped'[d] = Book(d) + dropped[d]
  <2>1. /\ db[d] \in Int /\ store[d] \in Int /\ drain[d] \in Int
        /\ dropped[d] \in Int /\ store' = store
        /\ drain'[d] = IF d = c THEN 0 ELSE drain[d]
    BY DEF TypeOK, ApplyChange
  <2>2. CASE db' = [db EXCEPT ![c] = @ + drain[c]] /\ UNCHANGED dropped
    <3>1. db'[d] = IF d = c THEN db[d] + drain[d] ELSE db[d]
      BY <2>2 DEF TypeOK
    <3>2. QED
      BY <2>1, <2>2, <3>1 DEF Book
  <2>3. CASE dropped' = [dropped EXCEPT ![c] = @ + drain[c]] /\ UNCHANGED db
    <3>1. dropped'[d] = IF d = c THEN dropped[d] + drain[d] ELSE dropped[d]
      BY <2>3 DEF TypeOK
    <3>2. QED
      BY <2>1, <2>3, <3>1 DEF Book
  <2>4. QED
    BY <2>2, <2>3 DEF ApplyChange
<1>2. Balance(l)' = Balance(l) /\ Billed(l)' = Billed(l)
  BY <1>1, LedgerColumns DEF Balance, Billed, ApplyChange
<1>3. Outs(l)' = Outs(l)
  BY DEF Outs, ApplyChange
<1>4. QED
  BY <1>2, <1>3, Stutter DEF ApplyChange

LEMMA CrashAccount ==
    ASSUME TypeOK, Crash, NEW l \in Ledgers
    PROVE  AccountStep(l)
<1>1. ASSUME NEW d \in Columns
      PROVE  Book(d)' + dropped'[d] = Book(d) + dropped[d]
  BY DEF TypeOK, Crash, Book, Zero
<1>2. Balance(l)' = Balance(l) /\ Billed(l)' = Billed(l)
  BY <1>1, LedgerColumns DEF Balance, Billed, Crash
<1>3. Out(l, Idle) = 0
  BY DEF Out, Idle, UserOut, TokenOut
<1>4. Outs(l)' = [x \in Requests |-> IF x \in Requests THEN 0 ELSE Outs(l)[x]]
  BY <1>3 DEF Crash, Outs
<1>5. stranded'[l] = [x \in Requests |->
        IF x \in Requests THEN stranded[l][x] + Outs(l)[x] ELSE stranded[l][x]]
  BY DEF Crash, Outs
<1>6. MaxDBErrors + MaxCrashes > 0
  BY DEF TypeOK, Crash
<1>7. Requests \in SUBSET Requests
  OBVIOUS
<1>8. QED
  BY <1>2, <1>4, <1>5, <1>6, <1>7, AbandonStep

LEMMA InitAccount ==
    ASSUME Init, NEW l \in Ledgers
    PROVE  Account(l)!Init
<1>1. db[l] = (IF l = "quota" THEN UserFunded ELSE TokenFunded[l])
        /\ db["used"] = 0
  BY LedgerColumns DEF Init, Ledgers
<1>2. /\ store[l] = 0 /\ drain[l] = 0 /\ dropped[l] = 0
      /\ store["used"] = 0 /\ drain["used"] = 0 /\ dropped["used"] = 0
  BY LedgerColumns DEF Init, Zero
<1>3. Book(l) + dropped[l] = IF l = "quota" THEN UserFunded ELSE TokenFunded[l]
  <2>1. db[l] \in Int
    BY <1>1 DEF Ledgers
  <2>2. QED
    BY <1>1, <1>2, <2>1 DEF Book
<1>4. (IF l = "quota" THEN Book("used") + dropped["used"] ELSE tokenBilled[l]) = 0
  BY <1>1, <1>2 DEF Book, Init, Zero, Ledgers
<1>5. [r \in Requests |-> Out(l, req[r])] = [r \in Requests |-> 0]
  BY DEF Init, Out, UserOut, TokenOut, Idle
<1>6. stranded[l] = [r \in Requests |-> 0]
  BY DEF Init, Zero
<1>7. QED
  BY <1>3, <1>4, <1>5, <1>6 DEF Account!Init

LEMMA StepAccount ==
    ASSUME TypeOK, ControlOK, Next, NEW l \in Ledgers
    PROVE  AccountStep(l)
<1>1. ASSUME NEW r \in Requests, Begin(r)
      PROVE  AccountStep(l)
  BY <1>1, PlaygroundAuthAccount, TokenAuthAccount DEF Begin
<1>2. ASSUME NEW r \in Requests, Proceed(r)
      PROVE  AccountStep(l)
  BY <1>2, MarkExhaustedAccount, SkipPreConsumeAccount, CheckUserQuotaAccount,
     CheckTokenQuotaAccount, HoldTokenAccount, HoldUserAccount,
     RetryUpstreamAccount, HangUpstreamAccount, FailUpstreamAccount, ServeUpstreamAccount,
     PostUserAccount, PostTokenAccount
     DEF Proceed
<1>3. CASE BatchUpdate
  BY <1>3, SwapNextTypeAccount, ApplyChangeAccount DEF BatchUpdate
<1>4. CASE Crash
  BY <1>4, CrashAccount
<1>5. QED
  BY <1>1, <1>2, <1>3, <1>4 DEF Next

\* The user's account and every token's are kept as QuotaAccount describes
\* them, for any number of requests, tokens, retries, failed writes and
\* crashes, with and without the batch updater: no step of pre-consumption,
\* settlement or refund moves more or less than one request's whole amount.
THEOREM AccountsImplemented == Spec => ImplementsAccounts
<1>1. Init => \A l \in Ledgers : Account(l)!Init
  BY InitAccount
<1>2. TypeOK /\ ControlOK /\ [Next]_vars
        => [\A l \in Ledgers : [Account(l)!Next]_(Account(l)!acctVars)]_vars
  BY StepAccount DEF AccountStep
<1>3. QED
  BY <1>1, <1>2, TypeCorrect, PTL DEF Spec, ImplementsAccounts

-----------------------------------------------------------------------------
(* Conservation: an account that is kept so never makes or loses quota.    *)

Funded(l) == IF l = "quota" THEN UserFunded ELSE TokenFunded[l]

\* Where the quota funded to an account can be.
Total(l) == Balance(l) + Billed(l) + Sum(Outs(l)) + Sum(stranded[l])

Conserved == \A l \in Ledgers : Total(l) = Funded(l)

LEMMA AccountTypes ==
    ASSUME TypeOK, NEW l \in Ledgers
    PROVE  /\ Balance(l) \in Int /\ Billed(l) \in Int
           /\ Outs(l) \in [Requests -> Int] /\ stranded[l] \in [Requests -> Int]
           /\ Sum(Outs(l)) \in Int /\ Sum(stranded[l]) \in Int
<1>1. Balance(l) \in Int
  BY LedgerColumns DEF Balance, Book, TypeOK
<1>2. Billed(l) \in Int
  <2>1. CASE l = "quota"
    BY <2>1, LedgerColumns DEF Billed, Book, TypeOK
  <2>2. CASE l # "quota"
    BY <2>2 DEF Billed, Ledgers, TypeOK
  <2>3. QED
    BY <2>1, <2>2
<1>3. Outs(l) \in [Requests -> Int]
  BY OutsType DEF Outs
<1>4. stranded[l] \in [Requests -> Int]
  BY DEF TypeOK
<1>5. \A f \in [Requests -> Int] : Sum(f) \in Int
  BY RequestsAssumption, SumFolds, SumOnType
<1>6. QED
  BY <1>1, <1>2, <1>3, <1>4, <1>5

LEMMA AccountTypesNext ==
    ASSUME TypeOK', NEW l \in Ledgers
    PROVE  /\ Balance(l)' \in Int /\ Billed(l)' \in Int
           /\ Outs(l)' \in [Requests -> Int] /\ stranded'[l] \in [Requests -> Int]
           /\ Sum(Outs(l)') \in Int /\ Sum(stranded'[l]) \in Int
<1>1. Balance(l)' \in Int
  BY LedgerColumns DEF Balance, Book, TypeOK
<1>2. Billed(l)' \in Int
  <2>1. CASE l = "quota"
    BY <2>1, LedgerColumns DEF Billed, Book, TypeOK
  <2>2. CASE l # "quota"
    BY <2>2 DEF Billed, Ledgers, TypeOK
  <2>3. QED
    BY <2>1, <2>2
<1>3. Outs(l)' \in [Requests -> Int]
  BY OutType DEF Outs, TypeOK
<1>4. stranded'[l] \in [Requests -> Int]
  BY DEF TypeOK
<1>5. \A f \in [Requests -> Int] : Sum(f) \in Int
  BY RequestsAssumption, SumFolds, SumOnType
<1>6. QED
  BY <1>1, <1>2, <1>3, <1>4, <1>5

\* The two lemmas for tables over the requests, as the account's steps put them.
LEMMA SumOfChanged ==
    \A f, g \in [Requests -> Int] : \A r \in Requests :
        (\A x \in Requests : x # r => g[x] = f[x])
            => Sum(g) = Sum(f) - f[r] + g[r]
<1>1. ASSUME NEW f \in [Requests -> Int], NEW g \in [Requests -> Int],
             NEW r \in Requests, \A x \in Requests : x # r => g[x] = f[x]
      PROVE  Sum(g) = Sum(f) - f[r] + g[r]
  BY <1>1, RequestsAssumption, SumChanges
<1>2. QED
  BY <1>1, Zenon

LEMMA SumOfMoved ==
    \A f, s, g, u \in [Requests -> Int] :
        (\A x \in Requests : f[x] + s[x] = g[x] + u[x])
            => Sum(g) + Sum(u) = Sum(f) + Sum(s)
<1>1. ASSUME NEW f \in [Requests -> Int], NEW s \in [Requests -> Int],
             NEW g \in [Requests -> Int], NEW u \in [Requests -> Int],
             \A x \in Requests : f[x] + s[x] = g[x] + u[x]
      PROVE  Sum(g) + Sum(u) = Sum(f) + Sum(s)
  BY <1>1, RequestsAssumption, SumsAgree
<1>2. QED
  BY <1>1, Zenon

\* Reserve, Serve, Square and Abandon move quota between an account's balance,
\* its bills, what is outstanding and what is stranded, and add none.
LEMMA AccountConserves ==
    ASSUME TypeOK, TypeOK', NEW l \in Ledgers, AccountStep(l)
    PROVE  Total(l)' = Total(l)
<1>1. PICK f, s, b, c :
         f = Outs(l) /\ s = stranded[l] /\ b = Balance(l) /\ c = Billed(l)
  OBVIOUS
<1>2. PICK g, u, d, e :
         g = Outs(l)' /\ u = stranded'[l] /\ d = Balance(l)' /\ e = Billed(l)'
  OBVIOUS
<1>3. /\ b \in Int /\ c \in Int /\ f \in [Requests -> Int]
      /\ s \in [Requests -> Int] /\ Sum(f) \in Int /\ Sum(s) \in Int
  BY <1>1, AccountTypes
<1>4. /\ d \in Int /\ e \in Int /\ g \in [Requests -> Int]
      /\ u \in [Requests -> Int] /\ Sum(g) \in Int /\ Sum(u) \in Int
  BY <1>2, AccountTypesNext
<1>5. SUFFICES d + e + Sum(g) + Sum(u) = b + c + Sum(f) + Sum(s)
  <2>1. Total(l) = b + c + Sum(f) + Sum(s)
    BY <1>1 DEF Total
  <2>2. Total(l)'
          = Balance(l)' + Billed(l)' + Sum(Outs(l)') + Sum(stranded'[l])
    BY DEF Total
  <2>3. Total(l)' = d + e + Sum(g) + Sum(u)
    BY <1>2, <2>2, Zenon
  <2>4. QED
    BY <2>1, <2>3
<1>6. ASSUME UNCHANGED Account(l)!acctVars
      PROVE  d + e + Sum(g) + Sum(u) = b + c + Sum(f) + Sum(s)
  <2>1. g = f /\ u = s /\ d = b /\ e = c
    BY <1>1, <1>2, <1>6 DEF Account!acctVars, Balance, Billed, Outs
  <2>2. QED
    BY <2>1
<1>7. ASSUME NEW r \in Requests, NEW v \in Int, g = [f EXCEPT ![r] = v],
             u = s, d + e = b + c + f[r] - v
      PROVE  d + e + Sum(g) + Sum(u) = b + c + Sum(f) + Sum(s)
  <2>1. Sum(g) = Sum(f) - f[r] + v
    <3>1. g[r] = v /\ \A x \in Requests : x # r => g[x] = f[x]
      BY <1>3, <1>4, <1>7
    <3>2. Sum(g) = Sum(f) - f[r] + g[r]
      BY <1>3, <1>4, <3>1, SumOfChanged
    <3>3. QED
      BY <3>1, <3>2
  <2>2. f[r] \in Int
    BY <1>3
  <2>3. QED
    BY <1>3, <1>4, <1>7, <2>1, <2>2
<1>8. ASSUME NEW r \in Requests, Account(l)!Reserve(r)
      PROVE  d + e + Sum(g) + Sum(u) = b + c + Sum(f) + Sum(s)
  <2>1. f[r] = 0 /\ g = [f EXCEPT ![r] = b - d] /\ u = s /\ e = c
    BY <1>1, <1>2, <1>8 DEF Account!Reserve, Balance, Billed, Outs
  <2>2. b - d \in Int /\ d + e = b + c + f[r] - (b - d)
    BY <1>3, <1>4, <2>1
  <2>3. QED
    BY <1>7, <2>1, <2>2
<1>9. ASSUME NEW r \in Requests, Account(l)!Serve(r)
      PROVE  d + e + Sum(g) + Sum(u) = b + c + Sum(f) + Sum(s)
  <2>1. g = [f EXCEPT ![r] = f[r] - (e - c)] /\ u = s /\ d = b
    BY <1>1, <1>2, <1>9 DEF Account!Serve, Balance, Billed, Outs
  <2>2. f[r] \in Int
    BY <1>3
  <2>3. f[r] - (e - c) \in Int /\ d + e = b + c + f[r] - (f[r] - (e - c))
    BY <1>3, <1>4, <2>1, <2>2
  <2>4. QED
    BY <1>7, <2>1, <2>3
<1>10. ASSUME NEW r \in Requests, Account(l)!Square(r)
       PROVE  d + e + Sum(g) + Sum(u) = b + c + Sum(f) + Sum(s)
  <2>1. g = [f EXCEPT ![r] = 0] /\ u = s /\ d = b + f[r] /\ e = c
    BY <1>1, <1>2, <1>10 DEF Account!Square, Balance, Billed, Outs
  <2>2. f[r] \in Int
    BY <1>3
  <2>3. 0 \in Int /\ d + e = b + c + f[r] - 0
    BY <1>3, <1>4, <2>1, <2>2
  <2>4. QED
    BY <1>7, <2>1, <2>3
<1>11. ASSUME NEW S \in SUBSET Requests, Account(l)!Abandon(S)
       PROVE  d + e + Sum(g) + Sum(u) = b + c + Sum(f) + Sum(s)
  <2>1. /\ d = b /\ e = c
        /\ g = [x \in Requests |-> IF x \in S THEN 0 ELSE f[x]]
        /\ u = [x \in Requests |-> IF x \in S THEN s[x] + f[x] ELSE s[x]]
    BY <1>1, <1>2, <1>11 DEF Account!Abandon, Balance, Billed, Outs
  <2>2. \A x \in Requests : f[x] + s[x] = g[x] + u[x]
    BY <1>3, <2>1
  <2>3. Sum(g) + Sum(u) = Sum(f) + Sum(s)
    BY <1>3, <1>4, <2>2, SumOfMoved
  <2>4. QED
    BY <1>3, <1>4, <2>1, <2>3
<1>12. QED
  BY <1>6, <1>8, <1>9, <1>10, <1>11 DEF AccountStep, Account!Next

LEMMA InitConserved == Init => Conserved
<1> SUFFICES ASSUME Init, NEW l \in Ledgers
             PROVE  Total(l) = Funded(l)
  BY DEF Conserved
<1>1. /\ Balance(l) = Funded(l) /\ Billed(l) = 0
      /\ Outs(l) = [r \in Requests |-> 0] /\ stranded[l] = [r \in Requests |-> 0]
  BY InitAccount DEF Account!Init, Balance, Billed, Outs, Funded
<1>2. Sum([r \in Requests |-> 0]) = 0
  BY RequestsAssumption, SumOfZeros
<1>3. Funded(l) \in Int
  BY DEF Funded, Ledgers
<1>4. QED
  BY <1>1, <1>2, <1>3 DEF Total

LEMMA AccountsConserved == Spec => [](TypeOK /\ Conserved)
<1>1. ASSUME TypeOK, ControlOK, TypeOK', Conserved, [Next]_vars
      PROVE  Conserved'
  <2>1. ASSUME NEW l \in Ledgers
        PROVE  AccountStep(l)
    <3>1. CASE Next
      BY <1>1, <3>1, StepAccount
    <3>2. CASE UNCHANGED vars
      BY <3>2, Stutter, SameBooks DEF vars, Outs
    <3>3. QED
      BY <1>1, <3>1, <3>2
  <2>2. QED
    BY <1>1, <2>1, AccountConserves DEF Conserved, Funded
<1>2. QED
  BY <1>1, InitConserved, TypeCorrect, PTL DEF Spec

\* Whatever the requests, amounts, failed writes and crashes, batched or not:
\* the user's quota is available, billed to used_quota, held or owed by a
\* request in flight, or was lost to a fault, and nothing else becomes of it.
THEOREM UserFundsKept == Spec => []UserFundsConserved
<1>1. TypeOK /\ Conserved => UserFundsConserved
  <2> SUFFICES ASSUME TypeOK, Conserved PROVE UserFundsConserved
    OBVIOUS
  <2>1. "quota" \in Ledgers /\ Total("quota") = UserFunded
    BY DEF Conserved, Funded, Ledgers
  <2>2. Outs("quota") = [r \in Requests |-> UserOut(req[r])]
    BY DEF Outs, Out
  <2>3. /\ Book("quota") \in Int /\ Book("used") \in Int
        /\ dropped["quota"] \in Int /\ dropped["used"] \in Int
    BY LedgerColumns DEF Book, TypeOK
  <2>4. Sum(Outs("quota")) \in Int /\ Sum(stranded["quota"]) \in Int
    BY <2>1, AccountTypes
  <2>5. QED
    BY <2>1, <2>2, <2>3, <2>4 DEF UserFundsConserved, Total, Balance, Billed
<1>2. QED
  BY <1>1, AccountsConserved, PTL

\* The same for the quota of each token, which is charged by statements of its
\* own: it is charged the price the user was charged, or a fault lost it.
THEOREM TokenFundsKept == Spec => []TokenFundsConserved
<1>1. TypeOK /\ Conserved => TokenFundsConserved
  <2> SUFFICES ASSUME TypeOK, Conserved, NEW t \in Tokens
               PROVE  Book(t) + tokenBilled[t] + dropped[t]
                        + Sum([r \in Requests |-> Out(t, req[r])])
                        + Sum(stranded[t]) = TokenFunded[t]
    BY DEF TokenFundsConserved
  <2>1. t \in Ledgers /\ t # "quota" /\ Total(t) = TokenFunded[t]
    BY DEF Conserved, Funded, Ledgers
  <2>2. Book(t) \in Int /\ dropped[t] \in Int /\ tokenBilled[t] \in Int
    BY DEF Book, TypeOK, Columns
  <2>3. Sum(Outs(t)) \in Int /\ Sum(stranded[t]) \in Int
    BY <2>1, AccountTypes
  <2>4. QED
    BY <2>1, <2>2, <2>3 DEF Total, Balance, Billed, Outs
<1>2. QED
  BY <1>1, AccountsConserved, PTL

-----------------------------------------------------------------------------
(* Overdraft: what the requests in flight can still take is bounded.       *)

\* The most a request can still take from the user's quota: it passed
\* CheckUserQuota and its price, of which final is already held, is not settled.
UserRisk(q) ==
    CASE q.pc \in {"check_token", "hold_token", "hold_user"} -> Worst
      [] q.pc = "upstream" /\ ~q.free -> Worst - q.final
      [] q.pc = "post_user" /\ q.delta > 0 -> q.delta
      [] OTHER -> 0

\* The most it can still take from its token: it passed TokenAuth, whatever the
\* model.
TokenRisk(q) ==
    CASE q.pc \in {"check_user", "check_token", "hold_token"} -> Worst
      [] q.pc = "hold_user" -> Worst - q.pre
      [] q.pc = "upstream" -> Worst - q.final
      [] q.pc \in {"post_user", "post_token"} /\ q.delta > 0 -> q.delta
      [] OTHER -> 0

Risk(l, q) ==
    IF l = "quota" THEN UserRisk(q) ELSE IF q.tok = l THEN TokenRisk(q) ELSE 0

Risks(l) == [r \in Requests |-> Risk(l, req[r])]

\* No hold or payment exceeds the worst charge, and a request to a model priced
\* zero holds nothing.
Priced(q) ==
    /\ q.pre <= Worst /\ q.final <= Worst /\ q.delta <= Worst
    /\ q.free => q.pc \in {"upstream", "post_user", "post_token"} /\ q.final = 0

\* A balance, without what was served on it unseen.
Kept(l) == db[l] + IF l = "quota" THEN unchecked ELSE 0

\* It covers what is at risk down to the bound, or down to what was funded.
Covered(l) ==
    \/ Kept(l) - Sum(Risks(l)) >= 1 - Cardinality(Requests) * Worst
    \/ Kept(l) - Sum(Risks(l)) >= Funded(l)

RiskInv ==
    /\ \A r \in Requests : Priced(req[r])
    /\ \A c \in Columns : drain[c] = 0
    /\ \A l \in Ledgers \ UnlimitedTokens : Covered(l)

\* The greatest charge exists: amounts are finitely many.
LEMMA WorstCharge ==
    Worst \in Nat /\ \A x \in Estimates \cup Prices : x <= Worst
<1>1. \E m \in Estimates \cup Prices : \A x \in Estimates \cup Prices : x <= m
  BY ChargesAssumption, Greatest
<1>2. /\ Worst \in Estimates \cup Prices
      /\ \A x \in Estimates \cup Prices : x <= Worst
  BY <1>1 DEF Worst
<1>3. QED
  BY <1>2

\* What is at risk lies between nothing and the worst charge.
LEMMA RiskRange ==
    ASSUME NEW q \in Request, Priced(q), NEW l
    PROVE  Risk(l, q) \in Int /\ 0 <= Risk(l, q) /\ Risk(l, q) <= Worst
<1>1. /\ q.pre \in Nat /\ q.final \in Nat /\ q.delta \in Int /\ Worst \in Nat
      /\ q.pre <= Worst /\ q.final <= Worst /\ q.delta <= Worst
  BY WorstCharge DEF Request, Priced
<1>2. UserRisk(q) \in Int /\ 0 <= UserRisk(q) /\ UserRisk(q) <= Worst
  BY <1>1 DEF UserRisk
<1>3. TokenRisk(q) \in Int /\ 0 <= TokenRisk(q) /\ TokenRisk(q) <= Worst
  BY <1>1 DEF TokenRisk
<1>4. QED
  BY <1>1, <1>2, <1>3 DEF Risk

LEMMA IdleRisk == Priced(Idle) /\ \A l : Risk(l, Idle) = 0
BY WorstCharge DEF Priced, Idle, Risk, UserRisk, TokenRisk

\* The risks of a whole table of requests.
LEMMA RisksOf ==
    ASSUME NEW f \in [Requests -> Int],
           \A r \in Requests : 0 <= f[r] /\ f[r] <= Worst
    PROVE  /\ Sum(f) \in Int /\ 0 <= Sum(f)
           /\ Sum(f) <= Cardinality(Requests) * Worst
<1>1. \A r \in Requests : 0 <= f[r]
  OBVIOUS
<1>2. \A r \in Requests : f[r] <= Worst
  OBVIOUS
<1>3. 0 <= Sum(f)
  BY <1>1, RequestsAssumption, SumNatural
<1>4. Worst \in Int
  BY WorstCharge
<1>5. Sum(f) <= Cardinality(Requests) * Worst
  BY <1>2, <1>4, RequestsAssumption, SumBounded
<1>6. Sum(f) \in Int
  BY RequestsAssumption, SumFolds, SumOnType
<1>7. QED
  BY <1>3, <1>5, <1>6

LEMMA RisksType ==
    ASSUME NEW l, req \in [Requests -> Request],
           \A r \in Requests : Priced(req[r])
    PROVE  /\ Risks(l) \in [Requests -> Int]
           /\ \A r \in Requests : /\ Risks(l)[r] = Risk(l, req[r])
                                 /\ 0 <= Risks(l)[r] /\ Risks(l)[r] <= Worst
<1>1. ASSUME NEW r \in Requests
      PROVE  /\ Risk(l, req[r]) \in Int /\ 0 <= Risk(l, req[r])
             /\ Risk(l, req[r]) <= Worst
  BY RiskRange
<1>2. QED
  BY <1>1 DEF Risks

LEMMA RisksTypeNext ==
    ASSUME NEW l, req' \in [Requests -> Request],
           \A r \in Requests : Priced(req'[r])
    PROVE  /\ Risks(l)' \in [Requests -> Int]
           /\ \A r \in Requests : /\ Risks(l)'[r] = Risk(l, req'[r])
                                 /\ 0 <= Risks(l)'[r] /\ Risks(l)'[r] <= Worst
<1>1. ASSUME NEW r \in Requests
      PROVE  /\ Risk(l, req'[r]) \in Int /\ 0 <= Risk(l, req'[r])
             /\ Risk(l, req'[r]) <= Worst
  BY RiskRange
<1>2. QED
  BY <1>1 DEF Risks

LEMMA KeptType ==
    ASSUME TypeOK, NEW l \in Ledgers
    PROVE  Kept(l) \in Int /\ db[l] \in Int /\ Kept(l) >= db[l]
BY LedgerColumns DEF TypeOK, Kept

\* The bounds of Covered.
LEMMA BoundTypes ==
    ASSUME NEW l \in Ledgers
    PROVE  Cardinality(Requests) * Worst \in Int /\ Funded(l) \in Int
<1>1. Cardinality(Requests) \in Nat /\ Worst \in Nat
  BY RequestsAssumption, FS_CardinalityType, WorstCharge
<1>2. Cardinality(Requests) * Worst \in Int
  BY <1>1
<1>3. Funded(l) \in Int
  BY DEF Funded, Ledgers
<1>4. QED
  BY <1>2, <1>3

\* Admission against the ledger l reads a positive balance and takes nothing
\* yet; whatever is at risk afterwards is within the bound.
LEMMA CoveredByAdmission ==
    ASSUME TypeOK, req' \in [Requests -> Request], NEW l \in Ledgers,
           \A r \in Requests : Priced(req'[r]), Kept(l)' = Kept(l), Kept(l) >= 1
    PROVE  Covered(l)'
<1>1. PICK f \in [Requests -> Int] :
         /\ f = Risks(l)'
         /\ \A x \in Requests : 0 <= f[x] /\ f[x] <= Worst
  BY RisksTypeNext
<1>2. Sum(f) \in Int /\ Sum(f) <= Cardinality(Requests) * Worst
  BY <1>1, RisksOf
<1>3. PICK k \in Int : k = Kept(l)
  BY KeptType
<1>4. k - Sum(f) >= 1 - Cardinality(Requests) * Worst
  BY <1>2, <1>3, BoundTypes
<1>5. Kept(l)' - Sum(Risks(l)') >= 1 - Cardinality(Requests) * Worst
  BY <1>1, <1>3, <1>4, Zenon
<1>6. QED
  BY <1>5 DEF Covered

\* A step of r that takes from l no more than it lowers the risk of r by.
LEMMA CoveredByRisk ==
    ASSUME TypeOK, req' \in [Requests -> Request], NEW l \in Ledgers,
           \A r \in Requests : Priced(req[r]),
           \A r \in Requests : Priced(req'[r]),
           Covered(l), NEW r \in Requests, Kept(l)' \in Int,
           \A x \in Requests : x # r => req'[x] = req[x],
           Kept(l)' - Risk(l, req'[r]) >= Kept(l) - Risk(l, req[r])
    PROVE  Covered(l)'
<1>1. PICK f \in [Requests -> Int] :
         /\ f = Risks(l)'
         /\ \A x \in Requests : f[x] = Risk(l, req'[x])
         /\ \A x \in Requests : 0 <= f[x] /\ f[x] <= Worst
  BY RisksTypeNext
<1>2. PICK e \in [Requests -> Int] :
         /\ e = Risks(l)
         /\ \A x \in Requests : e[x] = Risk(l, req[x])
         /\ \A x \in Requests : 0 <= e[x] /\ e[x] <= Worst
  BY RisksType DEF TypeOK
<1>3. f \in [Requests -> Int] /\ Sum(f) \in Int /\ f[r] \in Int
  BY <1>1, RisksOf
<1>4. e \in [Requests -> Int] /\ Sum(e) \in Int /\ e[r] \in Int
  BY <1>2, RisksOf
<1>5. \A x \in Requests : x # r => f[x] = e[x]
  BY <1>1, <1>2
<1>6. Sum(f) = Sum(e) - e[r] + f[r]
  BY <1>3, <1>4, <1>5, SumOfChanged
<1>7. PICK k \in Int, kk \in Int : k = Kept(l) /\ kk = Kept(l)'
  BY KeptType
<1>8. kk - f[r] >= k - e[r]
  BY <1>1, <1>2, <1>7
<1>9. kk - Sum(f) >= k - Sum(e)
  BY <1>3, <1>4, <1>6, <1>7, <1>8
<1>10. \/ k - Sum(e) >= 1 - Cardinality(Requests) * Worst
       \/ k - Sum(e) >= Funded(l)
  BY <1>2, <1>7, Zenon DEF Covered
<1>11. \/ kk - Sum(f) >= 1 - Cardinality(Requests) * Worst
       \/ kk - Sum(f) >= Funded(l)
  BY <1>3, <1>4, <1>7, <1>9, <1>10, BoundTypes
<1>12. \/ Kept(l)' - Sum(Risks(l)') >= 1 - Cardinality(Requests) * Worst
       \/ Kept(l)' - Sum(Risks(l)') >= Funded(l)
  BY <1>1, <1>7, <1>11, Zenon
<1>13. QED
  BY <1>12 DEF Covered, Funded

-----------------------------------------------------------------------------
(* One lemma per action: what it takes was at risk. *)

Direct == ~BatchUpdateEnabled

\* Replacing the record of r by q is an admission against l, or takes from l
\* no more than it lowers the risk by.
Allowed(l, r, q) ==
    \/ Kept(l) >= 1 /\ Kept(l)' = Kept(l)
    \/ Kept(l)' - Risk(l, q) >= Kept(l) - Risk(l, req[r])

LEMMA MoveCovered ==
    ASSUME TypeOK, RiskInv, NEW r \in Requests, NEW q \in Request, Priced(q),
           req' = [req EXCEPT ![r] = q], drain' = drain,
           db' \in [Columns -> Int], unchecked' \in Nat,
           \A l \in Ledgers \ UnlimitedTokens : Allowed(l, r, q)
    PROVE  RiskInv'
<1>1. /\ req' \in [Requests -> Request] /\ req'[r] = q
      /\ \A x \in Requests : x # r => req'[x] = req[x]
  BY DEF TypeOK
<1>2. \A x \in Requests : Priced(req[x])
  BY DEF RiskInv
<1>3. \A x \in Requests : Priced(req'[x])
  BY <1>1, <1>2
<1>4. ASSUME NEW l \in Ledgers \ UnlimitedTokens
      PROVE  Covered(l)'
  <2>1. l \in Ledgers /\ Kept(l)' \in Int /\ Covered(l)
    BY LedgerColumns DEF RiskInv, Kept
  <2>2. CASE Kept(l) >= 1 /\ Kept(l)' = Kept(l)
    BY <1>1, <1>3, <2>1, <2>2, CoveredByAdmission
  <2>3. CASE Kept(l)' - Risk(l, q) >= Kept(l) - Risk(l, req[r])
    BY <1>1, <1>2, <1>3, <2>1, <2>3, CoveredByRisk
  <2>4. QED
    BY <2>2, <2>3 DEF Allowed
<1>5. \A c \in Columns : drain'[c] = 0
  BY DEF RiskInv
<1>6. QED
  BY <1>3, <1>4, <1>5 DEF RiskInv, Priced

\* What a step may take, where nothing was served unseen.
LEMMA TakesRisk ==
    ASSUME TypeOK, unchecked' = unchecked, NEW l \in Ledgers, NEW r, NEW q,
           db'[l] \in Int, Risk(l, q) \in Int, Risk(l, req[r]) \in Int,
           db'[l] - Risk(l, q) >= db[l] - Risk(l, req[r])
    PROVE  Allowed(l, r, q)
BY LedgerColumns DEF TypeOK, Allowed, Kept

\* A move that writes nothing and puts no more at risk.
LEMMA QuietCovered ==
    ASSUME TypeOK, RiskInv, NEW r \in Requests, NEW q \in Request, Priced(q),
           req' = [req EXCEPT ![r] = q], UNCHANGED <<db, drain, unchecked>>,
           \A l \in Ledgers \ UnlimitedTokens :
               Risk(l, q) <= Risk(l, req[r]) \/ db[l] >= 1
    PROVE  RiskInv'
<1>1. /\ req[r] \in Request /\ Priced(req[r])
      /\ \A l : Risk(l, q) \in Int /\ Risk(l, req[r]) \in Int
  BY RiskRange DEF TypeOK, RiskInv
<1>2. ASSUME NEW l \in Ledgers \ UnlimitedTokens
      PROVE  Allowed(l, r, q)
  <2>1. Kept(l)' = Kept(l)
    BY DEF Kept
  <2>2. QED
    BY <1>1, <2>1, KeptType DEF Allowed
<1>3. QED
  BY <1>2, MoveCovered DEF TypeOK

LEMMA FinishCovered ==
    ASSUME TypeOK, RiskInv, NEW r \in Requests, Finish(r),
           UNCHANGED <<db, drain, unchecked>>
    PROVE  RiskInv'
<1>1. req[r] \in Request /\ Priced(req[r])
  BY DEF TypeOK, RiskInv
<1>2. \A l : Risk(l, Idle) <= Risk(l, req[r])
  BY <1>1, IdleRisk, RiskRange
<1>3. QED
  BY <1>2, IdleRisk, IdleType, QuietCovered DEF Finish

LEMMA DirectAdd ==
    ASSUME TypeOK, Direct, NEW c \in Columns, NEW v \in Int, Add(c, v)
    PROVE  /\ db' \in [Columns -> Int]
           /\ \A l \in Ledgers : db'[l] = IF l = c THEN db[l] + v ELSE db[l]
           /\ \A l \in Ledgers : db[l] \in Int
BY LedgerColumns DEF TypeOK, Direct, Add

\* What the invariants say of the record of a request before its step.
LEMMA Before ==
    ASSUME TypeOK, ControlOK, RiskInv, NEW r \in Requests
    PROVE  /\ req[r] \in Request /\ Priced(req[r]) /\ Sound(req[r])
           /\ req[r].pre \in Nat /\ req[r].final \in Nat /\ req[r].delta \in Int
           /\ req[r].free \in BOOLEAN /\ req[r].tok \in Tokens \cup {NoToken}
           /\ req[r].pre <= Worst /\ req[r].final <= Worst /\ req[r].delta <= Worst
           /\ req[r].free =>
                 req[r].pc \in {"upstream", "post_user", "post_token"} /\ req[r].final = 0
           /\ \A l : Risk(l, req[r]) \in Int /\ 0 <= Risk(l, req[r])
           /\ Worst \in Nat
<1>1. req[r] \in Request /\ Priced(req[r]) /\ Sound(req[r])
  BY DEF TypeOK, RiskInv, ControlOK, Sound
<1>2. QED
  BY <1>1, RiskRange, WorstCharge DEF Request, Priced

LEMMA TokenAuthCovered ==
    ASSUME TypeOK, ControlOK, RiskInv, NEW r \in Requests, NEW t \in Tokens,
           NEW p \in Estimates, TokenAuth(r, t, p)
    PROVE  RiskInv'
<1> DEFINE q == req'[r]
<1>1. q \in Request
  BY TokenAuthInv DEF TypeOK
<1>2. req' = [req EXCEPT ![r] = q]
  BY DEF TokenAuth, TypeOK
<1>3. /\ q.pc = IF t \notin UnlimitedTokens /\ db[t] <= 0
                THEN "exhaust" ELSE "check_user"
      /\ q.tok = t /\ q.pre = p /\ q.final = 0 /\ q.delta = 0 /\ q.free = FALSE
  BY DEF TokenAuth, TypeOK, Idle
<1>4. Priced(q)
  BY <1>3, WorstCharge DEF Priced
<1>5. ASSUME NEW l \in Ledgers \ UnlimitedTokens
      PROVE  Risk(l, q) <= Risk(l, req[r]) \/ db[l] >= 1
  <2>1. l \in Columns /\ db[l] \in Int
    BY LedgerColumns DEF TypeOK
  <2>2. Risk(l, q) = 0 \/ db[l] >= 1
    BY <1>3, <2>1 DEF Risk, UserRisk, TokenRisk
  <2>3. QED
    BY <2>2, Before
<1>6. QED
  BY <1>1, <1>2, <1>4, <1>5, QuietCovered DEF TokenAuth

LEMMA PlaygroundAuthCovered ==
    ASSUME TypeOK, ControlOK, RiskInv, NEW r \in Requests, NEW p \in Estimates,
           PlaygroundAuth(r, p)
    PROVE  RiskInv'
<1> DEFINE q == req'[r]
<1>1. q \in Request
  BY PlaygroundAuthInv DEF TypeOK
<1>2. req' = [req EXCEPT ![r] = q]
  BY DEF PlaygroundAuth, TypeOK
<1>3. /\ q.pc = "check_user" /\ q.tok = NoToken /\ q.pre = p /\ q.final = 0
      /\ q.delta = 0 /\ q.free = FALSE
  BY DEF PlaygroundAuth, TypeOK, Idle
<1>4. Priced(q)
  BY <1>3, WorstCharge DEF Priced
<1>5. \A l \in Ledgers : Risk(l, q) = 0
  BY <1>3 DEF Risk, UserRisk, Ledgers
<1>6. \A l \in Ledgers : Risk(l, q) <= Risk(l, req[r])
  BY <1>5, Before
<1>7. QED
  BY <1>1, <1>2, <1>4, <1>6, QuietCovered DEF PlaygroundAuth

LEMMA SkipPreConsumeCovered ==
    ASSUME TypeOK, ControlOK, RiskInv, NEW r \in Requests, SkipPreConsume(r)
    PROVE  RiskInv'
<1> DEFINE q == [req[r] EXCEPT !.pc = "upstream", !.free = TRUE]
<1>1. req[r] \in Request /\ req[r].final = 0
  BY DEF TypeOK, ControlOK, SkipPreConsume
<1>2. /\ q \in Request /\ q.pc = "upstream" /\ q.final = 0 /\ q.free = TRUE
      /\ q.pre = req[r].pre /\ q.delta = req[r].delta
  BY <1>1 DEF Request, PCs
<1>3. Priced(q)
  BY <1>2, Before, WorstCharge DEF Priced
<1>4. req[r].pc = "check_user" /\ q.tok = req[r].tok /\ Worst \in Nat
  BY <1>1, WorstCharge DEF SkipPreConsume, Request
<1>5. \A l \in Ledgers : Risk(l, q) <= Risk(l, req[r])
  BY <1>2, <1>4 DEF Risk, UserRisk, TokenRisk
<1>6. req' = [req EXCEPT ![r] = q] /\ UNCHANGED <<db, drain, unchecked>>
  BY DEF SkipPreConsume
<1> HIDE DEF q
<1>7. QED
  BY <1>2, <1>3, <1>5, <1>6, QuietCovered

LEMMA RetryUpstreamCovered ==
    ASSUME TypeOK, ControlOK, RiskInv, NEW r \in Requests, RetryUpstream(r)
    PROVE  RiskInv'
<1> DEFINE q == [req[r] EXCEPT !.attempt = @ + 1]
<1>1. req[r] \in Request
  BY DEF TypeOK
<1>2. /\ q \in Request /\ q.pc = req[r].pc /\ q.final = req[r].final
      /\ q.tok = req[r].tok /\ q.pre = req[r].pre /\ q.delta = req[r].delta
      /\ q.free = req[r].free
  BY <1>1 DEF Request
<1>3. Priced(q) /\ \A l : Risk(l, q) = Risk(l, req[r])
  BY <1>2, Before DEF Priced, Risk, UserRisk, TokenRisk
<1>4. ASSUME NEW l \in Ledgers
      PROVE  Risk(l, q) <= Risk(l, req[r])
  <2>1. Risk(l, req[r]) \in Int /\ Risk(l, q) = Risk(l, req[r])
    BY <1>3, Before
  <2> HIDE DEF q
  <2>2. QED
    BY <2>1
<1>5. req' = [req EXCEPT ![r] = q] /\ UNCHANGED <<db, drain, unchecked>>
  BY DEF RetryUpstream
<1> HIDE DEF q
<1>6. QED
  BY <1>2, <1>3, <1>4, <1>5, QuietCovered

LEMMA HangUpstreamCovered ==
    ASSUME TypeOK, ControlOK, RiskInv, NEW r \in Requests, HangUpstream(r)
    PROVE  RiskInv'
<1> DEFINE q == [req[r] EXCEPT !.hung = TRUE]
<1>1. req[r] \in Request
  BY DEF TypeOK
<1>2. /\ q \in Request /\ q.pc = req[r].pc /\ q.final = req[r].final
      /\ q.tok = req[r].tok /\ q.pre = req[r].pre /\ q.delta = req[r].delta
      /\ q.free = req[r].free
  BY <1>1 DEF Request
<1>3. Priced(q) /\ \A l : Risk(l, q) = Risk(l, req[r])
  <2>1. Priced(q)
    BY <1>2, Before DEF Priced
  <2>2. UserRisk(q) = UserRisk(req[r]) /\ TokenRisk(q) = TokenRisk(req[r])
    BY <1>2 DEF UserRisk, TokenRisk
  <2>3. QED
    BY <1>2, <2>1, <2>2 DEF Risk
<1>4. ASSUME NEW l \in Ledgers
      PROVE  Risk(l, q) <= Risk(l, req[r])
  <2>1. Risk(l, req[r]) \in Int /\ Risk(l, q) = Risk(l, req[r])
    BY <1>3, Before
  <2> HIDE DEF q
  <2>2. QED
    BY <2>1
<1>5. req' = [req EXCEPT ![r] = q] /\ UNCHANGED <<db, drain, unchecked>>
  BY DEF HangUpstream
<1> HIDE DEF q
<1>6. QED
  BY <1>2, <1>3, <1>4, <1>5, QuietCovered

LEMMA CheckUserQuotaCovered ==
    ASSUME TypeOK, ControlOK, RiskInv, NEW r \in Requests, CheckUserQuota(r)
    PROVE  RiskInv'
<1> DEFINE lab == IF Playground(r) THEN "hold_user" ELSE "check_token"
           a == [req[r] EXCEPT !.pc = "upstream", !.final = 0]
           g == [req[r] EXCEPT !.pc = lab]
<1>1. /\ req[r] \in Request /\ req[r].pc = "check_user" /\ ~req[r].free
      /\ "upstream" \in PCs /\ lab \in PCs
      /\ lab = "hold_user" => req[r].tok = NoToken
      /\ lab \in {"hold_user", "check_token"}
  BY Before DEF CheckUserQuota, PCs, Playground
<1>2. CASE Finish(r)
  BY <1>2, FinishCovered DEF CheckUserQuota
<1>3. CASE db["quota"] > 0 /\ Admit(r, 0)
  <2>1. /\ a \in Request /\ a.pc = "upstream" /\ a.final = 0
        /\ a.free = req[r].free /\ a.tok = req[r].tok /\ a.pre = req[r].pre
        /\ a.delta = req[r].delta
    BY <1>1 DEF Request
  <2>2. Priced(a)
    BY <1>1, <2>1, Before DEF Priced
  <2>3. ASSUME NEW l \in Ledgers
        PROVE  Risk(l, a) <= Risk(l, req[r]) \/ db[l] >= 1
    <3>1. CASE l = "quota"
      BY <1>3, <3>1, LedgerColumns DEF TypeOK
    <3>2. CASE l # "quota"
      BY <1>1, <2>1, <3>2, WorstCharge DEF Risk, TokenRisk
    <3>3. QED
      BY <3>1, <3>2
  <2>4. QED
    BY <1>3, <2>1, <2>2, <2>3, QuietCovered DEF Admit, CheckUserQuota
<1>4. CASE db["quota"] > 0 /\ Goto(r, lab)
  <2> HIDE DEF lab
  <2>1. /\ g \in Request /\ g.pc = lab /\ g.final = req[r].final
        /\ g.free = req[r].free /\ g.tok = req[r].tok /\ g.pre = req[r].pre
        /\ g.delta = req[r].delta
    BY <1>1 DEF Request
  <2>2. Priced(g)
    BY <1>1, <2>1, Before DEF Priced
  <2>3. ASSUME NEW l \in Ledgers
        PROVE  Risk(l, g) <= Risk(l, req[r]) \/ db[l] >= 1
    <3>1. CASE l = "quota"
      BY <1>4, <3>1, LedgerColumns DEF TypeOK
    <3>2. CASE l # "quota" /\ lab = "check_token"
      BY <1>1, <2>1, <3>2, WorstCharge DEF Risk, TokenRisk
    <3>3. CASE l # "quota" /\ lab = "hold_user"
      BY <1>1, <2>1, <3>3, WorstCharge DEF Risk, Ledgers
    <3>4. QED
      BY <1>1, <3>1, <3>2, <3>3
  <2>4. req' = [req EXCEPT ![r] = g]
    BY <1>4 DEF Goto
  <2> HIDE DEF g
  <2>5. QED
    BY <2>1, <2>2, <2>3, <2>4, QuietCovered DEF CheckUserQuota
<1>5. QED
  BY <1>2, <1>3, <1>4 DEF CheckUserQuota

LEMMA CheckTokenQuotaCovered ==
    ASSUME TypeOK, ControlOK, RiskInv, NEW r \in Requests, CheckTokenQuota(r)
    PROVE  RiskInv'
<1> DEFINE g == [req[r] EXCEPT !.pc = "hold_token"]
<1>1. req[r] \in Request /\ req[r].pc = "check_token" /\ "hold_token" \in PCs
  BY DEF TypeOK, CheckTokenQuota, PCs
<1>2. CASE Finish(r)
  BY <1>2, FinishCovered DEF CheckTokenQuota
<1>3. CASE Goto(r, "hold_token")
  <2>1. /\ g \in Request /\ g.pc = "hold_token" /\ g.final = req[r].final
        /\ g.free = req[r].free /\ g.tok = req[r].tok /\ g.pre = req[r].pre
        /\ g.delta = req[r].delta
    BY <1>1 DEF Request
  <2>2. Priced(g)
    BY <1>1, <2>1, Before DEF Priced
  <2>3. \A l : Risk(l, g) = Risk(l, req[r])
    BY <1>1, <2>1 DEF Risk, UserRisk, TokenRisk
  <2>4. \A l \in Ledgers : Risk(l, g) <= Risk(l, req[r])
    BY <2>3, Before
  <2>5. req' = [req EXCEPT ![r] = g] /\ UNCHANGED <<db, drain, unchecked>>
    BY <1>3 DEF Goto, CheckTokenQuota
  <2> HIDE DEF g
  <2>6. QED
    BY <2>1, <2>2, <2>4, <2>5, QuietCovered
<1>4. QED
  BY <1>2, <1>3 DEF CheckTokenQuota

LEMMA HoldTokenCovered ==
    ASSUME TypeOK, ControlOK, RiskInv, Direct, NEW r \in Requests, HoldToken(r)
    PROVE  RiskInv'
<1> DEFINE t == req[r].tok
           g == [req[r] EXCEPT !.pc = "hold_user"]
<1>1. /\ req[r] \in Request /\ req[r].pc = "hold_token" /\ "hold_user" \in PCs
      /\ t \in Tokens /\ t \in Columns /\ t # "quota"
      /\ req[r].pre \in Nat /\ -req[r].pre \in Int
  BY Before DEF HoldToken, Sound, PCs, Columns
<1>2. CASE Add(t, -req[r].pre) /\ Goto(r, "hold_user")
  <2>1. /\ g \in Request /\ g.pc = "hold_user" /\ g.final = req[r].final
        /\ g.free = req[r].free /\ g.tok = t /\ g.pre = req[r].pre
        /\ g.delta = req[r].delta
    BY <1>1 DEF Request
  <2>2. Priced(g)
    BY <1>1, <2>1, Before DEF Priced
  <2>3. /\ db' \in [Columns -> Int]
        /\ \A l \in Ledgers : db'[l] = IF l = t THEN db[l] + (-req[r].pre) ELSE db[l]
        /\ \A l \in Ledgers : db[l] \in Int
    BY <1>1, <1>2, DirectAdd
  <2>4. ASSUME NEW l \in Ledgers
        PROVE  Allowed(l, r, g)
    <3>1. /\ db[l] \in Int /\ Worst \in Nat
          /\ db'[l] = IF l = t THEN db[l] + (-req[r].pre) ELSE db[l]
      BY <2>3, WorstCharge
    <3>2. Risk(l, req[r]) = IF l \in {"quota", t} THEN Worst ELSE 0
      BY <1>1 DEF Risk, UserRisk, TokenRisk
    <3>3. Risk(l, g) = IF l = "quota" THEN Worst
                       ELSE IF l = t THEN Worst - req[r].pre ELSE 0
      BY <1>1, <2>1 DEF Risk, UserRisk, TokenRisk
    <3>4. /\ db'[l] \in Int /\ Risk(l, g) \in Int /\ Risk(l, req[r]) \in Int
          /\ db'[l] - Risk(l, g) >= db[l] - Risk(l, req[r])
      BY <1>1, <3>1, <3>2, <3>3
    <3>5. unchecked' = unchecked
      BY DEF HoldToken
    <3> HIDE DEF g
    <3>6. QED
      BY <3>4, <3>5, TakesRisk
  <2>5. /\ req' = [req EXCEPT ![r] = g] /\ UNCHANGED <<drain, unchecked>>
        /\ unchecked' \in Nat
    BY <1>2 DEF Goto, HoldToken, TypeOK
  <2> HIDE DEF g
  <2>6. QED
    BY <2>1, <2>2, <2>3, <2>4, <2>5, MoveCovered
<1>3. CASE AddFails /\ Finish(r)
  BY <1>3, FinishCovered DEF AddFails, HoldToken
<1>4. QED
  BY <1>2, <1>3 DEF HoldToken

LEMMA HoldUserCovered ==
    ASSUME TypeOK, ControlOK, RiskInv, Direct, NEW r \in Requests, HoldUser(r)
    PROVE  RiskInv'
<1> DEFINE a == [req[r] EXCEPT !.pc = "upstream", !.final = req[r].pre]
<1>1. /\ req[r] \in Request /\ req[r].pc = "hold_user" /\ "upstream" \in PCs
      /\ req[r].pre \in Nat /\ -req[r].pre \in Int /\ "quota" \in Columns
      /\ ~req[r].free
  BY Before DEF HoldUser, PCs, Columns
<1>2. CASE Add("quota", -req[r].pre) /\ Admit(r, req[r].pre)
  <2>1. /\ a \in Request /\ a.pc = "upstream" /\ a.final = req[r].pre
        /\ a.free = req[r].free /\ a.tok = req[r].tok /\ a.pre = req[r].pre
        /\ a.delta = req[r].delta
    BY <1>1 DEF Request
  <2>2. Priced(a)
    BY <1>1, <2>1, Before DEF Priced
  <2>3. /\ db' \in [Columns -> Int]
        /\ \A l \in Ledgers :
              db'[l] = IF l = "quota" THEN db[l] + (-req[r].pre) ELSE db[l]
        /\ \A l \in Ledgers : db[l] \in Int
    BY <1>1, <1>2, DirectAdd
  <2>4. ASSUME NEW l \in Ledgers
        PROVE  Allowed(l, r, a)
    <3>1. /\ db[l] \in Int /\ Worst \in Nat
          /\ db'[l] = IF l = "quota" THEN db[l] + (-req[r].pre) ELSE db[l]
      BY <2>3, WorstCharge
    <3>2. Risk(l, req[r]) = IF l = "quota" THEN Worst
                            ELSE IF l = req[r].tok THEN Worst - req[r].pre ELSE 0
      BY <1>1 DEF Risk, UserRisk, TokenRisk
    <3>3. Risk(l, a) = IF l \in {"quota", req[r].tok} THEN Worst - req[r].pre ELSE 0
      BY <1>1, <2>1 DEF Risk, UserRisk, TokenRisk
    <3>4. /\ db'[l] \in Int /\ Risk(l, a) \in Int /\ Risk(l, req[r]) \in Int
          /\ db'[l] - Risk(l, a) >= db[l] - Risk(l, req[r])
      BY <1>1, <3>1, <3>2, <3>3
    <3>5. unchecked' = unchecked
      BY DEF HoldUser
    <3> HIDE DEF a
    <3>6. QED
      BY <3>4, <3>5, TakesRisk
  <2>5. /\ req' = [req EXCEPT ![r] = a] /\ UNCHANGED <<drain, unchecked>>
        /\ unchecked' \in Nat
    BY <1>2 DEF Admit, HoldUser, TypeOK
  <2> HIDE DEF a
  <2>6. QED
    BY <2>1, <2>2, <2>3, <2>4, <2>5, MoveCovered
<1>3. CASE AddFails /\ Finish(r)
  BY <1>3, FinishCovered DEF AddFails, HoldUser
<1>4. QED
  BY <1>2, <1>3 DEF HoldUser

\* Posting v leaves v at risk, or nothing when it is a refund; what is posted of
\* a request nobody looked at is counted apart.
LEMMA PostCovered ==
    ASSUME TypeOK, ControlOK, RiskInv, NEW r \in Requests, NEW v \in Int,
           req[r].pc = "upstream", Post(r, v), v <= Worst - req[r].final,
           req[r].free => v >= 0,
           unchecked' = unchecked + IF req[r].free THEN v ELSE 0,
           db' \in [Columns -> Int], drain' = drain,
           \A l \in Ledgers : db'[l] = db[l]
    PROVE  RiskInv'
<1> DEFINE q == [req[r] EXCEPT !.pc = "post_user", !.delta = v]
<1>1. /\ req[r] \in Request /\ "post_user" \in PCs /\ Worst \in Nat
      /\ req[r].final \in Nat /\ req[r].final <= Worst
      /\ req[r].free \in BOOLEAN /\ req[r].free => req[r].final = 0
      /\ \A l : Risk(l, req[r]) \in Int /\ 0 <= Risk(l, req[r])
      /\ \A l \in Ledgers : db[l] \in Int
      /\ unchecked \in Nat
  BY Before, LedgerColumns DEF PCs, TypeOK
<1>2. /\ unchecked' \in Nat
      /\ req[r].free => unchecked' = unchecked + v
      /\ ~req[r].free => unchecked' = unchecked
  BY <1>1
<1>3. ASSUME NEW l \in Ledgers
      PROVE  /\ Kept(l) \in Int
             /\ l = "quota" /\ req[r].free => Kept(l)' = Kept(l) + v
             /\ l # "quota" \/ ~req[r].free => Kept(l)' = Kept(l)
  BY <1>1, <1>2 DEF Kept
<1>4. CASE v = 0
  <2>1. req' = [req EXCEPT ![r] = Idle]
    BY <1>4 DEF Post, Finish
  <2>2. ASSUME NEW l \in Ledgers
        PROVE  Allowed(l, r, Idle)
    <3>1. Kept(l) \in Int /\ Kept(l)' = Kept(l)
      BY <1>3, <1>4
    <3>2. Risk(l, Idle) = 0 /\ Risk(l, req[r]) \in Int /\ 0 <= Risk(l, req[r])
      BY <1>1, IdleRisk
    <3>3. Kept(l)' - Risk(l, Idle) >= Kept(l) - Risk(l, req[r])
      BY <3>1, <3>2
    <3>4. QED
      BY <3>3 DEF Allowed
  <2>3. QED
    BY <1>2, <2>1, <2>2, IdleType, IdleRisk, MoveCovered
<1>5. CASE v # 0
  <2>1. /\ q \in Request /\ q.pc = "post_user" /\ q.final = req[r].final
        /\ q.free = req[r].free /\ q.tok = req[r].tok /\ q.pre = req[r].pre
        /\ q.delta = v
    BY <1>1 DEF Request
  <2>2. Priced(q)
    <3>1. v <= Worst
      BY <1>1
    <3>2. QED
      BY <2>1, <3>1, Before DEF Priced
  <2>3. ASSUME NEW l \in Ledgers
        PROVE  Allowed(l, r, q)
    <3>1. Risk(l, req[r]) = IF l \in {"quota", req[r].tok}
                               /\ ~(l = "quota" /\ req[r].free)
                            THEN Worst - req[r].final ELSE 0
      BY DEF Risk, UserRisk, TokenRisk
    <3>2. Risk(l, q) = IF l \in {"quota", req[r].tok} /\ v > 0 THEN v ELSE 0
      BY <2>1 DEF Risk, UserRisk, TokenRisk
    <3>3. Kept(l)' - Risk(l, q) >= Kept(l) - Risk(l, req[r])
      <4>1. CASE l = "quota" /\ req[r].free
        BY <1>1, <1>3, <1>5, <3>1, <3>2, <4>1
      <4>2. CASE ~(l = "quota" /\ req[r].free)
        <5>1. Kept(l) \in Int /\ Kept(l)' = Kept(l)
          BY <1>3, <4>2
        <5>2. CASE l \in {"quota", req[r].tok}
          BY <1>1, <3>1, <3>2, <4>2, <5>1, <5>2
        <5>3. CASE l \notin {"quota", req[r].tok}
          BY <3>1, <3>2, <5>1, <5>3
        <5>4. QED
          BY <5>2, <5>3
      <4>3. QED
        BY <4>1, <4>2
    <3>4. QED
      BY <3>3 DEF Allowed
  <2>4. req' = [req EXCEPT ![r] = q]
    BY <1>5 DEF Post
  <2> HIDE DEF q
  <2>5. QED
    BY <1>2, <2>1, <2>2, <2>3, <2>4, MoveCovered
<1>6. QED
  BY <1>4, <1>5

LEMMA FailUpstreamCovered ==
    ASSUME TypeOK, ControlOK, RiskInv, NEW r \in Requests, FailUpstream(r)
    PROVE  RiskInv'
<1>1. /\ -req[r].final \in Int /\ -req[r].final <= Worst - req[r].final
      /\ req[r].free => -req[r].final = 0
  BY Before
<1>2. /\ db' \in [Columns -> Int] /\ unchecked \in Nat /\ unchecked' = unchecked
      /\ db' = db /\ drain' = drain
  BY DEF TypeOK, FailUpstream
<1>3. unchecked' = unchecked + IF req[r].free THEN -req[r].final ELSE 0
  BY <1>1, <1>2
<1>4. req[r].free => -req[r].final >= 0
  BY <1>1
<1>5. QED
  BY <1>1, <1>2, <1>3, <1>4, PostCovered DEF FailUpstream

LEMMA ServeUpstreamCovered ==
    ASSUME TypeOK, ControlOK, RiskInv, Direct, NEW r \in Requests,
           NEW price \in Prices, ServeUpstream(r, price)
    PROVE  RiskInv'
<1>1. /\ price \in Nat /\ price <= Worst /\ "used" \in Columns
  BY WorstCharge, LedgerColumns, AmountsAssumption
<1>2. /\ price - req[r].final \in Int /\ price - req[r].final <= Worst - req[r].final
      /\ req[r].free => price - req[r].final = price
      /\ req[r].free => price - req[r].final >= 0
  BY <1>1, Before
<1>3. db' \in [Columns -> Int] /\ \A l \in Ledgers : db'[l] = db[l]
  <2>1. CASE Add("used", price)
    BY <1>1, <2>1, DirectAdd, LedgerColumns
  <2>2. CASE AddFails
    BY <2>2 DEF AddFails, TypeOK
  <2>3. QED
    BY <2>1, <2>2 DEF ServeUpstream
<1>4. unchecked' = unchecked + IF req[r].free THEN price - req[r].final ELSE 0
  BY <1>2 DEF ServeUpstream
<1>5. /\ req[r].pc = "upstream" /\ Post(r, price - req[r].final) /\ drain' = drain
  BY DEF ServeUpstream
<1>6. QED
  BY <1>2, <1>3, <1>4, <1>5, PostCovered

LEMMA PostUserCovered ==
    ASSUME TypeOK, ControlOK, RiskInv, Direct, NEW r \in Requests, PostUser(r)
    PROVE  RiskInv'
<1> DEFINE v == req[r].delta
           g == [req[r] EXCEPT !.pc = "post_token"]
<1>1. /\ req[r] \in Request /\ req[r].pc = "post_user" /\ "post_token" \in PCs
      /\ v \in Int /\ -v \in Int /\ "quota" \in Columns
  BY Before, LedgerColumns DEF PostUser, PCs
<1>2. \A l \in Ledgers : Risk(l, req[r]) =
          IF l \in {"quota", req[r].tok} /\ v > 0 THEN v ELSE 0
  BY <1>1 DEF Risk, UserRisk, TokenRisk
<1>3. CASE /\ Add("quota", -v)
           /\ IF Playground(r) THEN Finish(r) ELSE Goto(r, "post_token")
  <2>1. /\ db' \in [Columns -> Int]
        /\ \A l \in Ledgers : db'[l] = IF l = "quota" THEN db[l] + (-v) ELSE db[l]
        /\ \A l \in Ledgers : db[l] \in Int
    BY <1>1, <1>3, DirectAdd
  <2>2. drain' = drain /\ unchecked' = unchecked /\ unchecked' \in Nat
    BY DEF PostUser, TypeOK
  <2>3. CASE Playground(r)
    <3>1. ASSUME NEW l \in Ledgers
          PROVE  Allowed(l, r, Idle)
      <4>1. l = "quota" \/ l # req[r].tok
        BY <2>3 DEF Playground, Ledgers
      <4>2. Risk(l, req[r]) = IF l = "quota" /\ v > 0 THEN v ELSE 0
        BY <1>2, <4>1
      <4>3. db[l] \in Int /\ db'[l] = IF l = "quota" THEN db[l] + (-v) ELSE db[l]
        BY <2>1
      <4>4. /\ db'[l] \in Int /\ Risk(l, Idle) = 0 /\ Risk(l, req[r]) \in Int
            /\ db'[l] - 0 >= db[l] - Risk(l, req[r])
        BY <1>1, <4>2, <4>3, IdleRisk
      <4>5. QED
        BY <2>2, <4>4, TakesRisk
    <3>2. req' = [req EXCEPT ![r] = Idle]
      BY <1>3, <2>3 DEF Finish
    <3>3. QED
      BY <2>1, <2>2, <3>1, <3>2, IdleType, IdleRisk, MoveCovered
  <2>4. CASE ~Playground(r)
    <3>1. /\ g \in Request /\ g.pc = "post_token" /\ g.final = req[r].final
          /\ g.free = req[r].free /\ g.tok = req[r].tok /\ g.pre = req[r].pre
          /\ g.delta = v
      BY <1>1 DEF Request
    <3>2. Priced(g)
      BY <1>1, <3>1, Before DEF Priced
    <3>3. ASSUME NEW l \in Ledgers
          PROVE  Allowed(l, r, g)
      <4>1. Risk(l, g) = IF l # "quota" /\ l = req[r].tok /\ v > 0 THEN v ELSE 0
        BY <3>1 DEF Risk, UserRisk, TokenRisk
      <4>2. Risk(l, req[r]) = IF l \in {"quota", req[r].tok} /\ v > 0 THEN v ELSE 0
        BY <1>2
      <4>3. db[l] \in Int /\ db'[l] = IF l = "quota" THEN db[l] + (-v) ELSE db[l]
        BY <2>1
      <4>4. /\ db'[l] \in Int /\ Risk(l, g) \in Int /\ Risk(l, req[r]) \in Int
            /\ db'[l] - Risk(l, g) >= db[l] - Risk(l, req[r])
        BY <1>1, <4>1, <4>2, <4>3
      <4> HIDE DEF g
      <4>5. QED
        BY <2>2, <4>4, TakesRisk
    <3>4. req' = [req EXCEPT ![r] = g]
      BY <1>3, <2>4 DEF Goto
    <3> HIDE DEF g
    <3>5. QED
      BY <2>1, <2>2, <3>1, <3>2, <3>3, <3>4, MoveCovered
  <2>5. QED
    BY <2>3, <2>4
<1>4. CASE AddFails /\ Finish(r)
  BY <1>4, FinishCovered DEF AddFails, PostUser
<1>5. QED
  BY <1>3, <1>4 DEF PostUser

LEMMA PostTokenCovered ==
    ASSUME TypeOK, ControlOK, RiskInv, Direct, NEW r \in Requests, PostToken(r)
    PROVE  RiskInv'
<1> DEFINE t == req[r].tok
           v == req[r].delta
<1>1. /\ req[r].pc = "post_token" /\ v \in Int /\ -v \in Int
      /\ t \in Tokens /\ t \in Columns /\ t # "quota"
  BY Before DEF PostToken, Sound, Columns
<1>2. CASE Add(t, -v)
  <2>1. /\ db' \in [Columns -> Int]
        /\ \A l \in Ledgers : db'[l] = IF l = t THEN db[l] + (-v) ELSE db[l]
        /\ \A l \in Ledgers : db[l] \in Int
    BY <1>1, <1>2, DirectAdd
  <2>2. \A l \in Ledgers : Risk(l, req[r]) = IF l = t /\ v > 0 THEN v ELSE 0
    BY <1>1 DEF Risk, UserRisk, TokenRisk
  <2>3. ASSUME NEW l \in Ledgers
        PROVE  Allowed(l, r, Idle)
    <3>1. /\ db'[l] \in Int /\ Risk(l, Idle) = 0 /\ Risk(l, req[r]) \in Int
          /\ db'[l] - 0 >= db[l] - Risk(l, req[r])
      BY <1>1, <2>1, <2>2, IdleRisk
    <3>2. unchecked' = unchecked
      BY DEF PostToken
    <3>3. QED
      BY <3>1, <3>2, TakesRisk
  <2>4. /\ req' = [req EXCEPT ![r] = Idle] /\ drain' = drain
        /\ unchecked' \in Nat
    BY DEF PostToken, Finish, TypeOK
  <2>5. QED
    BY <2>1, <2>3, <2>4, IdleType, IdleRisk, MoveCovered
<1>3. CASE AddFails
  BY <1>3, FinishCovered DEF AddFails, PostToken
<1>4. QED
  BY <1>2, <1>3 DEF PostToken

LEMMA BatchUpdateCovered ==
    ASSUME RiskInv, Direct, BatchUpdate
    PROVE  FALSE
BY DEF BatchUpdate, SwapNextType, ApplyChange, RiskInv, Direct

LEMMA CrashCovered ==
    ASSUME TypeOK, ControlOK, RiskInv, Crash
    PROVE  RiskInv'
<1>1. req' \in [Requests -> Request] /\ \A r \in Requests : req'[r] = Idle
  BY IdleType DEF Crash
<1>2. \A r \in Requests : Priced(req'[r])
  BY <1>1, IdleRisk
<1>3. \A c \in Columns : drain'[c] = 0
  BY DEF Crash, Zero
<1>4. ASSUME NEW l \in Ledgers \ UnlimitedTokens
      PROVE  Covered(l)'
  <2>1. PICK f \in [Requests -> Int] :
           f = Risks(l)' /\ \A r \in Requests : f[r] = 0
    BY <1>1, <1>2, IdleRisk, RisksTypeNext
  <2>2. PICK e \in [Requests -> Int] :
           /\ e = Risks(l)
           /\ \A r \in Requests : 0 <= e[r] /\ e[r] <= Worst
    BY RisksType DEF TypeOK, RiskInv
  <2>3. Sum(f) = 0
    BY <2>1, RequestsAssumption, SumOfZeros
  <2>4. Sum(e) \in Int /\ 0 <= Sum(e)
    BY <2>2, RisksOf
  <2>5. PICK k \in Int : k = Kept(l) /\ k = Kept(l)'
    BY KeptType DEF Kept, Crash
  <2>6. \/ k - Sum(e) >= 1 - Cardinality(Requests) * Worst
        \/ k - Sum(e) >= Funded(l)
    BY <2>2, <2>5, Zenon DEF RiskInv, Covered
  <2>7. \/ k - Sum(f) >= 1 - Cardinality(Requests) * Worst
        \/ k - Sum(f) >= Funded(l)
    BY <2>3, <2>4, <2>5, <2>6, BoundTypes
  <2>8. \/ Kept(l)' - Sum(Risks(l)') >= 1 - Cardinality(Requests) * Worst
        \/ Kept(l)' - Sum(Risks(l)') >= Funded(l)
    BY <2>1, <2>5, <2>7, Zenon
  <2>9. QED
    BY <2>8 DEF Covered, Funded
<1>5. QED
  BY <1>2, <1>3, <1>4 DEF RiskInv, Priced

LEMMA InitCovered == Init => RiskInv
<1> SUFFICES ASSUME Init PROVE RiskInv
  OBVIOUS
<1>1. \A r \in Requests : req[r] = Idle
  BY DEF Init
<1>2. \A r \in Requests : Priced(req[r])
  BY <1>1, IdleRisk
<1>3. \A c \in Columns : drain[c] = 0
  BY DEF Init, Zero
<1>4. ASSUME NEW l \in Ledgers
      PROVE  Covered(l)
  <2>1. PICK k \in Int : k = Kept(l) /\ k = Funded(l)
    <3>1. /\ db[l] = Funded(l) /\ db[l] \in Int /\ unchecked = 0
      BY InitInv, LedgerColumns DEF Init, Funded, Ledgers, TypeOK
    <3>2. QED
      BY <3>1 DEF Kept
  <2>2. PICK f \in [Requests -> Int] :
           f = Risks(l) /\ \A r \in Requests : f[r] = 0
    <3>1. \A r \in Requests : Risk(l, req[r]) = 0
      BY <1>1, IdleRisk
    <3>2. Risks(l) = [r \in Requests |-> 0]
      BY <3>1 DEF Risks
    <3>3. QED
      BY <3>2
  <2>3. Sum(f) = 0
    BY <2>2, RequestsAssumption, SumOfZeros
  <2>4. k - Sum(f) >= k
    BY <2>1, <2>3
  <2>5. QED
    BY <2>1, <2>2, <2>4, Zenon DEF Covered
<1>5. QED
  BY <1>2, <1>3, <1>4 DEF RiskInv

\* However many requests follow one another, and although every one of them is
\* admitted on a balance the others are spending, the database never shows a
\* limited token more than one worst charge per request in flight below the unit
\* that admits a request; nor the user, but for what models priced zero were
\* billed, which are admitted unseen.  This is where quota is written directly.
THEOREM OverdraftLimited == Spec => []OverdraftBounded
<1>1. CASE BatchUpdateEnabled
  <2>1. OverdraftBounded
    BY <1>1 DEF OverdraftBounded
  <2>2. QED
    BY <2>1, PTL
<1>2. CASE ~BatchUpdateEnabled
  <2>1. Direct
    BY <1>2 DEF Direct
  <2>2. TypeOK /\ ControlOK /\ RiskInv /\ [Next]_vars => RiskInv'
    <3> SUFFICES ASSUME TypeOK, ControlOK, RiskInv, [Next]_vars
                 PROVE  RiskInv'
      OBVIOUS
    <3>1. ASSUME NEW r \in Requests, Begin(r)
          PROVE  RiskInv'
      BY <3>1, PlaygroundAuthCovered, TokenAuthCovered DEF Begin
    <3>2. ASSUME NEW r \in Requests, Proceed(r)
          PROVE  RiskInv'
      <4>1. CASE MarkExhausted(r)
        BY <4>1, FinishCovered DEF MarkExhausted
      <4>2. QED
        BY <2>1, <3>2, <4>1, SkipPreConsumeCovered, CheckUserQuotaCovered,
           CheckTokenQuotaCovered, HoldTokenCovered, HoldUserCovered,
           RetryUpstreamCovered, HangUpstreamCovered, FailUpstreamCovered, ServeUpstreamCovered,
           PostUserCovered, PostTokenCovered
           DEF Proceed
    <3>3. CASE BatchUpdate
      BY <2>1, <3>3, BatchUpdateCovered
    <3>4. CASE Crash
      BY <3>4, CrashCovered
    <3>5. CASE UNCHANGED vars
      BY <3>5 DEF vars, RiskInv, Priced, Covered, Kept, Risks, Risk, UserRisk,
                  TokenRisk, Funded
    <3>6. QED
      BY <3>1, <3>2, <3>3, <3>4, <3>5 DEF Next
  <2>3. TypeOK /\ RiskInv => OverdraftBounded
    <3> SUFFICES ASSUME TypeOK, RiskInv, NEW l \in Ledgers \ UnlimitedTokens
                 PROVE  \/ Kept(l) >= 1 - Cardinality(Requests) * Worst
                        \/ Kept(l) >= Funded(l)
      BY DEF OverdraftBounded, Kept, Funded
    <3>1. PICK e \in [Requests -> Int] :
             /\ e = Risks(l)
             /\ \A r \in Requests : 0 <= e[r] /\ e[r] <= Worst
      BY RisksType DEF TypeOK, RiskInv
    <3>2. Sum(e) \in Int /\ 0 <= Sum(e)
      BY <3>1, RisksOf
    <3>3. PICK k \in Int : k = Kept(l)
      BY KeptType
    <3>4. \/ k - Sum(e) >= 1 - Cardinality(Requests) * Worst
          \/ k - Sum(e) >= Funded(l)
      BY <3>1, <3>3, Zenon DEF RiskInv, Covered
    <3>5. k >= 1 - Cardinality(Requests) * Worst \/ k >= Funded(l)
      BY <3>2, <3>3, <3>4, BoundTypes
    <3>6. QED
      BY <3>3, <3>5
  <2>4. QED
    BY <2>2, <2>3, InitCovered, TypeCorrect, PTL DEF Spec
<1>3. QED
  BY <1>1, <1>2
=============================================================================
