-------------------------- MODULE RewardSplitProofs --------------------------
(***************************************************************************)
(* Theorems about the settlement arithmetic, for all amounts and fees.     *)
(***************************************************************************)
EXTENDS RewardSplit, Functions, FiniteSetTheorems, WellFoundedInduction, TLAPS

Quantities == [protocol : Nat, operator : Nat, referrer : Nat,
               creditable : SUBSET Legs]

LEMMA DivType ==
  ASSUME NEW a \in Nat, NEW b \in Nat \ {0}
  PROVE  a \div b \in Nat
BY SMT

LEMMA ModType ==
  ASSUME NEW a \in Nat, NEW b \in Nat \ {0}
  PROVE  a % b \in 0..(b - 1)
BY SMT

LEMMA ProductType ==
  ASSUME NEW a \in Nat, NEW b \in Nat
  PROVE  a * b \in Nat
BY SMT

\* A floored fraction of an amount is an amount.
LEMMA PortionType ==
  ASSUME NEW base \in Nat, NEW bps \in Nat
  PROVE  Portion(base, bps) \in Nat
<1>1. base * bps \in Nat
  BY ProductType
<1> QED
  BY <1>1, DivType DEF Portion, BasisPoints

\* Whatever leg is credited, it is paid a natural number of lamports and at
\* most its fee.
LEMMA LegPaidType ==
  ASSUME NEW base \in Nat, NEW terms \in Quantities, NEW leg \in Legs
  PROVE  /\ LegPaid(base, terms, leg) \in Nat
         /\ leg = "operator" => LegPaid(base, terms, leg) <= Portion(base, terms.operator)
         /\ leg = "referrer" => LegPaid(base, terms, leg) <= Portion(base, terms.referrer)
<1>1. terms.operator \in Nat /\ terms.referrer \in Nat
  BY DEF Quantities
<1>2. Portion(base, terms.operator) \in Nat /\ Portion(base, terms.referrer) \in Nat
  BY <1>1, PortionType
<1> QED
  BY <1>2 DEF LegPaid, Legs

(***************************************************************************)
(* The parts of a settlement add up: the worker's is what the others leave,*)
(* rounding losses and legs that cannot be credited included.  That this   *)
(* is never negative is the point of WorkerIsPaid below.                   *)
(***************************************************************************)
LEMMA SettlementPaysBase ==
  ASSUME NEW base \in Nat, NEW terms \in Quantities
  PROVE  SplitTotal(SplitOf(base, terms)) = base
<1>1. terms.protocol \in Nat
  BY DEF Quantities
<1>2. Portion(base, terms.protocol) \in Nat
  BY <1>1, PortionType
<1>3. LegPaid(base, terms, "operator") \in Nat /\ LegPaid(base, terms, "referrer") \in Nat
  BY LegPaidType DEF Legs
<1> QED
  BY <1>2, <1>3 DEF SplitTotal, SplitOf

(***************************************************************************)
(* A settlement the program allows leaves the worker at least one lamport, *)
(* and nobody is paid a negative amount.                                   *)
(***************************************************************************)
THEOREM WorkerIsPaid ==
  ASSUME NEW base \in Nat, NEW terms \in Quantities, SplitAllowed(base, terms)
  PROVE  /\ SplitOf(base, terms).worker \in Nat \ {0}
         /\ SplitOf(base, terms).protocol \in Nat
         /\ SplitOf(base, terms).operator \in Nat
         /\ SplitOf(base, terms).referrer \in Nat
<1>1. terms.protocol \in Nat /\ terms.operator \in Nat /\ terms.referrer \in Nat
  BY DEF Quantities
<1>2. /\ Portion(base, terms.protocol) \in Nat
      /\ Portion(base, terms.operator) \in Nat
      /\ Portion(base, terms.referrer) \in Nat
  BY <1>1, PortionType
<1>3. /\ LegPaid(base, terms, "operator") \in Nat
      /\ LegPaid(base, terms, "operator") <= Portion(base, terms.operator)
      /\ LegPaid(base, terms, "referrer") \in Nat
      /\ LegPaid(base, terms, "referrer") <= Portion(base, terms.referrer)
  BY LegPaidType DEF Legs
<1> QED
  BY <1>2, <1>3 DEF SplitOf, SplitAllowed

\* A floored fraction never exceeds the exact one.
LEMMA PortionBound ==
  ASSUME NEW base \in Nat, NEW bps \in Nat
  PROVE  Portion(base, bps) * BasisPoints <= base * bps
<1>1. base * bps \in Nat
  BY ProductType
<1>2. \A n \in Nat : (n \div 10000) * 10000 <= n
  BY SMT
<1> QED
  BY <1>1, <1>2 DEF Portion, BasisPoints

(***************************************************************************)
(* When a marketplace leg is active the worker keeps at least 60% of the   *)
(* amount released, rounding included (calculate_combined_fees caps the    *)
(* fees at 4000 basis points).                                             *)
(***************************************************************************)
THEOREM WorkerFloor ==
  ASSUME NEW base \in Nat, NEW terms \in Quantities, WithinCaps(terms),
         terms.operator > 0 \/ terms.referrer > 0
  PROVE  SplitOf(base, terms).worker * BasisPoints
           >= base * (BasisPoints - MaxCombinedFeeBps)
<1> DEFINE p == terms.protocol
           o == terms.operator
           r == terms.referrer
<1>1. p \in Nat /\ o \in Nat /\ r \in Nat
  BY DEF Quantities
<1>2. p + o + r <= 4000
  BY DEF WithinCaps, MaxCombinedFeeBps
<1>3. /\ Portion(base, p) \in Nat /\ Portion(base, p) * 10000 <= base * p
      /\ Portion(base, o) \in Nat /\ Portion(base, o) * 10000 <= base * o
      /\ Portion(base, r) \in Nat /\ Portion(base, r) * 10000 <= base * r
  <2>1. ASSUME NEW b \in Nat
        PROVE  Portion(base, b) \in Nat /\ Portion(base, b) * BasisPoints <= base * b
    BY PortionType, PortionBound
  <2> HIDE DEF p, o, r
  <2> QED
    BY <1>1, <2>1 DEF BasisPoints
<1>4. /\ LegPaid(base, terms, "operator") \in 0..Portion(base, o)
      /\ LegPaid(base, terms, "referrer") \in 0..Portion(base, r)
  BY <1>3, LegPaidType DEF Legs
<1>5. base * p + base * o + base * r <= base * 4000
  <2>1. base * p + base * o + base * r = base * (p + o + r)
    BY <1>1
  <2>2. \A n \in Nat : n <= 4000 => base * n <= base * 4000
    OBVIOUS
  <2> QED
    BY <1>1, <1>2, <2>1, <2>2
<1>6. base * p \in Nat /\ base * o \in Nat /\ base * r \in Nat
  BY <1>1, ProductType
<1> HIDE DEF p, o, r
<1>7. SplitOf(base, terms).worker =
        base - Portion(base, p) - LegPaid(base, terms, "operator")
             - LegPaid(base, terms, "referrer")
  BY DEF SplitOf, p
<1> QED
  BY <1>3, <1>4, <1>5, <1>6, <1>7 DEF BasisPoints, MaxCombinedFeeBps

\* Without a protocol fee the caps alone leave the worker nothing to pay: this
\* is what a dispute's ruling, which may award nothing, relies on.
LEMMA WorkerNotCharged ==
  ASSUME NEW base \in Nat, NEW terms \in Quantities, terms.protocol = 0,
         base > 0 => WithinCaps(terms)
  PROVE  SplitOf(base, terms).worker \in Nat
<1> DEFINE keeps == SplitOf(base, terms).worker
<1>1. /\ LegPaid(base, terms, "operator") \in 0..Portion(base, terms.operator)
      /\ LegPaid(base, terms, "referrer") \in 0..Portion(base, terms.referrer)
  <2>1. terms.operator \in Nat /\ terms.referrer \in Nat
    BY DEF Quantities
  <2>2. Portion(base, terms.operator) \in Nat /\ Portion(base, terms.referrer) \in Nat
    BY <2>1, PortionType
  <2> QED
    BY <2>2, LegPaidType DEF Legs
<1>2. Portion(base, terms.protocol) = 0
  BY DEF Portion, BasisPoints
<1>3. keeps = base - Portion(base, terms.protocol) - LegPaid(base, terms, "operator")
                   - LegPaid(base, terms, "referrer")
  BY DEF SplitOf
<1>4. keeps \in Int
  <2>1. LegPaid(base, terms, "operator") \in Int /\ LegPaid(base, terms, "referrer") \in Int
    BY LegPaidType DEF Legs
  <2> QED
    BY <1>2, <1>3, <2>1
<1>5. CASE base = 0 \/ (terms.operator = 0 /\ terms.referrer = 0)
  <2>1. Portion(base, terms.operator) = 0 /\ Portion(base, terms.referrer) = 0
    BY <1>5 DEF Portion, BasisPoints, Quantities
  <2>2. LegPaid(base, terms, "operator") = 0 /\ LegPaid(base, terms, "referrer") = 0
    BY <1>1, <2>1
  <2>3. keeps = base
    BY <1>2, <1>3, <2>2
  <2> QED
    BY <2>3
<1>6. CASE base > 0 /\ (terms.operator > 0 \/ terms.referrer > 0)
  <2>1. keeps * BasisPoints >= base * (BasisPoints - MaxCombinedFeeBps)
    BY <1>6, WorkerFloor
  <2> HIDE DEF keeps
  <2>2. keeps * 10000 >= base * 6000
    BY <2>1 DEF BasisPoints, MaxCombinedFeeBps
  <2>3. keeps >= 0
    BY <1>4, <2>2
  <2> QED
    BY <1>4, <2>3 DEF keeps
<1> QED
  BY <1>5, <1>6 DEF Quantities

\* The share of a completion is an amount, and at least one lamport when the
\* reward covers every required completion.
LEMMA RewardPerWorkerType ==
  ASSUME NEW type, NEW reward \in Nat, NEW required \in Nat \ {0},
         NEW completions \in Nat
  PROVE  RewardPerWorker(type, reward, required, completions) \in Nat
<1>1. reward \div required \in Nat /\ reward % required \in Nat
  BY DivType, ModType
<1> QED
  BY <1>1 DEF RewardPerWorker

\* Euclidean division, and the only multiple it can be.
LEMMA Division ==
  ASSUME NEW a \in Nat, NEW b \in Nat \ {0}
  PROVE  /\ a \div b \in Nat /\ a % b \in Nat
         /\ a = b * (a \div b) + (a % b)
         /\ a % b < b
BY SMT

LEMMA QuotientBound ==
  ASSUME NEW a \in Nat, NEW b \in Nat, NEW c \in Nat \ {0}, a * c <= b * c
  PROVE  a <= b
<1> SUFFICES ASSUME b + 1 <= a PROVE FALSE
  OBVIOUS
<1>1. a - (b + 1) \in Nat
  OBVIOUS
<1>2. (a - (b + 1)) * c \in Nat
  BY <1>1, ProductType
<1>3. (a - (b + 1)) * c = a * c - (b * c + c)
  BY SMT
<1>4. a * c \in Nat /\ b * c \in Nat
  BY ProductType
<1> QED
  BY <1>2, <1>3, <1>4

(***************************************************************************)
(* The shares of a Collaborative task.  Paid(n) is what the first n of     *)
(* them release: each one adds calculate_reward_per_worker, and the last   *)
(* one leaves nothing, whatever the reward and the number of workers.      *)
(***************************************************************************)
Paid(reward, required, n) ==
  n * (reward \div required)
    + (IF n < reward % required THEN n ELSE reward % required)

THEOREM SharesExhaustReward ==
  ASSUME NEW reward \in Nat, NEW required \in Nat \ {0}
  PROVE  /\ Paid(reward, required, 0) = 0
         /\ \A n \in Nat :
              Paid(reward, required, n + 1) = Paid(reward, required, n)
                + RewardPerWorker("Collaborative", reward, required, n)
         /\ Paid(reward, required, required) = reward
<1> DEFINE share == reward \div required
           rest == reward % required
<1>1. /\ share \in Nat /\ rest \in Nat /\ rest < required
      /\ reward = required * share + rest
  BY Division
<1>2. Paid(reward, required, 0) = 0
  BY <1>1 DEF Paid
<1>3. ASSUME NEW n \in Nat
      PROVE  Paid(reward, required, n + 1) = Paid(reward, required, n)
               + RewardPerWorker("Collaborative", reward, required, n)
  <2>1. (n + 1) * share = n * share + share /\ n * share \in Nat
    BY <1>1, ProductType
  <2> HIDE DEF share, rest
  <2>2. Paid(reward, required, n + 1)
          = (n + 1) * share + (IF n + 1 < rest THEN n + 1 ELSE rest)
    BY DEF Paid, share, rest
  <2>3. Paid(reward, required, n) = n * share + (IF n < rest THEN n ELSE rest)
    BY DEF Paid, share, rest
  <2>4. RewardPerWorker("Collaborative", reward, required, n)
          = share + (IF n < rest THEN 1 ELSE 0)
    BY DEF RewardPerWorker, share, rest
  <2> QED
    BY <1>1, <2>1, <2>2, <2>3, <2>4
<1>4. Paid(reward, required, required) = reward
  BY <1>1 DEF Paid
<1> QED
  BY <1>2, <1>3, <1>4

(***************************************************************************)
(* No two workers of one task are more than a lamport apart, whatever the  *)
(* order in which they are settled.                                        *)
(***************************************************************************)
THEOREM SharesAreEven ==
  ASSUME NEW reward \in Nat, NEW required \in Nat \ {0},
         NEW m \in Nat, NEW n \in Nat
  PROVE  RewardPerWorker("Collaborative", reward, required, m)
           - RewardPerWorker("Collaborative", reward, required, n) <= 1
<1>1. reward \div required \in Nat
  BY Division
<1> QED
  BY <1>1 DEF RewardPerWorker

(***************************************************************************)
(* The slices of an abandoned contest (distribute_ghost_share).  If what   *)
(* is left is between q and q + 1 lamports for each live entrant, then so  *)
(* is the next slice and so is what it leaves; the last one leaves nothing. *)
(* Started at q = prize \div entrants, every slice of the prize is q or    *)
(* q + 1.                                                                  *)
(***************************************************************************)
THEOREM GhostSlicesStayEven ==
  ASSUME NEW q \in Nat, NEW left \in Nat, NEW live \in Nat \ {0},
         q * live <= left, left <= (q + 1) * live
  PROVE  LET slice == GhostSlice(left, live)
         IN /\ slice \in q..(q + 1)
            /\ q * (live - 1) <= left - slice
            /\ left - slice <= (q + 1) * (live - 1)
            /\ live = 1 => left - slice = 0
<1> DEFINE d == left \div live
           r == left % live
<1>1. /\ d \in Nat /\ r \in Nat /\ r < live
      /\ left = live * d + r
  BY Division
<1> HIDE DEF d, r
<1>2. live * d = d * live /\ d * live \in Nat /\ (d + 1) * live = d * live + live
  BY <1>1, ProductType
<1>3. q * live \in Nat /\ (q + 1) * live = q * live + live
  BY ProductType
<1>4. q <= d
  <2>1. q * live <= (d + 1) * live - 1
    BY <1>1, <1>2, <1>3
  <2> SUFFICES ASSUME d + 1 <= q PROVE FALSE
    BY <1>1
  <2>2. (q - (d + 1)) * live \in Nat
    BY <1>1, ProductType
  <2>3. (q - (d + 1)) * live = q * live - (d + 1) * live
    BY <1>1
  <2> QED
    BY <1>1, <1>2, <1>3, <2>1, <2>2, <2>3
<1>5. d <= q + 1
  <2>1. d * live <= (q + 1) * live
    BY <1>1, <1>2, <1>3
  <2> QED
    BY <1>1, <2>1, QuotientBound
<1>6. CASE d = q
  <2>1. left - d = q * (live - 1) + r
    BY <1>1, <1>2, <1>6
  <2>2. (q + 1) * (live - 1) = q * (live - 1) + (live - 1) /\ q * (live - 1) \in Nat
    BY ProductType
  <2>3. GhostSlice(left, live) = d
    BY DEF GhostSlice, d
  <2> QED
    BY <1>1, <1>6, <2>1, <2>2, <2>3
<1>7. CASE d = q + 1
  <2>1. r = 0
    BY <1>1, <1>2, <1>7
  <2>2. left - d = (q + 1) * (live - 1)
    BY <1>1, <1>2, <1>7, <2>1
  <2>3. (q + 1) * (live - 1) = q * (live - 1) + (live - 1) /\ q * (live - 1) \in Nat
    BY ProductType
  <2>4. GhostSlice(left, live) = d
    BY DEF GhostSlice, d
  <2> QED
    BY <1>1, <1>7, <2>2, <2>3, <2>4
<1> QED
  BY <1>1, <1>4, <1>5, <1>6, <1>7

-----------------------------------------------------------------------------
(***************************************************************************)
(* Sums of amounts over a finite set, which is what SumFunction computes   *)
(* for the wallets of all parties.                                         *)
(***************************************************************************)

\* The element every fold of this library takes from a set.
First(s) == CHOOSE x \in s : TRUE

\* `sum` adds up f over each of the given sets.
AddsUp(sum, f, sets) ==
  sum = [s \in sets |-> IF s = {} THEN 0 ELSE f[First(s)] + sum[s \ {First(s)}]]

LEMMA SumUnfolds ==
  ASSUME NEW f, NEW S
  PROVE  SumFunctionOnSet(f, S) = (CHOOSE sum : AddsUp(sum, f, SUBSET S))[S]
BY Zenon DEF SumFunctionOnSet, FoldFunctionOnSet, MapThenFoldSet, AddsUp, First

\* Induction over the subsets of a finite set.
LEMMA SubsetInduction ==
  ASSUME NEW S, IsFiniteSet(S), NEW Good,
         \A s \in SUBSET S : (\A r \in SUBSET s : r # s => r \in Good) => s \in Good
  PROVE  SUBSET S \subseteq Good
<1> DEFINE Bad == {s \in SUBSET S : s \notin Good}
           Inside == StrictSubsetOrdering(S)
<1>1. IsWellFoundedOn(Inside, SUBSET S)
  <2>1. IsWellFoundedOn(Inside, FiniteSubsetsOf(S))
    BY FS_StrictSubsetOrderingWellFounded
  <2>2. FiniteSubsetsOf(S) = SUBSET S
    BY FS_FiniteSubsetsOfFinite
  <2> QED
    BY <2>1, <2>2, Zenon
<1>2. SUFFICES ASSUME Bad # {} PROVE FALSE
  OBVIOUS
<1>3. \E s \in Bad : \A r \in Bad : ~(<<r, s>> \in Inside)
  <2> HIDE DEF Inside
  <2>1. Bad \subseteq SUBSET S
    OBVIOUS
  <2> HIDE DEF Bad
  <2> QED
    BY <1>1, <1>2, <2>1, WFMin
<1>4. PICK s \in Bad : \A r \in Bad : ~(<<r, s>> \in Inside)
  BY <1>3
<1> QED
  BY <1>4 DEF StrictSubsetOrdering

\* Such a function exists on the subsets of a finite set ...
LEMMA SumExists ==
  ASSUME NEW f, NEW S, IsFiniteSet(S)
  PROVE  \E sum : AddsUp(sum, f, SUBSET S)
<1> DEFINE Upto(n) == {s \in SUBSET S : Cardinality(s) <= n}
           Bounded(n) == \E sum : AddsUp(sum, f, Upto(n))
           Good == {s \in SUBSET S : Bounded(Cardinality(s))}
<1>1. \A s \in SUBSET S : IsFiniteSet(s) /\ Cardinality(s) \in Nat
  BY FS_Subset, FS_CardinalityType
<1>2. \A s \in SUBSET S : s # {} =>
        /\ First(s) \in s
        /\ Cardinality(s) >= 1
        /\ Cardinality(s \ {First(s)}) = Cardinality(s) - 1
  <2> SUFFICES ASSUME NEW s \in SUBSET S, s # {}
               PROVE  /\ First(s) \in s
                      /\ Cardinality(s) >= 1
                      /\ Cardinality(s \ {First(s)}) = Cardinality(s) - 1
    OBVIOUS
  <2>1. First(s) \in s
    BY DEF First
  <2>2. Cardinality(s \ {First(s)}) = Cardinality(s) - 1
    BY <1>1, <2>1, FS_RemoveElement
  <2>3. Cardinality(s \ {First(s)}) \in Nat
    BY <1>1
  <2> QED
    BY <1>1, <2>1, <2>2, <2>3
<1>3. Bounded(0)
  <2> DEFINE sum == [s \in Upto(0) |-> 0]
  <2>1. ASSUME NEW s \in Upto(0), s # {} PROVE FALSE
    <3>1. Cardinality(s) \in Nat /\ Cardinality(s) <= 0 /\ Cardinality(s) >= 1
      BY <1>1, <1>2, <2>1
    <3> QED
      BY <3>1
  <2>2. AddsUp(sum, f, Upto(0))
    BY <2>1 DEF AddsUp
  <2> QED
    BY <2>2
<1>4. ASSUME NEW n \in Nat, Bounded(n) PROVE Bounded(n + 1)
  <2>1. PICK g : AddsUp(g, f, Upto(n))
    BY <1>4
  <2> DEFINE sum == [s \in Upto(n + 1) |->
                       IF s = {} THEN 0 ELSE f[First(s)] + g[s \ {First(s)}]]
  <2>2. ASSUME NEW s \in Upto(n + 1), s # {}
        PROVE  sum[s \ {First(s)}] = g[s \ {First(s)}]
    <3> DEFINE r == s \ {First(s)}
    <3>1. r \in Upto(n) /\ r \in Upto(n + 1)
      BY <1>1, <1>2, <2>2
    <3>2. g[r] = IF r = {} THEN 0 ELSE f[First(r)] + g[r \ {First(r)}]
      BY <2>1, <3>1, Zenon DEF AddsUp
    <3>3. sum[r] = IF r = {} THEN 0 ELSE f[First(r)] + g[r \ {First(r)}]
      BY <3>1, Zenon
    <3> QED
      BY <3>2, <3>3, Zenon
  <2>3. \A s \in Upto(n + 1) :
          (IF s = {} THEN 0 ELSE f[First(s)] + g[s \ {First(s)}])
            = (IF s = {} THEN 0 ELSE f[First(s)] + sum[s \ {First(s)}])
    <3> HIDE DEF sum, Upto
    <3> QED BY <2>2, Zenon
  <2>4. AddsUp(sum, f, Upto(n + 1))
    <3> HIDE DEF Upto
    <3> QED
    BY <2>3, Zenon DEF AddsUp
  <2> QED
    BY <2>4
<1>5. ASSUME NEW s \in SUBSET S, \A r \in SUBSET s : r # s => r \in Good
      PROVE  s \in Good
  <2>1. CASE s = {}
    <3>1. Cardinality(s) = 0
      BY <2>1, FS_EmptySet
    <3> QED
      BY <1>3, <3>1
  <2>2. CASE s # {}
    <3> DEFINE r == s \ {First(s)}
    <3>1. r \in Good
      <4>1. r \in SUBSET s /\ r # s
        BY <1>2, <2>2
      <4> HIDE DEF Good
      <4> QED BY <1>5, <4>1
    <3>2. Cardinality(r) \in Nat /\ Cardinality(r) + 1 = Cardinality(s)
      <4> HIDE DEF Good
      <4> QED BY <1>1, <1>2, <2>2
    <3>3. Bounded(Cardinality(r))
      BY <3>1
    <3>4. Bounded(Cardinality(r) + 1)
      <4> HIDE DEF Bounded, r
      <4> QED BY <1>4, <3>2, <3>3
    <3> QED
      BY <3>2, <3>4
  <2> QED
    BY <2>1, <2>2
<1>6. S \in Good
  <2> HIDE DEF Good
  <2>1. \A s \in SUBSET S : (\A r \in SUBSET s : r # s => r \in Good) => s \in Good
    BY <1>5
  <2>2. SUBSET S \subseteq Good
    BY <2>1, SubsetInduction
  <2> QED
    BY <2>2
<1>7. Upto(Cardinality(S)) = SUBSET S
  BY FS_Subset
<1> QED
  BY <1>6, <1>7, Zenon

\* `sum` is 0 of nothing, and grows by f of one element at a time.
Sums(sum, f, S) ==
  /\ sum[{}] = 0
  /\ \A s \in SUBSET S : s # {} =>
       \E x \in s : sum[s] = f[x] + sum[s \ {x}]

\* ... and is the sum of f, which therefore obeys its recursion.
LEMMA SumRecursion ==
  ASSUME NEW S, IsFiniteSet(S), NEW f \in [S -> Int]
  PROVE  \E sum : Sums(sum, f, S) /\ SumFunctionOnSet(f, S) = sum[S]
<1>1. PICK sum : AddsUp(sum, f, SUBSET S) /\ SumFunctionOnSet(f, S) = sum[S]
  BY SumUnfolds, SumExists, Zenon
<1>2. \A s \in SUBSET S :
        sum[s] = IF s = {} THEN 0 ELSE f[First(s)] + sum[s \ {First(s)}]
  BY <1>1, Zenon DEF AddsUp
<1>3. \A s \in SUBSET S : s # {} => First(s) \in s
  BY DEF First
<1>4. Sums(sum, f, S)
  BY <1>2, <1>3 DEF Sums
<1> QED
  BY <1>1, <1>4

\* A sum of integers is an integer.
LEMMA SumType ==
  ASSUME NEW S, IsFiniteSet(S), NEW f \in [S -> Int]
  PROVE  SumFunctionOnSet(f, S) \in Int
<1>1. PICK sum : Sums(sum, f, S) /\ SumFunctionOnSet(f, S) = sum[S]
  BY SumRecursion
<1> DEFINE Good == {s \in SUBSET S : sum[s] \in Int}
<1>2. ASSUME NEW s \in SUBSET S, \A r \in SUBSET s : r # s => r \in Good
      PROVE  s \in Good
  <2>1. CASE s = {}
    BY <1>1, <2>1 DEF Sums
  <2>2. CASE s # {}
    <3>1. PICK x \in s : sum[s] = f[x] + sum[s \ {x}]
      BY <1>1, <2>2 DEF Sums
    <3>2. sum[s \ {x}] \in Int
      BY <1>2
    <3> QED
      BY <3>1, <3>2
  <2> QED
    BY <2>1, <2>2
<1>3. SUBSET S \subseteq Good
  <2> HIDE DEF Good
  <2> QED BY <1>2, SubsetInduction
<1> QED
  BY <1>1, <1>3

\* `sum` is what adding up f element by element leads to, whichever
\* is taken first.
Adds(sum, f, S) ==
  /\ sum[{}] = 0
  /\ \A s \in SUBSET S : sum[s] \in Int /\ \A x \in s : sum[s] = f[x] + sum[s \ {x}]

\* The order does not matter.
LEMMA SumTakesAny ==
  ASSUME NEW S, IsFiniteSet(S), NEW f \in [S -> Int], NEW sum, Sums(sum, f, S)
  PROVE  Adds(sum, f, S)
<1> DEFINE Good == {s \in SUBSET S :
                      sum[s] \in Int /\ \A x \in s : sum[s] = f[x] + sum[s \ {x}]}
<1>1. ASSUME NEW s \in SUBSET S, \A r \in SUBSET s : r # s => r \in Good
      PROVE  s \in Good
  <2>1. CASE s = {}
    BY <2>1 DEF Sums
  <2>2. CASE s # {}
    <3>1. PICK y \in s : sum[s] = f[y] + sum[s \ {y}]
      BY <2>2 DEF Sums
    <3>2. s \ {y} \in Good
      <4> HIDE DEF Good
      <4> QED BY <1>1
    <3>3. sum[s] \in Int
      BY <3>1, <3>2
    <3>4. ASSUME NEW x \in s, x # y PROVE sum[s] = f[x] + sum[s \ {x}]
      <4>1. s \ {x} \in Good
        <5> HIDE DEF Good
        <5> QED BY <1>1
      <4>2. (s \ {x}) \ {y} = (s \ {y}) \ {x}
        OBVIOUS
      <4>3. sum[s \ {y}] = f[x] + sum[(s \ {y}) \ {x}]
        BY <3>2, <3>4
      <4>4. sum[s \ {x}] = f[y] + sum[(s \ {x}) \ {y}]
        BY <4>1, <3>4
      <4>5. sum[(s \ {y}) \ {x}] \in Int
        <5>1. (s \ {y}) \ {x} \in Good
          <6> HIDE DEF Good
          <6> QED BY <1>1
        <5> QED BY <5>1
      <4>6. f[x] \in Int /\ f[y] \in Int
        OBVIOUS
      <4> HIDE DEF Good
      <4> DEFINE rest == sum[(s \ {y}) \ {x}]
      <4>7. sum[s \ {x}] = f[y] + rest
        BY <4>2, <4>4
      <4>8. sum[s] = f[y] + (f[x] + rest)
        BY <3>1, <4>3
      <4>9. rest \in Int
        BY <4>5
      <4> HIDE DEF rest
      <4> QED
        BY <4>6, <4>7, <4>8, <4>9
    <3> QED
      BY <3>1, <3>3, <3>4
  <2> QED
    BY <2>1, <2>2
<1>2. SUBSET S \subseteq Good
  <2> HIDE DEF Good
  <2> QED BY <1>1, SubsetInduction
<1>3. sum[{}] = 0
  BY DEF Sums
<1> QED
  BY <1>2, <1>3 DEF Adds

LEMMA SumDefined ==
  ASSUME NEW S, IsFiniteSet(S), NEW f \in [S -> Int]
  PROVE  \E sum : Adds(sum, f, S) /\ SumFunctionOnSet(f, S) = sum[S]
<1>1. PICK sum : Sums(sum, f, S) /\ SumFunctionOnSet(f, S) = sum[S]
  BY SumRecursion
<1>2. Adds(sum, f, S)
  BY <1>1, SumTakesAny
<1> QED
  BY <1>1, <1>2

\* Sums add up pointwise.
LEMMA SumOfSums ==
  ASSUME NEW S, IsFiniteSet(S), NEW f \in [S -> Int], NEW g \in [S -> Int]
  PROVE  SumFunctionOnSet([x \in S |-> f[x] + g[x]], S)
           = SumFunctionOnSet(f, S) + SumFunctionOnSet(g, S)
<1> DEFINE h == [x \in S |-> f[x] + g[x]]
<1>h. h \in [S -> Int] /\ \A x \in S : h[x] = f[x] + g[x]
  OBVIOUS
<1> HIDE DEF h
<1>1. PICK a : Adds(a, f, S) /\ SumFunctionOnSet(f, S) = a[S]
  BY SumDefined
<1>2. PICK b : Adds(b, g, S) /\ SumFunctionOnSet(g, S) = b[S]
  BY SumDefined
<1>3. PICK c : Adds(c, h, S) /\ SumFunctionOnSet(h, S) = c[S]
  BY <1>h, SumDefined
<1>4. \A s \in SUBSET S : a[s] \in Int /\ \A x \in s : a[s] = f[x] + a[s \ {x}]
  BY <1>1 DEF Adds
<1>5. \A s \in SUBSET S : b[s] \in Int /\ \A x \in s : b[s] = g[x] + b[s \ {x}]
  BY <1>2 DEF Adds
<1> DEFINE Good == {s \in SUBSET S : c[s] = a[s] + b[s]}
<1>6. ASSUME NEW s \in SUBSET S, \A r \in SUBSET s : r # s => r \in Good
      PROVE  s \in Good
  <2>1. CASE s = {}
    BY <1>1, <1>2, <1>3, <2>1 DEF Adds
  <2>2. CASE s # {}
    <3>1. PICK x \in s : c[s] = h[x] + c[s \ {x}]
      BY <1>3, <2>2 DEF Adds
    <3>2. s \ {x} \in Good
      <4> HIDE DEF Good
      <4> QED BY <1>6
    <3>3. c[s \ {x}] = a[s \ {x}] + b[s \ {x}]
      BY <3>2
    <3>4. /\ a[s] = f[x] + a[s \ {x}] /\ b[s] = g[x] + b[s \ {x}]
          /\ a[s \ {x}] \in Int /\ b[s \ {x}] \in Int
      <4> HIDE DEF Good
      <4> QED BY <1>4, <1>5
    <3>5. h[x] = f[x] + g[x] /\ f[x] \in Int /\ g[x] \in Int
      BY <1>h
    <3>6. c[s] = a[s] + b[s]
      <4> HIDE DEF Good
      <4> QED BY <3>1, <3>3, <3>4, <3>5
    <3> QED
      BY <3>6
  <2> QED
    BY <2>1, <2>2
<1>7. SUBSET S \subseteq Good
  <2> HIDE DEF Good
  <2> QED BY <1>6, SubsetInduction
<1>8. c[S] = a[S] + b[S]
  BY <1>7
<1> QED
  BY <1>1, <1>2, <1>3, <1>8 DEF h

\* The same amount for every member of a part of the set.
LEMMA SumOfShares ==
  ASSUME NEW S, IsFiniteSet(S), NEW P \in SUBSET S, NEW amount \in Int
  PROVE  SumFunctionOnSet([x \in S |-> IF x \in P THEN amount ELSE 0], S)
           = amount * Cardinality(P)
<1> DEFINE h == [x \in S |-> IF x \in P THEN amount ELSE 0]
<1>h. h \in [S -> Int] /\ \A x \in S : h[x] = IF x \in P THEN amount ELSE 0
  OBVIOUS
<1> HIDE DEF h
<1>1. PICK c : Adds(c, h, S) /\ SumFunctionOnSet(h, S) = c[S]
  BY <1>h, SumDefined
<1>2. \A s \in SUBSET S : IsFiniteSet(s \cap P) /\ Cardinality(s \cap P) \in Nat
  BY FS_Subset, FS_CardinalityType
<1> DEFINE Good == {s \in SUBSET S : c[s] = amount * Cardinality(s \cap P)}
<1>3. ASSUME NEW s \in SUBSET S, \A r \in SUBSET s : r # s => r \in Good
      PROVE  s \in Good
  <2>1. CASE s = {}
    <3>1. Cardinality({} \cap P) = 0
      BY FS_EmptySet, {} \cap P = {}
    <3>2. c[{}] = 0
      BY <1>1 DEF Adds
    <3> QED
      BY <2>1, <3>1, <3>2
  <2>2. CASE s # {}
    <3>1. PICK x \in s : c[s] = h[x] + c[s \ {x}]
      BY <1>1, <2>2 DEF Adds
    <3> DEFINE k == Cardinality(s \cap P)
    <3>2. s \ {x} \in Good
      <4> HIDE DEF Good
      <4> QED BY <1>3
    <3>3. c[s \ {x}] = amount * Cardinality((s \ {x}) \cap P)
      BY <3>2
    <3>4. c[s] = amount * k
      <4> HIDE DEF Good
      <4>1. CASE x \in P
        <5>1. (s \ {x}) \cap P = (s \cap P) \ {x} /\ x \in s \cap P
          BY <4>1
        <5>2. Cardinality((s \cap P) \ {x}) = k - 1
          <6>1. IsFiniteSet(s \cap P)
            BY <1>2
          <6>2. x \in s \cap P
            BY <5>1
          <6> QED BY <6>1, <6>2, FS_RemoveElement
        <5>3. c[s] = amount + amount * (k - 1)
          BY <1>h, <3>1, <3>3, <4>1, <5>1, <5>2
        <5>4. k \in Nat
          BY <1>2
        <5> HIDE DEF k
        <5> QED
          BY <5>3, <5>4
      <4>2. CASE x \notin P
        <5>1. (s \ {x}) \cap P = s \cap P
          BY <4>2
        <5>2. c[s] = 0 + amount * k
          BY <1>h, <3>1, <3>3, <4>2, <5>1
        <5>3. k \in Nat
          BY <1>2
        <5> HIDE DEF k
        <5> QED
          BY <5>2, <5>3
      <4> QED
        BY <4>1, <4>2
    <3> QED
      BY <3>4
  <2> QED
    BY <2>1, <2>2
<1>4. SUBSET S \subseteq Good
  <2> HIDE DEF Good
  <2> QED BY <1>3, SubsetInduction
<1>5. c[S] = amount * Cardinality(S \cap P) /\ S \cap P = P
  BY <1>4
<1> QED
  BY <1>1, <1>5 DEF h

\* One more element adds its amount.
LEMMA SumExtended ==
  ASSUME NEW S, IsFiniteSet(S), NEW f \in [S -> Int], NEW x, x \notin S,
         NEW g \in [S \cup {x} -> Int], \A y \in S : g[y] = f[y]
  PROVE  SumFunctionOnSet(g, S \cup {x}) = SumFunctionOnSet(f, S) + g[x]
<1>1. PICK a : Adds(a, f, S) /\ SumFunctionOnSet(f, S) = a[S]
  BY SumDefined
<1>2. IsFiniteSet(S \cup {x})
  BY FS_AddElement
<1>3. PICK b : Adds(b, g, S \cup {x}) /\ SumFunctionOnSet(g, S \cup {x}) = b[S \cup {x}]
  BY <1>2, SumDefined
<1>4. \A s \in SUBSET S : a[s] \in Int /\ \A y \in s : a[s] = f[y] + a[s \ {y}]
  BY <1>1 DEF Adds
<1>5. \A s \in SUBSET (S \cup {x}) : b[s] \in Int /\ \A y \in s : b[s] = g[y] + b[s \ {y}]
  BY <1>3 DEF Adds
<1> DEFINE Good == {s \in SUBSET S : b[s] = a[s]}
<1>6. ASSUME NEW s \in SUBSET S, \A r \in SUBSET s : r # s => r \in Good
      PROVE  s \in Good
  <2>1. CASE s = {}
    BY <1>1, <1>3, <2>1 DEF Adds
  <2>2. CASE s # {}
    <3>1. PICK y \in s : TRUE
      BY <2>2
    <3>2. s \ {y} \in Good
      <4> HIDE DEF Good
      <4> QED BY <1>6
    <3>3. b[s \ {y}] = a[s \ {y}]
      BY <3>2
    <3>4. b[s] = g[y] + b[s \ {y}] /\ a[s] = f[y] + a[s \ {y}] /\ g[y] = f[y]
      <4> HIDE DEF Good
      <4> QED BY <1>4, <1>5
    <3> QED
      BY <3>3, <3>4
  <2> QED
    BY <2>1, <2>2
<1>7. SUBSET S \subseteq Good
  <2> HIDE DEF Good
  <2> QED BY <1>6, SubsetInduction
<1>8. b[S] = a[S]
  BY <1>7
<1>9. (S \cup {x}) \ {x} = S
  OBVIOUS
<1>10. b[S \cup {x}] = g[x] + b[S] /\ b[S] \in Int /\ g[x] \in Int
  <2> HIDE DEF Good
  <2> DEFINE T == S \cup {x}
  <2>1. T \in SUBSET (S \cup {x}) /\ x \in T /\ S \in SUBSET (S \cup {x})
    OBVIOUS
  <2>2. b[T] = g[x] + b[T \ {x}]
    BY <1>5, <2>1
  <2> QED
    BY <1>5, <1>9, <2>1, <2>2
<1> QED
  BY <1>1, <1>3, <1>8, <1>10

=============================================================================
