----------------------- MODULE RegistryMetadataProofs -----------------------
(***************************************************************************)
(* Proofs about the registry metadata of module RegistryMetadata, for      *)
(* every set of packages and analyses, every number of lanes and every     *)
(* budget.  RegistryInv is inductive; a lemma about each kind of lane says *)
(* what its step takes from the budget and what it leaves accounted for.   *)
(***************************************************************************)
EXTENDS RegistryMetadata, FiniteSetTheorems, WellFoundedInduction, TLAPS

-----------------------------------------------------------------------------
(* Numbered packages                                                       *)

\* Every non-empty set of packages has a first one, and Least is it.
LEMMA LeastIsFirst ==
    ASSUME NEW S \in SUBSET Packages, S # {}
    PROVE  Least(S) \in S /\ \A q \in S : Least(S) <= q
<1>1. S \subseteq Nat
  BY RegistryAssumption
<1> DEFINE R == OpToRel(<, Nat)
<1>2. PICK p \in S : \A q \in S : ~ (<<q, p>> \in R)
  <2>1. IsWellFoundedOn(R, Nat)
    BY NatLessThanWellFounded
  <2> HIDE DEF R
  <2> QED BY <1>1, <2>1, WFMin
<1>3. ASSUME NEW q \in S PROVE p <= q
  <2>1. p \in Nat /\ q \in Nat
    BY <1>1
  <2>2. q < p => <<q, p>> \in R
    BY <2>1 DEF OpToRel
  <2> HIDE DEF R
  <2>3. ~ (q < p)
    BY <1>2, <2>2
  <2> QED BY <2>1, <2>3
<1> QED BY <1>3 DEF Least

LEMMA PackagesAreCounted ==
    ASSUME NEW S \in SUBSET Packages
    PROVE  IsFiniteSet(S) /\ Cardinality(S) \in Nat
BY RegistryAssumption, FS_Subset, FS_CardinalityType

\* Some package is among the first n of a set, unless n is 0.
LEMMA FirstIsThere ==
    ASSUME NEW S \in SUBSET Packages, S # {}, NEW n \in Nat, n # 0
    PROVE  First(S, n) # {}
<1> DEFINE p == Least(S)
<1>1. p \in S /\ \A q \in S : p <= q
  BY LeastIsFirst
<1>2. S \subseteq Nat
  BY RegistryAssumption
<1> HIDE DEF p
<1>3. {q \in S : q < p} = {}
  <2>1. ASSUME NEW q \in S PROVE ~ (q < p)
    <3>1. p \in Nat /\ q \in Nat /\ p <= q
      BY <1>1, <1>2
    <3> QED BY <3>1
  <2> QED BY <2>1
<1>4. Cardinality({q \in S : q < p}) < n
  <2>1. Cardinality({}) = 0
    BY FS_EmptySet
  <2>2. Cardinality({q \in S : q < p}) = 0
    BY <1>3, <2>1, Zenon
  <2> QED BY <2>2
<1>5. p \in First(S, n)
  BY <1>1, <1>4 DEF First
<1> QED BY <1>5

-----------------------------------------------------------------------------
(* Lanes                                                                   *)

\* A call between two requests of one of its lanes.
IsBetween(k, W, c) ==
    /\ c \in CallRecord
    /\ c.found \subseteq W \cap Listed /\ c.left \subseteq W /\ c.flying \subseteq W
    /\ c.complete => W \cap Listed \subseteq c.found \cup c.left \cup c.flying
    /\ k = "facts" => c.flying = {}

\* What a step of a lane is: it takes what is there to take, it keeps the call
\* accounted for, and a call past its deadline does not become whole.
IsLaneStep(k, W, c, budget, s) ==
    /\ s.call \in CallRecord /\ CallIsAccounted(k, W, s.call)
    /\ s.taken \in Nat /\ s.taken <= budget
    /\ s.call.state = c.state /\ s.call.dead = c.dead
    /\ s.call.complete => c.complete

LEMMA SizesLaneGoesOn ==
    ASSUME NEW W \in SUBSET Packages, NEW c, IsBetween("sizes", W, c), NEW budget \in Nat
    PROVE  IsLaneStep("sizes", W, c, budget, SizesGoOn(c, budget))
<1> DEFINE s == SizesGoOn(c, budget)
           p == Least(c.left)
<1> SUFFICES IsLaneStep("sizes", W, c, budget, s)
  OBVIOUS
<1>1. /\ c \in CallRecord /\ c.left \in SUBSET Packages /\ c.complete \in BOOLEAN
      /\ c.found \subseteq W \cap Listed /\ c.left \subseteq W /\ c.flying \subseteq W
      /\ c.complete => W \cap Listed \subseteq c.found \cup c.left \cup c.flying
  BY DEF IsBetween, CallRecord
<1>2. CASE c.left = {}
  <2>1. s.call = c /\ s.taken = 0
    BY <1>2 DEF SizesGoOn
  <2> HIDE DEF s
  <2> QED BY <1>1, <1>2, <2>1 DEF IsLaneStep, CallIsAccounted
<1>3. CASE c.left # {} /\ c.dead
  <2>1. s.call = [c EXCEPT !.complete = FALSE] /\ s.taken = 0
    BY <1>3 DEF SizesGoOn
  <2> HIDE DEF s
  <2>2. /\ s.call \in CallRecord /\ s.call.state = c.state /\ s.call.dead = c.dead
        /\ s.call.found = c.found /\ s.call.left = c.left
        /\ s.call.flying = c.flying /\ s.call.complete = FALSE
    BY <1>1, <2>1 DEF CallRecord
  <2> QED BY <1>1, <2>1, <2>2 DEF IsLaneStep, CallIsAccounted
<1>4. CASE c.left # {} /\ ~c.dead /\ budget = 0
  <2>1. p \in c.left
    BY <1>1, <1>4, LeastIsFirst
  <2>2. s.call = [c EXCEPT !.left = @ \ {p}, !.complete = FALSE] /\ s.taken = 0
    BY <1>1, <1>4 DEF SizesGoOn, CallRecord
  <2> HIDE DEF s, p
  <2>3. /\ s.call \in CallRecord /\ s.call.state = c.state /\ s.call.dead = c.dead
        /\ s.call.found = c.found /\ s.call.left = c.left \ {p}
        /\ s.call.flying = c.flying /\ s.call.complete = FALSE
    BY <1>1, <2>2 DEF CallRecord
  <2> QED BY <1>1, <2>2, <2>3 DEF IsLaneStep, CallIsAccounted
<1>5. CASE c.left # {} /\ ~c.dead /\ budget # 0
  <2>1. p \in c.left
    BY <1>1, <1>5, LeastIsFirst
  <2>2. s.call = [c EXCEPT !.left = @ \ {p}, !.flying = @ \cup {p}] /\ s.taken = 1
    BY <1>1, <1>5 DEF SizesGoOn, CallRecord
  <2> HIDE DEF s, p
  <2>3. /\ s.call \in CallRecord /\ s.call.state = c.state /\ s.call.dead = c.dead
        /\ s.call.found = c.found /\ s.call.left = c.left \ {p}
        /\ s.call.flying = c.flying \cup {p} /\ s.call.complete = c.complete
    <3>1. c.left \ {p} \in SUBSET Packages /\ c.flying \cup {p} \in SUBSET Packages
      BY <1>1, <2>1
    <3> QED BY <1>1, <2>2, <3>1 DEF CallRecord
  <2> QED BY <1>1, <1>5, <2>1, <2>2, <2>3 DEF IsLaneStep, CallIsAccounted
<1> QED BY <1>2, <1>3, <1>4, <1>5

LEMMA SizesLanesStart ==
    ASSUME NEW W \in SUBSET Packages, NEW c, IsBetween("sizes", W, c), c.flying = {},
           c.complete, NEW budget \in Nat
    PROVE  IsLaneStep("sizes", W, c, budget, SizesStart(c, budget))
<1> DEFINE n == Lower(Lanes, Cardinality(c.left))
           taken == Lower(n, budget)
           s == SizesStart(c, budget)
<1> SUFFICES IsLaneStep("sizes", W, c, budget, s)
  OBVIOUS
<1>1. /\ c \in CallRecord /\ c.left \in SUBSET Packages
      /\ c.found \subseteq W \cap Listed /\ c.left \subseteq W
      /\ W \cap Listed \subseteq c.found \cup c.left
  BY DEF IsBetween, CallRecord
<1>2. Cardinality(c.left) \in Nat /\ (Cardinality(c.left) = 0 <=> c.left = {})
  BY <1>1, PackagesAreCounted, FS_EmptySet
<1>3. n \in Nat /\ taken \in Nat /\ taken <= budget /\ (c.left # {} => n # 0)
  BY <1>2, RegistryAssumption DEF Lower
<1>4. s = [call  |-> [c EXCEPT !.left = @ \ First(c.left, n), !.flying = First(c.left, taken),
                               !.complete = taken = n],
           taken |-> taken]
  BY DEF SizesStart
<1> HIDE DEF n, taken, s
<1>5. First(c.left, n) \subseteq c.left /\ First(c.left, taken) \subseteq c.left
  BY DEF First
<1>6. c.left # {} /\ taken = n => First(c.left, taken) # {}
  BY <1>1, <1>3, FirstIsThere
<1>7. s.call \in CallRecord
  BY <1>1, <1>4, <1>5 DEF CallRecord
<1>8. CallIsAccounted("sizes", W, s.call)
  <2>1. /\ s.call.found = c.found /\ s.call.left = c.left \ First(c.left, n)
        /\ s.call.flying = First(c.left, taken) /\ s.call.complete = (taken = n)
    BY <1>1, <1>4 DEF CallRecord
  <2> QED BY <1>1, <1>5, <1>6, <2>1 DEF CallIsAccounted
<1>9. s.call.state = c.state /\ s.call.dead = c.dead /\ s.taken = taken
  BY <1>1, <1>4 DEF CallRecord
<1> QED BY <1>1, <1>3, <1>7, <1>8, <1>9 DEF IsLaneStep, CallRecord

LEMMA FactsLaneGoesOn ==
    ASSUME NEW W \in SUBSET Packages, NEW c, IsBetween("facts", W, c), NEW budget \in Nat
    PROVE  IsLaneStep("facts", W, c, budget, FactsGoOn(c, budget))
<1> DEFINE fresh  == c.left \ known.facts
           i      == Least(fresh)
           passed == {p \in c.left : fresh = {} \/ p < i}
           ahead  == [c EXCEPT !.found = @ \cup (passed \cap Listed), !.left = {}]
           s      == FactsGoOn(c, budget)
<1> SUFFICES IsLaneStep("facts", W, c, budget, s)
  OBVIOUS
<1>1. /\ c \in CallRecord /\ c.left \in SUBSET Packages /\ c.complete \in BOOLEAN
      /\ c.found \subseteq W \cap Listed /\ c.left \subseteq W /\ c.flying = {}
      /\ c.complete => W \cap Listed \subseteq c.found \cup c.left
  BY DEF IsBetween, CallRecord
<1>2. CASE c.left = {}
  <2>1. s.call = c /\ s.taken = 0
    BY <1>2 DEF FactsGoOn
  <2> HIDE DEF s
  <2> QED BY <1>1, <1>2, <2>1 DEF IsLaneStep, CallIsAccounted
<1>3. CASE c.left # {} /\ c.dead
  <2>1. s.call = [c EXCEPT !.left = {}, !.complete = FALSE] /\ s.taken = 0
    BY <1>3 DEF FactsGoOn
  <2> HIDE DEF s
  <2>2. /\ s.call \in CallRecord /\ s.call.state = c.state /\ s.call.dead = c.dead
        /\ s.call.found = c.found /\ s.call.left = {}
        /\ s.call.flying = c.flying /\ s.call.complete = FALSE
    BY <1>1, <2>1 DEF CallRecord
  <2> QED BY <1>1, <2>1, <2>2 DEF IsLaneStep, CallIsAccounted
<1>4. CASE c.left # {} /\ ~c.dead /\ fresh = {}
  <2>1. s.call = ahead /\ s.taken = 0
    BY <1>4 DEF FactsGoOn
  <2>2. passed = c.left
    BY <1>4
  <2> HIDE DEF passed, fresh, s
  <2>3. /\ s.call \in CallRecord /\ s.call.state = c.state /\ s.call.dead = c.dead
        /\ s.call.found = c.found \cup (c.left \cap Listed) /\ s.call.left = {}
        /\ s.call.flying = c.flying /\ s.call.complete = c.complete
    BY <1>1, <2>1, <2>2 DEF CallRecord
  <2> QED BY <1>1, <2>1, <2>3 DEF IsLaneStep, CallIsAccounted
<1>5. CASE c.left # {} /\ ~c.dead /\ fresh # {} /\ budget = 0
  <2>1. s.call = [ahead EXCEPT !.complete = FALSE] /\ s.taken = 0
    BY <1>5 DEF FactsGoOn
  <2>2. passed \subseteq c.left
    OBVIOUS
  <2> HIDE DEF passed, fresh, i, s
  <2>3. /\ s.call \in CallRecord /\ s.call.state = c.state /\ s.call.dead = c.dead
        /\ s.call.found = c.found \cup (passed \cap Listed) /\ s.call.left = {}
        /\ s.call.flying = c.flying /\ s.call.complete = FALSE
    BY <1>1, <2>1, <2>2 DEF CallRecord
  <2> QED BY <1>1, <2>1, <2>2, <2>3 DEF IsLaneStep, CallIsAccounted
<1>6. CASE c.left # {} /\ ~c.dead /\ fresh # {} /\ budget # 0
  <2> DEFINE later == {p \in c.left : p > i}
  <2>1. s.call = [ahead EXCEPT !.flying = {i}, !.left = later] /\ s.taken = 1
    BY <1>6 DEF FactsGoOn
  <2>2. i \in c.left
    BY <1>1, <1>6, LeastIsFirst
  <2>3. c.left \subseteq Nat
    BY <1>1, RegistryAssumption
  <2>4. passed \subseteq c.left /\ later \subseteq c.left /\ c.left = passed \cup {i} \cup later
    BY <1>6, <2>2, <2>3
  <2> HIDE DEF passed, fresh, i, later, s
  <2>5. /\ s.call \in CallRecord /\ s.call.state = c.state /\ s.call.dead = c.dead
        /\ s.call.found = c.found \cup (passed \cap Listed) /\ s.call.left = later
        /\ s.call.flying = {i} /\ s.call.complete = c.complete
    <3>1. /\ {i} \in SUBSET Packages /\ later \in SUBSET Packages
          /\ c.found \cup (passed \cap Listed) \in SUBSET Packages
      BY <1>1, <2>2, <2>4
    <3>2. s.call = [c EXCEPT !.found = c.found \cup (passed \cap Listed), !.flying = {i},
                             !.left = later]
      BY <1>1, <2>1 DEF CallRecord
    <3> QED BY <1>1, <3>1, <3>2 DEF CallRecord
  <2> QED BY <1>1, <1>6, <2>1, <2>2, <2>4, <2>5 DEF IsLaneStep, CallIsAccounted
<1> QED BY <1>2, <1>3, <1>4, <1>5, <1>6

LEMMA LaneGoesOn ==
    ASSUME NEW k \in Kinds, NEW W \in SUBSET Packages, NEW c, IsBetween(k, W, c),
           NEW budget \in Nat
    PROVE  IsLaneStep(k, W, c, budget, GoOn(k, c, budget))
BY SizesLaneGoesOn, FactsLaneGoesOn DEF GoOn, Kinds

-----------------------------------------------------------------------------
(* One run                                                                 *)

WithinBudget(rn) ==
    /\ rn.spent + rn.budget = rn.limit
    /\ rn.limit <= (IF explicit THEN FetchBudget ELSE Higher(FetchBudget, MaxBudget))

\* What RegistryInv says of one run and its calls.
RunIsRight(W, rn, cs) ==
    /\ rn \in RunRecord /\ cs \in [Kinds -> CallRecord]
    /\ WithinBudget(rn)
    /\ rn.pending = IsOpen(cs["facts"]) + IsOpen(cs["sizes"])
    /\ \A k \in Kinds : IsSettled(k, W[k], cs[k])
    /\ \A k \in Kinds : IsKnownOf(k, W[k], rn, cs[k])
    /\ rn.at = "stored" => \A k \in Kinds : rn.got[k] = W[k] \cap Listed

CachesAreRight ==
    /\ explicit \in BOOLEAN /\ known \in [Kinds -> SUBSET Packages]
    /\ answers \subseteq [wanted : SUBSET Packages, sizes : SUBSET Packages]
    /\ CachedAnswersAreWhole

LEMMA InvIsByRun ==
    RegistryInv <=> /\ CachesAreRight
                    /\ run \in [Runs -> RunRecord] /\ call \in [Runs -> [Kinds -> CallRecord]]
                    /\ \A r \in Runs : RunIsRight(Wanted[r], run[r], call[r])
<1>1. ASSUME run \in [Runs -> RunRecord]
      PROVE  BudgetIsShared <=> \A r \in Runs : WithinBudget(run[r])
  <2>1. ASSUME NEW r \in Runs
        PROVE  run[r].spent \in Nat /\ run[r].budget \in Nat /\ run[r].limit \in Nat
    BY <1>1 DEF RunRecord
  <2> QED BY <2>1 DEF BudgetIsShared, WithinBudget
<1>2. StoredIsWhole <=> \A r \in Runs : run[r].at = "stored" =>
                            \A k \in Kinds : run[r].got[k] = Wanted[r][k] \cap Listed
  BY DEF StoredIsWhole
<1> QED BY <1>1, <1>2 DEF RegistryInv, RegistryTypeOK, CallsAreAccounted, EngineKnowsItsCalls,
          CachedIsWhole, CachesAreRight, RunIsRight

\* An action that moves one run to where it is right keeps the invariant.
LEMMA OneRunMoves ==
    ASSUME RegistryInv, NEW r \in Runs, NEW rn, NEW cs, RunIsRight(Wanted[r], rn, cs),
           run' = [run EXCEPT ![r] = rn], call' = [call EXCEPT ![r] = cs],
           UNCHANGED explicit, CachesAreRight'
    PROVE  RegistryInv'
<1>1. /\ run \in [Runs -> RunRecord] /\ call \in [Runs -> [Kinds -> CallRecord]]
      /\ \A q \in Runs : RunIsRight(Wanted[q], run[q], call[q])
  BY InvIsByRun
<1>2. rn \in RunRecord /\ cs \in [Kinds -> CallRecord]
  BY DEF RunIsRight
<1>3. run' \in [Runs -> RunRecord] /\ call' \in [Runs -> [Kinds -> CallRecord]]
  BY <1>1, <1>2
<1>4. ASSUME NEW q \in Runs PROVE RunIsRight(Wanted[q], run[q], call[q])'
  <2>1. CASE q = r
    <3>1. run'[q] = rn /\ call'[q] = cs
      BY <1>1, <2>1
    <3> QED BY <2>1, <3>1 DEF RunIsRight, WithinBudget
  <2>2. CASE q # r
    <3>1. run'[q] = run[q] /\ call'[q] = call[q]
      BY <1>1, <2>2
    <3> QED BY <1>1, <3>1 DEF RunIsRight, WithinBudget
  <2> QED BY <2>1, <2>2
<1>5. CachesAreRight' /\ (\A q \in Runs : RunIsRight(Wanted[q], run[q], call[q])')
  BY <1>4
<1> QED
  <2>1. (InvIsByRun)' => RegistryInv'
    BY <1>3, <1>5
  <2> QED BY <2>1, InvIsByRun, PTL

-----------------------------------------------------------------------------
(* The budget                                                              *)

\* The budget grows to what the calls so far ask for, never past its bound, and
\* what was spent stays spent.
LEMMA ExpandKeepsTheBudget ==
    ASSUME explicit \in BOOLEAN, NEW rn \in RunRecord, WithinBudget(rn), NEW n \in Nat
    PROVE  LET next == Expand(rn, n)
           IN  /\ next \in RunRecord /\ WithinBudget(next)
               /\ next.at = rn.at /\ next.pending = rn.pending
               /\ next.truncated = rn.truncated /\ next.got = rn.got
<1> DEFINE limit == Higher(rn.limit, Lower(MaxBudget, rn.spent + n))
<1>1. rn.spent \in Nat /\ rn.limit \in Nat /\ rn.budget \in Nat
  BY DEF RunRecord
<1>2. /\ limit \in Nat /\ limit - rn.spent \in Nat
      /\ ~explicit => limit <= Higher(FetchBudget, MaxBudget)
  BY <1>1, RegistryAssumption DEF WithinBudget, Higher, Lower
<1> HIDE DEF limit
<1>3. CASE explicit
  BY <1>3 DEF Expand
<1>4. CASE ~explicit
  <2> DEFINE next == [rn EXCEPT !.limit = limit, !.budget = limit - rn.spent]
  <2>1. Expand(rn, n) = next
    BY <1>4 DEF Expand, limit
  <2>2. /\ next \in RunRecord /\ next.spent = rn.spent /\ next.limit = limit
        /\ next.budget = limit - rn.spent /\ next.at = rn.at /\ next.pending = rn.pending
        /\ next.truncated = rn.truncated /\ next.got = rn.got
    BY <1>1, <1>2 DEF RunRecord
  <2> HIDE DEF next
  <2>3. WithinBudget(next)
    BY <1>1, <1>2, <1>4, <2>2 DEF WithinBudget
  <2> QED BY <2>1, <2>2, <2>3
<1> QED BY <1>3, <1>4

LEMMA SpendKeepsTheBudget ==
    ASSUME NEW rn \in RunRecord, WithinBudget(rn), NEW n \in Nat, n <= rn.budget
    PROVE  LET next == Spend(rn, n)
           IN  /\ next \in RunRecord /\ WithinBudget(next)
               /\ next.at = rn.at /\ next.pending = rn.pending
               /\ next.truncated = rn.truncated /\ next.got = rn.got
<1> DEFINE next == Spend(rn, n)
<1>1. rn.spent \in Nat /\ rn.limit \in Nat /\ rn.budget \in Nat
  BY DEF RunRecord
<1>2. rn.budget - n \in Nat /\ rn.spent + n \in Nat
  BY <1>1
<1>3. /\ next \in RunRecord /\ next.spent = rn.spent + n /\ next.limit = rn.limit
      /\ next.budget = rn.budget - n /\ next.at = rn.at /\ next.pending = rn.pending
      /\ next.truncated = rn.truncated /\ next.got = rn.got
  BY <1>2 DEF Spend, RunRecord
<1> HIDE DEF next
<1>4. WithinBudget(next)
  BY <1>1, <1>3 DEF WithinBudget
<1> QED BY <1>3, <1>4 DEF next

-----------------------------------------------------------------------------
(* The steps of a run                                                      *)

\* A lane's step, of a call that goes on or was just opened.
LEMMA LaneStepIsRight ==
    ASSUME NEW W \in [Kinds -> SUBSET Packages], NEW k \in Kinds,
           NEW rn \in RunRecord, WithinBudget(rn), NEW cs \in [Kinds -> CallRecord],
           NEW c, c.state = "open", NEW s, IsLaneStep(k, W[k], c, rn.budget, s),
           rn.pending = 1 + IsOpen(IF k = "facts" THEN cs["sizes"] ELSE cs["facts"]),
           \A j \in Kinds \ {k} : /\ IsSettled(j, W[j], cs[j])
                                  /\ IsKnownOf(j, W[j], rn, cs[j]),
           rn.at \notin Ahead(k), rn.at \in Past(k) => c.dead /\ ~c.complete,
           rn.at = "stored" => \A j \in Kinds : rn.got[j] = W[j] \cap Listed
    PROVE  RunIsRight(W, Spend(rn, s.taken), [cs EXCEPT ![k] = s.call])
<1> DEFINE after == Spend(rn, s.taken)
           cs2   == [cs EXCEPT ![k] = s.call]
<1> SUFFICES RunIsRight(W, after, cs2)
  OBVIOUS
<1>1. /\ s.call \in CallRecord /\ CallIsAccounted(k, W[k], s.call)
      /\ s.call.state = "open" /\ s.call.dead = c.dead /\ (s.call.complete => c.complete)
      /\ s.taken \in Nat /\ s.taken <= rn.budget
  BY DEF IsLaneStep
<1>2. /\ after \in RunRecord /\ WithinBudget(after) /\ after.at = rn.at
      /\ after.pending = rn.pending /\ after.truncated = rn.truncated /\ after.got = rn.got
  BY <1>1, SpendKeepsTheBudget
<1>3. cs2 \in [Kinds -> CallRecord] /\ cs2[k] = s.call /\ \A j \in Kinds \ {k} : cs2[j] = cs[j]
  BY <1>1
<1> HIDE DEF after, cs2
<1>4. after.pending = IsOpen(cs2["facts"]) + IsOpen(cs2["sizes"])
  BY <1>1, <1>2, <1>3 DEF IsOpen, Kinds
<1>5. ASSUME NEW j \in Kinds
      PROVE  /\ IsSettled(j, W[j], cs2[j])
             /\ IsKnownOf(j, W[j], after, cs2[j])
  <2>1. CASE j = k
    BY <1>1, <1>2, <1>3, <2>1 DEF IsKnownOf, IsSettled
  <2>2. CASE j # k
    BY <1>2, <1>3, <2>2 DEF IsKnownOf
  <2> QED BY <2>1, <2>2
<1> QED BY <1>2, <1>3, <1>4, <1>5 DEF RunIsRight

\* A call and its run while a lane goes on with it.
LEMMA CallGoesOn ==
    ASSUME RegistryInv, NEW r \in Runs, NEW k \in Kinds, call[r][k].state = "open",
           NEW c, IsBetween(k, Wanted[r][k], c), c.state = "open", c.dead = call[r][k].dead,
           c.dead => ~c.complete
    PROVE  LET s == GoOn(k, c, run[r].budget)
           IN  RunIsRight(Wanted[r], Spend(run[r], s.taken), [call[r] EXCEPT ![k] = s.call])
<1> DEFINE s == GoOn(k, c, run[r].budget)
<1>1. RunIsRight(Wanted[r], run[r], call[r])
  BY InvIsByRun
<1>2. Wanted[r] \in [Kinds -> SUBSET Packages] /\ Wanted[r][k] \in SUBSET Packages
  BY RegistryAssumption
<1>3. run[r] \in RunRecord /\ run[r].budget \in Nat /\ call[r] \in [Kinds -> CallRecord]
  BY <1>1 DEF RunIsRight, RunRecord
<1>4. IsLaneStep(k, Wanted[r][k], c, run[r].budget, s)
  BY <1>2, <1>3, LaneGoesOn
<1> HIDE DEF s
<1>5. run[r].pending = 1 + IsOpen(IF k = "facts" THEN call[r]["sizes"] ELSE call[r]["facts"])
  BY <1>1 DEF RunIsRight, IsOpen, Kinds
<1>6. run[r].at \notin Ahead(k) /\ (run[r].at \in Past(k) => c.dead /\ ~c.complete)
  BY <1>1 DEF RunIsRight, IsKnownOf
<1>7. \A j \in Kinds \ {k} :
         /\ IsSettled(j, Wanted[r][j], call[r][j])
         /\ IsKnownOf(j, Wanted[r][j], run[r], call[r][j])
  BY <1>1 DEF RunIsRight
<1>8. run[r].at = "stored" => \A j \in Kinds : run[r].got[j] = Wanted[r][j] \cap Listed
  BY <1>1 DEF RunIsRight
<1>9. WithinBudget(run[r])
  BY <1>1 DEF RunIsRight
<1>10. RunIsRight(Wanted[r], Spend(run[r], s.taken), [call[r] EXCEPT ![k] = s.call])
  BY <1>2, <1>3, <1>4, <1>5, <1>6, <1>7, <1>8, <1>9, LaneStepIsRight
<1> QED BY <1>10 DEF s

-----------------------------------------------------------------------------
(* The engine's calls                                                      *)

LEMMA OpenedKeepsTheBudget ==
    ASSUME NEW r \in Runs, run[r] \in RunRecord, WithinBudget(run[r]), NEW k \in Kinds
    PROVE  LET op == Opened(r, k)
           IN  /\ op \in RunRecord /\ WithinBudget(op) /\ op.at = k
               /\ op.pending = run[r].pending + 1
               /\ op.truncated = run[r].truncated /\ op.got = run[r].got
<1>0. run[r].pending \in Int
  BY DEF RunRecord
<1> DEFINE op == Opened(r, k)
           rn == run[r]
<1>1. rn.pending + 1 \in Int
  BY <1>0
<1>2. /\ op \in RunRecord /\ op.at = k /\ op.pending = rn.pending + 1
      /\ op.truncated = rn.truncated /\ op.got = rn.got
      /\ op.spent = rn.spent /\ op.limit = rn.limit /\ op.budget = rn.budget
  BY <1>1 DEF Opened, RunRecord, Kinds
<1> HIDE DEF op
<1>3. WithinBudget(op)
  BY <1>2 DEF WithinBudget
<1> QED BY <1>2, <1>3 DEF op

LEMMA AskFactsIsRight ==
    ASSUME RegistryInv, NEW r \in Runs, AskFacts(r)
    PROVE  RegistryInv'
<1> DEFINE W  == Wanted[r]["facts"]
           op == Opened(r, "facts")
           rn == Expand(op, Cardinality(W))
           c  == [NewCall EXCEPT !.state = "open", !.left = W]
           s  == FactsGoOn(c, rn.budget)
<1>1. RunIsRight(Wanted[r], run[r], call[r]) /\ CachesAreRight
  BY InvIsByRun
<1>2. /\ run[r].at = "start" /\ UNCHANGED <<explicit, known, answers>>
      /\ Step(r, "facts", rn, s)
  BY DEF AskFacts, Before
<1>3. Wanted[r] \in [Kinds -> SUBSET Packages] /\ W \in SUBSET Packages /\ "facts" \in Kinds
  BY RegistryAssumption DEF Kinds
<1>4. op \in RunRecord /\ WithinBudget(op) /\ op.at = "facts"
      /\ op.pending = run[r].pending + 1
  BY <1>1, <1>3, OpenedKeepsTheBudget DEF RunIsRight
<1>5. rn \in RunRecord /\ WithinBudget(rn) /\ rn.at = "facts" /\ rn.pending = run[r].pending + 1
  <2>1. Cardinality(W) \in Nat
    BY <1>3, PackagesAreCounted
  <2>2. explicit \in BOOLEAN
    BY <1>1 DEF CachesAreRight
  <2> HIDE DEF op, W
  <2> QED BY <1>4, <2>1, <2>2, ExpandKeepsTheBudget
<1>6. /\ c \in CallRecord /\ c.state = "open" /\ c.found = {} /\ c.left = W
      /\ c.flying = {} /\ c.complete = TRUE
  BY <1>3 DEF NewCall, CallRecord
<1> HIDE DEF c, rn, op
<1>7. IsLaneStep("facts", W, c, rn.budget, s)
  <2>1. IsBetween("facts", W, c)
    BY <1>6 DEF IsBetween
  <2>2. rn.budget \in Nat
    BY <1>5 DEF RunRecord
  <2> QED BY <1>3, <2>1, <2>2, FactsLaneGoesOn
<1> HIDE DEF s
<1>8. RunIsRight(Wanted[r], Spend(rn, s.taken), [call[r] EXCEPT !["facts"] = s.call])
  <2>1. call[r] \in [Kinds -> CallRecord]
    BY <1>1 DEF RunIsRight
  <2>2. call[r]["facts"].state = "none" /\ call[r]["sizes"].state = "none"
    BY <1>1, <1>2 DEF RunIsRight, IsKnownOf, Ahead, Kinds
  <2>3. rn.pending = 1 + IsOpen(call[r]["sizes"])
    BY <1>1, <1>5, <2>2 DEF RunIsRight, IsOpen
  <2>4. \A j \in Kinds \ {"facts"} : /\ IsSettled(j, Wanted[r][j], call[r][j])
                                     /\ IsKnownOf(j, Wanted[r][j], rn, call[r][j])
    BY <1>1, <1>5, <2>2 DEF RunIsRight, IsKnownOf, Ahead, Past, Kinds
  <2>5. rn.at \notin Ahead("facts") /\ rn.at \notin Past("facts")
    BY <1>5 DEF Ahead, Past
  <2> QED BY <1>3, <1>5, <1>6, <1>7, <2>1, <2>3, <2>4, <2>5, LaneStepIsRight
<1>9. CachesAreRight'
  BY <1>1, <1>2 DEF CachesAreRight, CachedAnswersAreWhole
<1> QED
  <2>1. run' = [run EXCEPT ![r] = Spend(rn, s.taken)]
        /\ call' = [call EXCEPT ![r] = [call[r] EXCEPT !["facts"] = s.call]]
    BY <1>2 DEF Step
  <2> QED BY <1>2, <1>8, <1>9, <2>1, OneRunMoves

LEMMA AskSizesIsRight ==
    ASSUME RegistryInv, NEW r \in Runs, AskSizes(r)
    PROVE  RegistryInv'
<1> DEFINE W  == Wanted[r]["sizes"]
           op == Opened(r, "sizes")
           rn == Expand(op, Cardinality(W))
           c  == [NewCall EXCEPT !.state = "open", !.left = W \ known.sizes,
                                 !.found = W \cap known.sizes \cap Listed]
           s  == SizesStart(c, rn.budget)
<1>1. RunIsRight(Wanted[r], run[r], call[r]) /\ CachesAreRight
  BY InvIsByRun
<1>2. /\ run[r].at = "between" /\ UNCHANGED <<explicit, known, answers>>
      /\ Step(r, "sizes", rn, s)
  BY DEF AskSizes, Before
<1>3. Wanted[r] \in [Kinds -> SUBSET Packages] /\ W \in SUBSET Packages /\ "sizes" \in Kinds
  BY RegistryAssumption DEF Kinds
<1>4. /\ op \in RunRecord /\ WithinBudget(op) /\ op.at = "sizes"
      /\ op.pending = run[r].pending + 1
      /\ op.truncated = run[r].truncated /\ op.got = run[r].got
  BY <1>1, <1>3, OpenedKeepsTheBudget DEF RunIsRight
<1>5. /\ rn \in RunRecord /\ WithinBudget(rn) /\ rn.at = "sizes"
      /\ rn.pending = run[r].pending + 1
      /\ rn.truncated = run[r].truncated /\ rn.got = run[r].got
  <2>1. Cardinality(W) \in Nat
    BY <1>3, PackagesAreCounted
  <2>2. explicit \in BOOLEAN
    BY <1>1 DEF CachesAreRight
  <2> HIDE DEF op, W
  <2> QED BY <1>4, <2>1, <2>2, ExpandKeepsTheBudget
<1>6. /\ c \in CallRecord /\ c.state = "open" /\ c.found = W \cap known.sizes \cap Listed
      /\ c.left = W \ known.sizes /\ c.flying = {} /\ c.complete = TRUE
  <2>1. W \ known.sizes \in SUBSET Packages /\ W \cap known.sizes \cap Listed \in SUBSET Packages
    BY <1>3
  <2> HIDE DEF W
  <2> QED BY <2>1 DEF NewCall, CallRecord
<1> HIDE DEF c, rn, op
<1>7. IsLaneStep("sizes", W, c, rn.budget, s)
  <2>1. IsBetween("sizes", W, c)
    BY <1>6 DEF IsBetween
  <2>2. rn.budget \in Nat
    BY <1>5 DEF RunRecord
  <2> HIDE DEF W
  <2> QED BY <1>3, <1>6, <2>1, <2>2, SizesLanesStart
<1> HIDE DEF s
<1>8. RunIsRight(Wanted[r], Spend(rn, s.taken), [call[r] EXCEPT !["sizes"] = s.call])
  <2>1. call[r] \in [Kinds -> CallRecord]
    BY <1>1 DEF RunIsRight
  <2>2. call[r]["sizes"].state = "none"
    BY <1>1, <1>2 DEF RunIsRight, IsKnownOf, Ahead, Kinds
  <2>3. rn.pending = 1 + IsOpen(call[r]["facts"])
    <3>1. run[r].pending = IsOpen(call[r]["facts"]) + IsOpen(call[r]["sizes"])
      BY <1>1 DEF RunIsRight
    <3> QED BY <1>5, <2>2, <3>1 DEF IsOpen
  <2>4. \A j \in Kinds \ {"sizes"} :
           /\ IsSettled(j, Wanted[r][j], call[r][j])
           /\ IsKnownOf(j, Wanted[r][j], rn, call[r][j])
    <3>1. "facts" \in Kinds /\ Kinds \ {"sizes"} = {"facts"}
      BY DEF Kinds
    <3>2. IsKnownOf("facts", Wanted[r]["facts"], run[r], call[r]["facts"])
          /\ IsSettled("facts", Wanted[r]["facts"], call[r]["facts"])
      BY <1>1, <3>1 DEF RunIsRight
    <3>3. IsKnownOf("facts", Wanted[r]["facts"], rn, call[r]["facts"])
      BY <1>2, <1>5, <3>2 DEF IsKnownOf, Ahead, Past
    <3> QED BY <3>1, <3>2, <3>3
  <2>5. rn.at \notin Ahead("sizes") /\ rn.at \notin Past("sizes")
    BY <1>5 DEF Ahead, Past
  <2> QED BY <1>3, <1>5, <1>6, <1>7, <2>1, <2>3, <2>4, <2>5, LaneStepIsRight
<1>9. CachesAreRight'
  BY <1>1, <1>2 DEF CachesAreRight, CachedAnswersAreWhole
<1> QED
  <2>1. run' = [run EXCEPT ![r] = Spend(rn, s.taken)]
        /\ call' = [call EXCEPT ![r] = [call[r] EXCEPT !["sizes"] = s.call]]
    BY <1>2 DEF Step
  <2> QED BY <1>2, <1>8, <1>9, <2>1, OneRunMoves

\* A whole answer out of the cache is what the registry has.
LEMMA AskCachedIsRight ==
    ASSUME RegistryInv, NEW r \in Runs, AskCached(r)
    PROVE  RegistryInv'
<1>1. RunIsRight(Wanted[r], run[r], call[r]) /\ CachesAreRight
  BY InvIsByRun
<1>2. PICK a \in answers : /\ a.wanted = Wanted[r]["sizes"]
                           /\ run' = [run EXCEPT ![r].at = "done", ![r].got["sizes"] = a.sizes]
  BY DEF AskCached, After
<1>3. run[r].at = "between" /\ UNCHANGED <<explicit, known, answers, call>>
  BY DEF AskCached, Before
<1>4. a.sizes = Wanted[r]["sizes"] \cap Listed /\ a.sizes \in SUBSET Packages
  BY <1>1, <1>2 DEF CachesAreRight, CachedAnswersAreWhole
<1> DEFINE rn == [run[r] EXCEPT !.at = "done", !.got["sizes"] = a.sizes]
<1>5. "facts" \in Kinds /\ "sizes" \in Kinds /\ Kinds = {"facts", "sizes"}
  BY DEF Kinds
<1>6. /\ rn \in RunRecord /\ rn.at = "done" /\ rn.pending = run[r].pending
      /\ rn.truncated = run[r].truncated
      /\ rn.spent = run[r].spent /\ rn.limit = run[r].limit /\ rn.budget = run[r].budget
      /\ rn.got["facts"] = run[r].got["facts"] /\ rn.got["sizes"] = a.sizes
  <2>1. run[r] \in RunRecord /\ run[r].got \in [Kinds -> (SUBSET Packages) \cup {Nothing}]
    BY <1>1 DEF RunIsRight, RunRecord
  <2>2. [run[r].got EXCEPT !["sizes"] = a.sizes] \in [Kinds -> (SUBSET Packages) \cup {Nothing}]
    BY <1>4, <2>1
  <2> QED BY <1>5, <2>1, <2>2 DEF RunRecord
<1> HIDE DEF rn
<1>7. RunIsRight(Wanted[r], rn, call[r])
  <2>1. WithinBudget(rn) /\ rn.pending = IsOpen(call[r]["facts"]) + IsOpen(call[r]["sizes"])
    BY <1>1, <1>6 DEF RunIsRight, WithinBudget
  <2>2. IsKnownOf("facts", Wanted[r]["facts"], rn, call[r]["facts"])
    BY <1>1, <1>3, <1>5, <1>6 DEF RunIsRight, IsKnownOf, Ahead, Past
  <2>3. IsKnownOf("sizes", Wanted[r]["sizes"], rn, call[r]["sizes"])
    BY <1>1, <1>3, <1>4, <1>5, <1>6 DEF RunIsRight, IsKnownOf, Ahead, Past
  <2> QED BY <1>1, <1>5, <1>6, <2>1, <2>2, <2>3 DEF RunIsRight
<1>8. CachesAreRight'
  BY <1>1, <1>3 DEF CachesAreRight, CachedAnswersAreWhole
<1>9. run' = [run EXCEPT ![r] = rn] /\ call' = [call EXCEPT ![r] = call[r]]
  <2>1. call \in [Runs -> [Kinds -> CallRecord]]
    BY InvIsByRun
  <2> QED BY <1>2, <1>3, <2>1 DEF rn
<1> QED BY <1>3, <1>7, <1>8, <1>9, OneRunMoves

LEMMA RespondsIsRight ==
    ASSUME RegistryInv, NEW r \in Runs, NEW k \in Kinds, NEW p \in Packages, Responds(r, k, p)
    PROVE  RegistryInv'
<1>1. RunIsRight(Wanted[r], run[r], call[r]) /\ CachesAreRight
  BY InvIsByRun
<1>2. /\ p \in call[r][k].flying /\ ~call[r][k].dead /\ UNCHANGED <<explicit, answers>>
      /\ known' = known \/ known' = [known EXCEPT ![k] = @ \cup {p}]
  BY DEF Responds
<1>3. call[r][k] \in CallRecord /\ call[r][k].state = "open"
      /\ CallIsAccounted(k, Wanted[r][k], call[r][k])
  BY <1>1, <1>2 DEF RunIsRight, IsSettled
<1>4. PICK c : /\ IsBetween(k, Wanted[r][k], c) /\ c.state = "open" /\ c.dead = call[r][k].dead
               /\ Step(r, k, run[r], GoOn(k, c, run[r].budget))
  <2> DEFINE c0 == [call[r][k] EXCEPT !.flying = @ \ {p}]
             good == [c0 EXCEPT !.found = @ \cup ({p} \cap Listed)]
             bad  == [c0 EXCEPT !.complete = FALSE]
  <2>1. c0 \in CallRecord /\ c0.state = "open" /\ c0.dead = call[r][k].dead
        /\ c0.found = call[r][k].found /\ c0.left = call[r][k].left
        /\ c0.flying = call[r][k].flying \ {p} /\ c0.complete = call[r][k].complete
    BY <1>2, <1>3 DEF CallRecord
  <2>2. \/ Step(r, k, run[r], GoOn(k, good, run[r].budget))
        \/ Step(r, k, run[r], GoOn(k, bad, run[r].budget))
    BY DEF Responds
  <2> HIDE DEF c0
  <2>3. /\ good \in CallRecord /\ good.state = "open" /\ good.dead = call[r][k].dead
        /\ good.found = call[r][k].found \cup ({p} \cap Listed) /\ good.left = call[r][k].left
        /\ good.flying = call[r][k].flying \ {p} /\ good.complete = call[r][k].complete
    BY <2>1 DEF CallRecord
  <2>4. /\ bad \in CallRecord /\ bad.state = "open" /\ bad.dead = call[r][k].dead /\ ~bad.complete
        /\ bad.found = call[r][k].found /\ bad.left = call[r][k].left
        /\ bad.flying = call[r][k].flying \ {p}
    BY <2>1 DEF CallRecord
  <2> HIDE DEF good, bad
  <2>5. IsBetween(k, Wanted[r][k], good)
    BY <1>2, <1>3, <2>3 DEF IsBetween, CallIsAccounted
  <2>6. IsBetween(k, Wanted[r][k], bad)
    BY <1>2, <1>3, <2>4 DEF IsBetween, CallIsAccounted
  <2> QED BY <2>2, <2>3, <2>4, <2>5, <2>6
<1> DEFINE s == GoOn(k, c, run[r].budget)
<1>5. RunIsRight(Wanted[r], Spend(run[r], s.taken), [call[r] EXCEPT ![k] = s.call])
  BY <1>2, <1>3, <1>4, CallGoesOn
<1>6. CachesAreRight'
  BY <1>1, <1>2 DEF CachesAreRight, CachedAnswersAreWhole
<1>7. run' = [run EXCEPT ![r] = Spend(run[r], s.taken)]
      /\ call' = [call EXCEPT ![r] = [call[r] EXCEPT ![k] = s.call]]
  BY <1>4 DEF Step
<1> HIDE DEF s
<1> QED BY <1>2, <1>5, <1>6, <1>7, OneRunMoves

LEMMA AbortedIsRight ==
    ASSUME RegistryInv, NEW r \in Runs, NEW k \in Kinds, NEW p \in Packages, Aborted(r, k, p)
    PROVE  RegistryInv'
<1> DEFINE c == [call[r][k] EXCEPT !.flying = @ \ {p}, !.complete = FALSE]
           s == GoOn(k, c, run[r].budget)
<1>1. RunIsRight(Wanted[r], run[r], call[r]) /\ CachesAreRight
  BY InvIsByRun
<1>2. /\ p \in call[r][k].flying /\ call[r][k].dead /\ UNCHANGED <<explicit, known, answers>>
      /\ Step(r, k, run[r], s)
  BY DEF Aborted
<1>3. call[r][k] \in CallRecord /\ call[r][k].state = "open"
      /\ CallIsAccounted(k, Wanted[r][k], call[r][k])
  BY <1>1, <1>2 DEF RunIsRight, IsSettled
<1>4. /\ c \in CallRecord /\ c.state = "open" /\ c.dead = call[r][k].dead /\ ~c.complete
      /\ c.found = call[r][k].found /\ c.left = call[r][k].left
      /\ c.flying = call[r][k].flying \ {p}
  BY <1>3 DEF CallRecord
<1> HIDE DEF c
<1>5. IsBetween(k, Wanted[r][k], c)
  BY <1>2, <1>3, <1>4 DEF IsBetween, CallIsAccounted
<1>6. RunIsRight(Wanted[r], Spend(run[r], s.taken), [call[r] EXCEPT ![k] = s.call])
  BY <1>3, <1>4, <1>5, CallGoesOn
<1>7. CachesAreRight'
  BY <1>1, <1>2 DEF CachesAreRight, CachedAnswersAreWhole
<1>8. run' = [run EXCEPT ![r] = Spend(run[r], s.taken)]
      /\ call' = [call EXCEPT ![r] = [call[r] EXCEPT ![k] = s.call]]
  BY <1>2 DEF Step
<1> HIDE DEF s
<1> QED BY <1>2, <1>6, <1>7, <1>8, OneRunMoves

LEMMA DeadlineIsRight ==
    ASSUME RegistryInv, NEW r \in Runs, NEW k \in Kinds, Deadline(r, k)
    PROVE  RegistryInv'
<1> DEFINE c  == [call[r][k] EXCEPT !.dead = TRUE]
           cs == [call[r] EXCEPT ![k] = c]
<1>1. RunIsRight(Wanted[r], run[r], call[r]) /\ CachesAreRight
  BY InvIsByRun
<1>2. /\ call[r][k].state = "open" /\ UNCHANGED <<explicit, known, answers, run>>
      /\ call' = [call EXCEPT ![r] = cs]
  BY DEF Deadline
<1>3. call[r][k] \in CallRecord /\ call[r] \in [Kinds -> CallRecord]
  BY <1>1 DEF RunIsRight
<1>4. /\ c \in CallRecord /\ c.state = "open" /\ c.dead /\ c.complete = call[r][k].complete
      /\ c.found = call[r][k].found /\ c.left = call[r][k].left
      /\ c.flying = call[r][k].flying
  BY <1>2, <1>3 DEF CallRecord
<1> HIDE DEF c
<1>5. cs \in [Kinds -> CallRecord] /\ cs[k] = c /\ \A j \in Kinds \ {k} : cs[j] = call[r][j]
  BY <1>3, <1>4
<1> HIDE DEF cs
<1>6. RunIsRight(Wanted[r], run[r], cs)
  <2>1. run[r].pending = IsOpen(cs["facts"]) + IsOpen(cs["sizes"])
    BY <1>1, <1>2, <1>4, <1>5 DEF RunIsRight, IsOpen, Kinds
  <2>2. ASSUME NEW j \in Kinds
        PROVE  IsSettled(j, Wanted[r][j], cs[j]) /\ IsKnownOf(j, Wanted[r][j], run[r], cs[j])
    <3>1. IsSettled(j, Wanted[r][j], call[r][j]) /\ IsKnownOf(j, Wanted[r][j], run[r], call[r][j])
      BY <1>1 DEF RunIsRight
    <3>2. CASE j = k
      BY <1>2, <1>4, <1>5, <3>1, <3>2 DEF IsSettled, CallIsAccounted, IsKnownOf
    <3>3. CASE j # k
      BY <1>5, <3>1, <3>3
    <3> QED BY <3>2, <3>3
  <2> QED BY <1>1, <1>5, <2>1, <2>2 DEF RunIsRight
<1>7. CachesAreRight'
  BY <1>1, <1>2 DEF CachesAreRight, CachedAnswersAreWhole
<1>8. run' = [run EXCEPT ![r] = run[r]]
  <2>1. run \in [Runs -> RunRecord]
    BY InvIsByRun
  <2> QED BY <1>2, <2>1
<1> QED BY <1>2, <1>6, <1>7, <1>8, OneRunMoves

LEMMA AfterIsPast ==
    ASSUME NEW k \in Kinds
    PROVE  After[k] \in Past(k) /\ After[k] = IF k = "facts" THEN "between" ELSE "done"
<1>1. After["facts"] = "between" /\ After["sizes"] = "done"
  BY DEF After
<1> QED BY <1>1 DEF Past, Kinds

\* The engine goes on after a call of kind k: what it knows of the other kind
\* stays true.
LEMMA TheOtherKindIsKnown ==
    ASSUME NEW k \in Kinds, NEW j \in Kinds \ {k}, NEW W, NEW rn, NEW next, NEW c,
           IsKnownOf(j, W, rn, c), rn.truncated => next.truncated, next.got[j] = rn.got[j],
           next.at = rn.at \/ (rn.at = k /\ next.at = After[k])
    PROVE  IsKnownOf(j, W, next, c)
BY AfterIsPast DEF IsKnownOf, Ahead, Past, Kinds

LEMMA ReturnIsRight ==
    ASSUME RegistryInv, NEW r \in Runs, NEW k \in Kinds, Return(r, k)
    PROVE  RegistryInv'
<1> DEFINE c    == call[r][k]
           W    == Wanted[r][k]
           back == [NewCall EXCEPT !.state = "returned"]
           cs   == [call[r] EXCEPT ![k] = back]
           waiting == run[r].at = k
           rn   == [run[r] EXCEPT !.pending = @ - 1, !.truncated = @ \/ ~c.complete,
                                  !.at = IF waiting THEN After[k] ELSE @,
                                  !.got[k] = IF waiting THEN c.found ELSE @]
<1>1. RunIsRight(Wanted[r], run[r], call[r]) /\ CachesAreRight
  BY InvIsByRun
<1>2. /\ c.state = "open" /\ c.flying = {} /\ UNCHANGED <<explicit, known>>
      /\ run' = [run EXCEPT ![r] = rn] /\ call' = [call EXCEPT ![r] = cs]
      /\ answers' = IF k = "sizes" THEN answers \cup Kept(r, c) ELSE answers
  <2>1. c.state = "open" /\ c.flying = {} /\ UNCHANGED <<explicit, known>>
        /\ answers' = IF k = "sizes" THEN answers \cup Kept(r, c) ELSE answers
    BY DEF Return
  <2>2. call' = [call EXCEPT ![r] = cs]
    BY DEF Return
  <2>3. run' = [run EXCEPT ![r] = rn]
    BY DEF Return
  <2> QED BY <2>1, <2>2, <2>3
<1>3. c \in CallRecord /\ CallIsAccounted(k, W, c) /\ IsKnownOf(k, W, run[r], c)
  BY <1>1, <1>2 DEF RunIsRight, IsSettled
<1>4. /\ c.found \in SUBSET Packages /\ c.complete \in BOOLEAN
      /\ c.complete => c.found = W \cap Listed
  BY <1>2, <1>3 DEF CallIsAccounted, CallRecord
<1>5. /\ back \in CallRecord /\ back.state = "returned" /\ back.flying = {}
  BY DEF NewCall, CallRecord
<1>6. /\ run[r] \in RunRecord /\ run[r].pending \in Int /\ run[r].truncated \in BOOLEAN
      /\ run[r].got \in [Kinds -> (SUBSET Packages) \cup {Nothing}]
      /\ run[r].at \in Ahead(k) \cup {k} \cup Past(k)
  BY <1>1 DEF RunIsRight, RunRecord, Ahead, Past, Kinds
<1>7. After[k] \in Past(k) /\ After[k] \in {"between", "done"}
  BY AfterIsPast
<1> HIDE DEF c, W, back
<1>8. /\ rn \in RunRecord /\ rn.pending = run[r].pending - 1
      /\ rn.truncated = (run[r].truncated \/ ~c.complete)
      /\ rn.at = (IF waiting THEN After[k] ELSE run[r].at)
      /\ rn.got[k] = (IF waiting THEN c.found ELSE run[r].got[k])
      /\ \A j \in Kinds \ {k} : rn.got[j] = run[r].got[j]
      /\ rn.spent = run[r].spent /\ rn.limit = run[r].limit /\ rn.budget = run[r].budget
  <2>1. [run[r].got EXCEPT ![k] = IF waiting THEN c.found ELSE @]
          \in [Kinds -> (SUBSET Packages) \cup {Nothing}]
    BY <1>4, <1>6
  <2>2. (IF waiting THEN After[k] ELSE run[r].at)
          \in {"start", "facts", "between", "sizes", "done", "stored", "not stored"}
    BY <1>6, <1>7 DEF RunRecord
  <2>3. run[r].pending - 1 \in Int /\ (run[r].truncated \/ ~c.complete) \in BOOLEAN
    BY <1>6
  <2> HIDE DEF waiting
  <2> QED BY <1>6, <2>1, <2>2, <2>3 DEF RunRecord
<1>9. cs \in [Kinds -> CallRecord] /\ cs[k] = back /\ \A j \in Kinds \ {k} : cs[j] = call[r][j]
  BY <1>1, <1>5 DEF RunIsRight
<1> HIDE DEF rn, cs
<1>10. RunIsRight(Wanted[r], rn, cs)
  <2>1. rn.pending = IsOpen(cs["facts"]) + IsOpen(cs["sizes"])
    <3>1. run[r].pending = IsOpen(call[r]["facts"]) + IsOpen(call[r]["sizes"])
      BY <1>1 DEF RunIsRight
    <3> QED BY <1>2, <1>5, <1>8, <1>9, <3>1 DEF IsOpen, Kinds, c
  <2>2. ASSUME NEW j \in Kinds
        PROVE  IsSettled(j, Wanted[r][j], cs[j]) /\ IsKnownOf(j, Wanted[r][j], rn, cs[j])
    <3>1. IsSettled(j, Wanted[r][j], call[r][j]) /\ IsKnownOf(j, Wanted[r][j], run[r], call[r][j])
      BY <1>1 DEF RunIsRight
    <3>2. CASE j = k
      <4>1. IsSettled(j, Wanted[r][j], cs[j])
        BY <1>5, <1>9, <3>2 DEF IsSettled
      <4>2. rn.at \in Past(k) /\ rn.at \notin Ahead(k) /\ rn.at # k
        BY <1>2, <1>3, <1>6, <1>7, <1>8 DEF IsKnownOf, Ahead, Past, Kinds
      <4>3. rn.truncated \/ rn.got[k] = W \cap Listed
        BY <1>2, <1>3, <1>4, <1>6, <1>8 DEF IsKnownOf
      <4> QED BY <1>5, <1>9, <3>2, <4>1, <4>2, <4>3 DEF IsKnownOf, W
    <3>3. CASE j # k
      <4>1. (run[r].truncated => rn.truncated) /\ rn.got[j] = run[r].got[j]
            /\ (rn.at = run[r].at \/ (run[r].at = k /\ rn.at = After[k]))
        BY <1>8, <3>3
      <4>2. IsKnownOf(j, Wanted[r][j], rn, call[r][j])
        BY <3>1, <3>3, <4>1, TheOtherKindIsKnown
      <4> QED BY <1>9, <3>1, <3>3, <4>2
    <3> QED BY <3>2, <3>3
  <2>3. rn.at = "stored" => \A j \in Kinds : rn.got[j] = Wanted[r][j] \cap Listed
    <3>1. rn.at = "stored" => run[r].at = "stored" /\ ~waiting
      BY <1>7, <1>8 DEF Kinds
    <3> QED BY <1>1, <1>8, <3>1 DEF RunIsRight
  <2>4. WithinBudget(rn)
    BY <1>1, <1>8 DEF RunIsRight, WithinBudget
  <2> QED BY <1>8, <1>9, <2>1, <2>2, <2>3, <2>4 DEF RunIsRight
<1>11. CachesAreRight'
  <2>1. CASE k = "sizes"
    <3>1. \A a \in Kept(r, c) : /\ a \in [wanted : SUBSET Packages, sizes : SUBSET Packages]
                                /\ a.sizes = a.wanted \cap Listed
      <4>1. W = Wanted[r]["sizes"] /\ W \in SUBSET Packages
        BY <2>1, RegistryAssumption DEF W
      <4> QED BY <1>4, <4>1 DEF Kept
    <3> QED BY <1>1, <1>2, <2>1, <3>1 DEF CachesAreRight, CachedAnswersAreWhole
  <2>2. CASE k # "sizes"
    BY <1>1, <1>2, <2>2 DEF CachesAreRight, CachedAnswersAreWhole
  <2> QED BY <2>1, <2>2
<1> QED BY <1>2, <1>10, <1>11, OneRunMoves

LEMMA GiveUpIsRight ==
    ASSUME RegistryInv, NEW r \in Runs, NEW k \in Kinds, GiveUp(r, k)
    PROVE  RegistryInv'
<1> DEFINE rn == [run[r] EXCEPT !.at = After[k]]
<1>1. RunIsRight(Wanted[r], run[r], call[r]) /\ CachesAreRight
  BY InvIsByRun
<1>2. /\ run[r].at = k /\ call[r][k].dead /\ call[r][k].flying # {}
      /\ run' = [run EXCEPT ![r] = rn] /\ UNCHANGED <<explicit, known, answers, call>>
  BY DEF GiveUp
<1>3. After[k] \in Past(k) /\ After[k] \in {"between", "done"}
  BY AfterIsPast
<1>4. /\ rn \in RunRecord /\ rn.at = After[k] /\ rn.pending = run[r].pending
      /\ rn.truncated = run[r].truncated /\ rn.got = run[r].got
      /\ rn.spent = run[r].spent /\ rn.limit = run[r].limit /\ rn.budget = run[r].budget
  BY <1>1, <1>3 DEF RunIsRight, RunRecord
<1> HIDE DEF rn
<1>5. RunIsRight(Wanted[r], rn, call[r])
  <2>1. ASSUME NEW j \in Kinds PROVE IsKnownOf(j, Wanted[r][j], rn, call[r][j])
    <3>1. IsKnownOf(j, Wanted[r][j], run[r], call[r][j])
      BY <1>1 DEF RunIsRight
    <3>2. CASE j = k
      <4>1. call[r][k].state = "open"
        BY <1>2, <3>1, <3>2 DEF IsKnownOf
      <4>2. rn.at \notin Ahead(k) /\ rn.at # k
        BY <1>3, <1>4, AfterIsPast DEF Ahead, Kinds
      <4> QED BY <1>2, <3>2, <4>1, <4>2 DEF IsKnownOf
    <3>3. CASE j # k
      BY <1>2, <1>4, <3>1, <3>3, TheOtherKindIsKnown
    <3> QED BY <3>2, <3>3
  <2>2. WithinBudget(rn)
    BY <1>1, <1>4 DEF RunIsRight, WithinBudget
  <2>3. rn.at # "stored"
    BY <1>3, <1>4
  <2> QED BY <1>1, <1>4, <2>1, <2>2, <2>3 DEF RunIsRight
<1>6. CachesAreRight'
  BY <1>1, <1>2 DEF CachesAreRight, CachedAnswersAreWhole
<1>7. call' = [call EXCEPT ![r] = call[r]]
  <2>1. call \in [Runs -> [Kinds -> CallRecord]]
    BY InvIsByRun
  <2> QED BY <1>2, <2>1
<1> QED BY <1>2, <1>5, <1>6, <1>7, OneRunMoves

LEMMA StoreIsRight ==
    ASSUME RegistryInv, NEW r \in Runs, Store(r)
    PROVE  RegistryInv'
<1> DEFINE rn == [run[r] EXCEPT !.at = IF Complete(r) THEN "stored" ELSE "not stored"]
<1>1. RunIsRight(Wanted[r], run[r], call[r]) /\ CachesAreRight
  BY InvIsByRun
<1>2. /\ run[r].at = "done"
      /\ run' = [run EXCEPT ![r] = rn] /\ UNCHANGED <<explicit, known, answers, call>>
  BY DEF Store
<1>3. /\ rn \in RunRecord /\ rn.at \in {"stored", "not stored"} /\ rn.pending = run[r].pending
      /\ rn.at = "stored" => Complete(r)
      /\ rn.truncated = run[r].truncated /\ rn.got = run[r].got
      /\ rn.spent = run[r].spent /\ rn.limit = run[r].limit /\ rn.budget = run[r].budget
  BY <1>1 DEF RunIsRight, RunRecord
<1> HIDE DEF rn
<1>4. RunIsRight(Wanted[r], rn, call[r])
  <2>1. ASSUME NEW j \in Kinds
        PROVE  /\ IsKnownOf(j, Wanted[r][j], rn, call[r][j])
               /\ rn.at = "stored" => rn.got[j] = Wanted[r][j] \cap Listed
    <3>1. IsKnownOf(j, Wanted[r][j], run[r], call[r][j])
      BY <1>1 DEF RunIsRight
    <3>2. "done" \in Past(j) /\ "stored" \in Past(j) /\ "not stored" \in Past(j)
      BY DEF Past
    <3>3. rn.at \notin Ahead(j) /\ rn.at # j
      BY <1>3 DEF Ahead, Kinds
    <3>4. IsKnownOf(j, Wanted[r][j], rn, call[r][j])
      BY <1>2, <1>3, <3>1, <3>2, <3>3 DEF IsKnownOf
    <3>5. rn.at = "stored" => call[r][j].state # "open" /\ ~run[r].truncated
      <4>1. run[r].pending = IsOpen(call[r]["facts"]) + IsOpen(call[r]["sizes"])
        BY <1>1 DEF RunIsRight
      <4> QED BY <1>3, <4>1 DEF Complete, IsOpen, Kinds
    <3> QED BY <1>2, <1>3, <3>1, <3>2, <3>4, <3>5 DEF IsKnownOf
  <2>2. WithinBudget(rn)
    BY <1>1, <1>3 DEF RunIsRight, WithinBudget
  <2> QED BY <1>1, <1>3, <2>1, <2>2 DEF RunIsRight
<1>5. CachesAreRight'
  BY <1>1, <1>2 DEF CachesAreRight, CachedAnswersAreWhole
<1>6. call' = [call EXCEPT ![r] = call[r]]
  <2>1. call \in [Runs -> [Kinds -> CallRecord]]
    BY InvIsByRun
  <2> QED BY <1>2, <2>1
<1> QED BY <1>2, <1>4, <1>5, <1>6, OneRunMoves

LEMMA ForgetIsRight ==
    ASSUME RegistryInv, Forget
    PROVE  RegistryInv'
<1>1. CachesAreRight /\ UNCHANGED <<explicit, run, call>>
  BY InvIsByRun DEF Forget
<1>2. CachesAreRight'
  BY <1>1 DEF Forget, CachesAreRight, CachedAnswersAreWhole
<1> QED BY <1>1, <1>2
      DEF CachesAreRight, RegistryInv, RegistryTypeOK, BudgetIsShared, CallsAreAccounted,
          EngineKnowsItsCalls, CachedIsWhole, StoredIsWhole

-----------------------------------------------------------------------------
(* The invariant                                                           *)

LEMMA RegistryInit == Init => RegistryInv
<1> SUFFICES ASSUME Init PROVE RegistryInv
  OBVIOUS
<1>1. /\ NewCall \in CallRecord /\ NewCall.state = "none" /\ NewCall.flying = {}
  BY DEF NewCall, CallRecord
<1>2. /\ NewRun \in RunRecord /\ NewRun.at = "start" /\ NewRun.pending = 0
      /\ NewRun.spent = 0 /\ NewRun.limit = FetchBudget /\ NewRun.budget = FetchBudget
  BY RegistryAssumption DEF NewRun, RunRecord
<1>3. CachesAreRight
  BY DEF Init, CachesAreRight, CachedAnswersAreWhole
<1>4. ASSUME NEW r \in Runs PROVE RunIsRight(Wanted[r], run[r], call[r])
  <2>1. run[r] = NewRun /\ call[r] = [k \in Kinds |-> NewCall]
    BY DEF Init
  <2>2. WithinBudget(run[r])
    BY <1>2, <2>1, RegistryAssumption DEF WithinBudget, Higher
  <2>3. run[r].pending = IsOpen(call[r]["facts"]) + IsOpen(call[r]["sizes"])
    BY <1>1, <1>2, <2>1 DEF IsOpen, Kinds
  <2>4. \A k \in Kinds : run[r].at \in Ahead(k) /\ run[r].at # k /\ run[r].at \notin Past(k)
    BY <1>2, <2>1 DEF Ahead, Past, Kinds
  <2> QED BY <1>1, <1>2, <2>1, <2>2, <2>3, <2>4 DEF RunIsRight, IsSettled, IsKnownOf
<1>5. run \in [Runs -> RunRecord] /\ call \in [Runs -> [Kinds -> CallRecord]]
  BY <1>1, <1>2 DEF Init
<1> QED BY <1>3, <1>4, <1>5, InvIsByRun

LEMMA RegistryStep == RegistryInv /\ [Next]_vars => RegistryInv'
<1> SUFFICES ASSUME RegistryInv, [Next]_vars PROVE RegistryInv'
  OBVIOUS
<1>1. CASE UNCHANGED vars
  BY <1>1 DEF vars, RegistryInv, RegistryTypeOK, BudgetIsShared, CallsAreAccounted,
              EngineKnowsItsCalls, CachedIsWhole, StoredIsWhole, CachedAnswersAreWhole
<1>2. ASSUME NEW r \in Runs, AskFacts(r) PROVE RegistryInv'
  BY <1>2, AskFactsIsRight
<1>3. ASSUME NEW r \in Runs, AskSizes(r) PROVE RegistryInv'
  BY <1>3, AskSizesIsRight
<1>4. ASSUME NEW r \in Runs, AskCached(r) PROVE RegistryInv'
  BY <1>4, AskCachedIsRight
<1>5. ASSUME NEW r \in Runs, Store(r) PROVE RegistryInv'
  BY <1>5, StoreIsRight
<1>6. ASSUME NEW r \in Runs, NEW k \in Kinds, Deadline(r, k) PROVE RegistryInv'
  BY <1>6, DeadlineIsRight
<1>7. ASSUME NEW r \in Runs, NEW k \in Kinds, Return(r, k) PROVE RegistryInv'
  BY <1>7, ReturnIsRight
<1>8. ASSUME NEW r \in Runs, NEW k \in Kinds, GiveUp(r, k) PROVE RegistryInv'
  BY <1>8, GiveUpIsRight
<1>9. ASSUME NEW r \in Runs, NEW k \in Kinds, NEW p \in Packages, Aborted(r, k, p)
      PROVE  RegistryInv'
  BY <1>9, AbortedIsRight
<1>10. ASSUME NEW r \in Runs, NEW k \in Kinds, NEW p \in Packages, Responds(r, k, p)
       PROVE  RegistryInv'
  BY <1>10, RespondsIsRight
<1>11. CASE Forget
  BY <1>11, ForgetIsRight
<1> QED
  BY <1>1, <1>2, <1>3, <1>4, <1>5, <1>6, <1>7, <1>8, <1>9, <1>10, <1>11 DEF Next, RunStep

\* RegistryInv holds in every state: the records keep their types, the requests
\* their account and the engine its count of open calls.
THEOREM RegistryInvariance == Spec => []RegistryInv
BY RegistryInit, RegistryStep, PTL DEF Spec

\* What is cached is whole: neither lanes, cached parts, deadlines, failures nor
\* an engine that gave up put a cut answer or result into a cache
\* (npm-metadata.ts, result-cache.ts).
THEOREM CachesHoldTheWhole == Spec => []CachedIsWhole
<1>1. RegistryInv => CachedIsWhole
  BY DEF RegistryInv
<1> QED BY <1>1, RegistryInvariance, PTL

\* However many calls of a run follow or overlap each other, and whatever they
\* ask for, they spend one budget (expandBudget and take in npm-metadata.ts).
THEOREM RunsShareTheirBudget == Spec => []BudgetIsShared
<1>1. RegistryInv => BudgetIsShared
  BY DEF RegistryInv
<1> QED BY <1>1, RegistryInvariance, PTL
=============================================================================
