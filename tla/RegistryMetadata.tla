-------------------------- MODULE RegistryMetadata --------------------------
(***************************************************************************)
(* Sizes and health facts of packages from the npm registry:               *)
(* NpmMetadataService in packages/github-app/src/worker/npm-metadata.ts,   *)
(* as the engine asks it (core/src/engine/health.ts, then footprint.ts)    *)
(* and the worker consults it before a result is cached.                   *)
(*                                                                         *)
(* Analyses run side by side and share the caches; the calls of one        *)
(* analysis share a budget of requests.  Packages are numbered in the order *)
(* of the request.  A cache loses entries by age and size at any time      *)
(* (class Lru is module TtlLru).                                           *)
(***************************************************************************)
EXTENDS Integers, FiniteSets

CONSTANTS
    Packages,      \* exact versions from public origins
    Listed,        \* those the registry has an answer for
    Runs,          \* analyses
    Wanted,        \* what the calls of each run ask for, by kind of call
    FetchBudget,   \* requests of a run at first        (code: 300)
    MaxBudget,     \* what the default budget grows to  (code: 1000)
    Lanes          \* parallel size requests            (code: 8, or 16)

Kinds == {"facts", "sizes"}

ASSUME RegistryAssumption ==
    /\ Packages \subseteq Nat /\ IsFiniteSet(Packages) /\ Listed \subseteq Packages
    /\ Wanted \in [Runs -> [Kinds -> SUBSET Packages]]
    /\ FetchBudget \in Nat /\ MaxBudget \in Nat /\ Lanes \in Nat \ {0}

VARIABLES
    explicit,   \* the budget was configured, so it does not grow
    known,      \* per kind, the packages whose answer is cached, a miss included
    answers,    \* the cached whole answers: [wanted, sizes]
    run,        \* per analysis: where it is, its budget, what the engine got
    call        \* per analysis and kind: the provider's side of the call

vars == <<explicit, known, answers, run, call>>

Nothing == {0}

NewRun ==
    [at |-> "start", spent |-> 0, limit |-> FetchBudget, budget |-> FetchBudget,
     pending |-> 0, truncated |-> FALSE, got |-> [k \in Kinds |-> Nothing]]

\* left: not taken yet; flying: requests in flight; dead: past the deadline.
NewCall ==
    [state |-> "none", left |-> {}, flying |-> {}, found |-> {},
     complete |-> TRUE, dead |-> FALSE]

Init ==
    /\ explicit \in BOOLEAN
    /\ known = [k \in Kinds |-> {}]
    /\ answers = {}
    /\ run = [r \in Runs |-> NewRun]
    /\ call = [r \in Runs |-> [k \in Kinds |-> NewCall]]

Least(S) == CHOOSE p \in S : \A q \in S : p <= q
First(S, n) == {p \in S : Cardinality({q \in S : q < p}) < n}
Lower(m, n) == IF m < n THEN m ELSE n
Higher(m, n) == IF m > n THEN m ELSE n

-----------------------------------------------------------------------------
(* The budget of a run. *)

\* Slip: the budget starts anew with every call.
SlipExpand(rn, n) ==
    IF explicit THEN rn
    ELSE LET limit == Higher(rn.limit, Lower(MaxBudget, rn.spent + n))
         IN  [rn EXCEPT !.limit = limit, !.budget = limit]

\* expandBudget, before a call that asks for n packages.
Expand(rn, n) ==
    IF explicit THEN rn
    ELSE LET limit == Higher(rn.limit, Lower(MaxBudget, rn.spent + n))
         IN  [rn EXCEPT !.limit = limit, !.budget = limit - rn.spent]

\* take, n times with success.
Spend(rn, n) == [rn EXCEPT !.budget = @ - n, !.spent = @ + n]

-----------------------------------------------------------------------------
(* Lanes.  A step of a lane is [call, taken]: the call after it, and the    *)
(* requests it took from the budget.                                        *)

\* All lanes of #resolve start at once, each with one package.
SizesStart(c, budget) ==
    LET n     == Lower(Lanes, Cardinality(c.left))
        taken == Lower(n, budget)
    IN  [call  |-> [c EXCEPT !.left = @ \ First(c.left, n), !.flying = First(c.left, taken),
                             !.complete = taken = n],
         taken |-> taken]

\* A lane goes on to the next package, or ends.
SizesGoOn(c, budget) ==
    IF c.left = {} THEN [call |-> c, taken |-> 0]
    ELSE IF c.dead THEN [call |-> [c EXCEPT !.complete = FALSE], taken |-> 0]
    ELSE LET rest == [c EXCEPT !.left = @ \ {Least(c.left)}]
         IN  IF budget = 0 THEN [call |-> [rest EXCEPT !.complete = FALSE], taken |-> 0]
             ELSE [call |-> [rest EXCEPT !.flying = @ \cup {Least(c.left)}], taken |-> 1]

\* packageFacts is one lane that looks into the cache as it goes.
FactsGoOn(c, budget) ==
    LET fresh  == c.left \ known.facts
        i      == Least(fresh)
        passed == {p \in c.left : fresh = {} \/ p < i}
        ahead  == [c EXCEPT !.found = @ \cup (passed \cap Listed), !.left = {}]
    IN  CASE c.left = {}  -> [call |-> c, taken |-> 0]
          [] c.left # {} /\ c.dead -> [call |-> [c EXCEPT !.left = {}, !.complete = FALSE],
                                       taken |-> 0]
          [] c.left # {} /\ ~c.dead /\ fresh = {} -> [call |-> ahead, taken |-> 0]
          [] c.left # {} /\ ~c.dead /\ fresh # {} /\ budget = 0 ->
               [call |-> [ahead EXCEPT !.complete = FALSE], taken |-> 0]
          [] OTHER -> [call  |-> [ahead EXCEPT !.flying = {i}, !.left = {p \in c.left : p > i}],
                       taken |-> 1]

GoOn(k, c, budget) == IF k = "facts" THEN FactsGoOn(c, budget) ELSE SizesGoOn(c, budget)

\* The run and the call after a lane's step.
Step(r, k, rn, s) ==
    /\ run'  = [run EXCEPT ![r] = Spend(rn, s.taken)]
    /\ call' = [call EXCEPT ![r][k] = s.call]

-----------------------------------------------------------------------------
(* The engine asks for the health facts, then for the sizes.                *)

Before == [facts |-> "start", sizes |-> "between"]
After  == [facts |-> "between", sizes |-> "done"]

CacheHas(W) == \E a \in answers : a.wanted = W

Opened(r, k) == [run[r] EXCEPT !.at = k, !.pending = @ + 1]

AskFacts(r) ==
    LET W  == Wanted[r]["facts"]
        rn == Expand(Opened(r, "facts"), Cardinality(W))
    IN  /\ run[r].at = Before.facts
        /\ Step(r, "facts", rn,
                FactsGoOn([NewCall EXCEPT !.state = "open", !.left = W], rn.budget))
        /\ UNCHANGED <<explicit, known, answers>>

AskSizes(r) ==
    LET W  == Wanted[r]["sizes"]
        rn == Expand(Opened(r, "sizes"), Cardinality(W))
        c  == [NewCall EXCEPT !.state = "open", !.left = W \ known.sizes,
                              !.found = W \cap known.sizes \cap Listed]
    IN  /\ run[r].at = Before.sizes /\ ~CacheHas(W)
        /\ Step(r, "sizes", rn, SizesStart(c, rn.budget))
        /\ UNCHANGED <<explicit, known, answers>>

\* The whole answer is cached.
AskCached(r) ==
    /\ run[r].at = Before.sizes
    /\ \E a \in answers :
          /\ a.wanted = Wanted[r]["sizes"]
          /\ run' = [run EXCEPT ![r].at = After.sizes, ![r].got["sizes"] = a.sizes]
    /\ UNCHANGED <<explicit, known, answers, call>>

\* A response arrives in time: an answer or a known miss, or a failure.
Responds(r, k, p) ==
    LET c == [call[r][k] EXCEPT !.flying = @ \ {p}]
    IN  /\ p \in call[r][k].flying /\ ~c.dead
        /\ \/ /\ known' = [known EXCEPT ![k] = @ \cup {p}]
              /\ Step(r, k, run[r],
                      GoOn(k, [c EXCEPT !.found = @ \cup ({p} \cap Listed)], run[r].budget))
           \/ /\ Step(r, k, run[r], GoOn(k, [c EXCEPT !.complete = FALSE], run[r].budget))
              /\ UNCHANGED known
        /\ UNCHANGED <<explicit, answers>>

\* A request that the deadline aborted fails.
Aborted(r, k, p) ==
    LET c == [call[r][k] EXCEPT !.flying = @ \ {p}, !.complete = FALSE]
    IN  /\ p \in call[r][k].flying /\ call[r][k].dead
        /\ Step(r, k, run[r], GoOn(k, c, run[r].budget))
        /\ UNCHANGED <<explicit, known, answers>>

\* Slip: the deadline does not reach the requests in flight.
SlipDeadline(r, k) == call[r][k].state = "open" /\ UNCHANGED vars

Deadline(r, k) ==
    /\ call[r][k].state = "open" /\ ~call[r][k].dead
    /\ call' = [call EXCEPT ![r][k].dead = TRUE]
    /\ UNCHANGED <<explicit, known, answers, run>>

\* Slip: an answer that was cut short is kept like any other.
SlipKept(r, c) == {[wanted |-> Wanted[r]["sizes"], sizes |-> c.found]}

\* What the cache of whole answers keeps of a call.
Kept(r, c) == {a \in {[wanted |-> Wanted[r]["sizes"], sizes |-> c.found]} : c.complete}

\* Every lane has ended: the call returns, to an engine that may have given up.
Return(r, k) ==
    LET c == call[r][k]
        waiting == run[r].at = k
        after == [run[r] EXCEPT !.pending = @ - 1, !.truncated = @ \/ ~c.complete,
                                !.at = IF waiting THEN After[k] ELSE @,
                                !.got[k] = IF waiting THEN c.found ELSE @]
    IN  /\ c.state = "open" /\ c.flying = {}
        /\ call' = [call EXCEPT ![r][k] = [NewCall EXCEPT !.state = "returned"]]
        /\ run' = [run EXCEPT ![r] = after]
        /\ answers' = IF k = "sizes" THEN answers \cup Kept(r, c) ELSE answers
        /\ UNCHANGED <<explicit, known>>

\* The engine's own deadline is two seconds later than the provider's: it
\* passes only while an aborted request has still not ended.
GiveUp(r, k) ==
    /\ run[r].at = k /\ call[r][k].dead /\ call[r][k].flying # {}
    /\ run' = [run EXCEPT ![r].at = After[k]]
    /\ UNCHANGED <<explicit, known, answers, call>>

\* Slip: the worker looks at the truncation only.
SlipComplete(r) == ~run[r].truncated

\* The provider's "complete".
Complete(r) == run[r].pending = 0 /\ ~run[r].truncated

\* The worker caches the result of the analysis, or not.
Store(r) ==
    /\ run[r].at = "done"
    /\ run' = [run EXCEPT ![r].at = IF Complete(r) THEN "stored" ELSE "not stored"]
    /\ UNCHANGED <<explicit, known, answers, call>>

\* Age or size takes an entry out of a cache.
Forget ==
    /\ \/ \E k \in Kinds, p \in Packages :
            known' = [known EXCEPT ![k] = @ \ {p}] /\ UNCHANGED answers
       \/ \E a \in answers : answers' = answers \ {a} /\ UNCHANGED known
    /\ UNCHANGED <<explicit, run, call>>

RunStep(r) ==
    \/ AskFacts(r) \/ AskSizes(r) \/ AskCached(r) \/ Store(r)
    \/ \E k \in Kinds :
          \/ Deadline(r, k) \/ Return(r, k)
          \/ \E p \in Packages : Aborted(r, k, p)

Next ==
    \/ \E r \in Runs :
          \/ RunStep(r)
          \/ \E k \in Kinds : GiveUp(r, k) \/ \E p \in Packages : Responds(r, k, p)
    \/ Forget

Spec == Init /\ [][Next]_vars

\* The registry owes no response; timers fire, and aborted requests end.
FairSpec == Spec /\ \A r \in Runs : WF_vars(RunStep(r))

-----------------------------------------------------------------------------
(* Properties                                                              *)

\* A result goes into the same-commit cache only if the engine held every
\* answer the registry has for what was asked: no budget, deadline, failed
\* request or answer that came after the engine had given up is behind it.
StoredIsWhole ==
    \A r \in Runs : run[r].at = "stored" =>
        \A k \in Kinds : run[r].got[k] = Wanted[r][k] \cap Listed

\* A whole answer that is cached for a set of packages was not cut short in
\* any of its parts, though it is put together by lanes and from cached parts.
CachedAnswersAreWhole ==
    \A a \in answers : a.sizes = a.wanted \cap Listed

\* What is cached is whole: an answer for a set of packages, though lanes and
\* cached parts put it together, and a result, stored only if the engine got all
\* the registry has for what it asked (npm-metadata.ts, result-cache.ts).
CachedIsWhole == StoredIsWhole /\ CachedAnswersAreWhole

\* The calls of a run share one budget: together they never send more requests
\* than the configured number, or than the default has grown to, however calls
\* that ask for different numbers follow or overlap each other.
BudgetIsShared ==
    \A r \in Runs :
        /\ run[r].spent <= run[r].limit
        /\ run[r].spent + run[r].budget = run[r].limit
        /\ run[r].limit <= (IF explicit THEN FetchBudget ELSE Higher(FetchBudget, MaxBudget))

-----------------------------------------------------------------------------
(* What the properties above rest on                                       *)

RunRecord ==
    [at : {"start", "facts", "between", "sizes", "done", "stored", "not stored"},
     spent : Nat, limit : Nat, budget : Nat, pending : Int, truncated : BOOLEAN,
     got : [Kinds -> (SUBSET Packages) \cup {Nothing}]]
CallRecord ==
    [state : {"none", "open", "returned"}, left : SUBSET Packages, flying : SUBSET Packages,
     found : SUBSET Packages, complete : BOOLEAN, dead : BOOLEAN]

RegistryTypeOK ==
    /\ explicit \in BOOLEAN
    /\ known \in [Kinds -> SUBSET Packages]
    /\ answers \subseteq [wanted : SUBSET Packages, sizes : SUBSET Packages]
    /\ run \in [Runs -> RunRecord]
    /\ call \in [Runs -> [Kinds -> CallRecord]]

\* An open call has found, not begun or under way everything it was asked for
\* that the registry lists, or it is incomplete; and once no request is under
\* way it has begun everything, or it is incomplete.
CallIsAccounted(k, W, c) ==
    /\ c.found \subseteq W \cap Listed /\ c.left \subseteq W /\ c.flying \subseteq W
    /\ c.complete => W \cap Listed \subseteq c.found \cup c.left \cup c.flying
    /\ c.complete /\ c.flying = {} => c.left = {}
    /\ k = "facts" => \A p, q \in c.flying : p = q
IsSettled(k, W, c) == IF c.state = "open" THEN CallIsAccounted(k, W, c) ELSE c.flying = {}
CallsAreAccounted == \A r \in Runs, k \in Kinds : IsSettled(k, Wanted[r][k], call[r][k])

Ahead(k) == IF k = "facts" THEN {"start"} ELSE {"start", "facts", "between"}
Past(k)  == IF k = "facts" THEN {"between", "sizes", "done", "stored", "not stored"}
                           ELSE {"done", "stored", "not stored"}
IsOpen(c) == IF c.state = "open" THEN 1 ELSE 0

\* The engine waits for an open call or has none open that it did not give up;
\* one it gave up will turn out incomplete.
IsKnownOf(k, W, rn, c) ==
    /\ rn.at \in Ahead(k) => c.state = "none"
    /\ rn.at = k => c.state = "open"
    /\ rn.at \in Past(k) => IF c.state = "open" THEN c.dead /\ (c.complete => c.flying # {})
                                                ELSE rn.truncated \/ rn.got[k] = W \cap Listed
EngineKnowsItsCalls ==
    \A r \in Runs :
        /\ run[r].pending = IsOpen(call[r]["facts"]) + IsOpen(call[r]["sizes"])
        /\ \A k \in Kinds : IsKnownOf(k, Wanted[r][k], run[r], call[r][k])

\* The inductive invariant.
RegistryInv ==
    /\ RegistryTypeOK
    /\ BudgetIsShared
    /\ CallsAreAccounted
    /\ EngineKnowsItsCalls
    /\ CachedIsWhole

-----------------------------------------------------------------------------
(* Liveness                                                                *)

\* Advisory metadata never holds an analysis back: every run comes to its end
\* although the registry may not answer.
RunsEnd == <>(\A r \in Runs : run[r].at \in {"stored", "not stored"})
=============================================================================
