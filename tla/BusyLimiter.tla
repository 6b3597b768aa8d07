---------------------------- MODULE BusyLimiter ----------------------------
(***************************************************************************)
(* The limit on "GhostDeps was busy" check runs: BusyLimiter in            *)
(* packages/github-app/src/checks/busy-limiter.ts, which every handler     *)
(* asks before it writes such a run.                                       *)
(*                                                                         *)
(* The clock is the wall clock: it may stand still, jump and go back.  The *)
(* Map of the code is in the order of insertion, so an element here        *)
(* carries the number of its permission.                                   *)
(***************************************************************************)
EXTENDS Integers, FiniteSets

CONSTANTS
    RepositoryIds,
    Times,             \* the values the clock shows
    Window,            \* one run per repository and window    (code: 60 s)
    MaxRepositories,   \* repositories remembered              (code: 1000)
    MaxPermissions     \* bound of the model

ASSUME LimiterAssumption ==
    /\ Times \subseteq Nat
    /\ Window \in Nat
    /\ MaxRepositories \in Nat \ {0}
    /\ MaxPermissions \in Nat

VARIABLES
    last,      \* #last: the remembered permissions, [repo, at, number]
    granted    \* every permission given

limiterVars == <<last, granted>>

LimiterInit == last = {} /\ granted = {}

Permission(r, now) == [repo |-> r, at |-> now, number |-> Cardinality(granted) + 1]

\* A permission of the repository less than a window ago, or in the future.
IsLimited(r, now) == \E p \in last : p.repo = r /\ now - p.at < Window

\* Slip: a full map loses the permission given last before the new one.
SlipOutgrown(S) ==
    IF Cardinality(S) > MaxRepositories
    THEN {p \in S : Cardinality({q \in S : q.number > p.number}) = 1} ELSE {}

\* One more than is remembered: the oldest goes.
Outgrown(S) ==
    IF Cardinality(S) > MaxRepositories
    THEN {p \in S : \A q \in S : p.number <= q.number} ELSE {}

\* allow(repositoryId) answers false and changes nothing.
Deny(r, now) ==
    /\ IsLimited(r, now)
    /\ UNCHANGED limiterVars

\* allow(repositoryId) answers true.
Allow(r, now) ==
    LET p == Permission(r, now)
        S == {q \in last : q.repo # r} \cup {p}
    IN  /\ ~IsLimited(r, now)
        /\ Cardinality(granted) < MaxPermissions
        /\ last' = S \ Outgrown(S)
        /\ granted' = granted \cup {p}

LimiterNext == \E r \in RepositoryIds, now \in Times : Deny(r, now) \/ Allow(r, now)

LimiterSpec == LimiterInit /\ [][LimiterNext]_limiterVars

-----------------------------------------------------------------------------
(* Properties                                                              *)

\* The map holds permissions that were given, stays within its size, and
\* remembers a repository once.
LimiterTypeOK ==
    /\ granted \subseteq [repo : RepositoryIds, at : Times, number : 1..MaxPermissions]
    /\ last \subseteq granted
    /\ Cardinality(last) <= MaxRepositories
    /\ \A p, q \in last : p.repo = q.repo => p = q

\* The repositories permitted between two permissions.
Between(p, q) == {g.repo : g \in {h \in granted : p.number < h.number /\ h.number < q.number}}

\* One busy run per repository and window by the clock's own reading, also
\* when the clock goes back: of two permissions of a repository in a row the
\* second comes a window later, unless as many other repositories as the map
\* holds were permitted in between.
OnePerWindow ==
    \A p, q \in granted :
        /\ p.repo = q.repo /\ p.number < q.number
        /\ p.repo \notin Between(p, q)
        /\ Cardinality(Between(p, q)) < MaxRepositories
        => q.at - p.at >= Window

-----------------------------------------------------------------------------
(* The inductive invariant.                                                *)

\* The repositories permitted after a permission.
After(p) == {g.repo : g \in {h \in granted : p.number < h.number}}

\* The last permission of its repository.
IsNewest(p) == \A q \in granted : q.repo = p.repo => q.number <= p.number

\* Permissions are numbered in the order they are given.
NumbersCount ==
    /\ IsFiniteSet(granted)
    /\ \A p \in granted : p.number <= Cardinality(granted)
    /\ \A p, q \in granted : p.number = q.number => p = q

\* What the map remembers of a repository is its last permission.
RememberedIsNewest == \A p \in last : IsNewest(p)

\* If the map has lost it, as many other repositories as it holds came after.
ForgottenIsFar ==
    \A p \in granted \ last : IsNewest(p) => MaxRepositories <= Cardinality(After(p))

LimiterInv ==
    /\ LimiterTypeOK
    /\ NumbersCount
    /\ RememberedIsNewest
    /\ ForgottenIsFar
    /\ OnePerWindow
=============================================================================
