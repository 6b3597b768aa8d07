----------------------------- MODULE RateLimits -----------------------------
(***************************************************************************)
(* Rate limits of GitHub: how often and how long the worker's client       *)
(* retries (boundedThrottle in github/rate-limit.ts), and the warning for  *)
(* a low budget (watchRateLimit in github/rate-limit-log.ts), one client   *)
(* with one request after the other.  The throttling plugin calls the      *)
(* handler with the wait GitHub asks for and its own count of retries.     *)
(***************************************************************************)
EXTENDS Integers, FiniteSets

CONSTANTS
    Resources,      \* the resources GitHub counts; "core" is one
    Limit,          \* the limit of each
    Remainders,     \* what a response may say is left
    RetryAfters,    \* the waits GitHub may ask for, in seconds
    MaxWait,        \* longest wait accepted             (code: 60)
    MaxRetries,     \* retries per request               (code: 2)
    MaxResponses    \* bound of the model

RateAssumption ==
    /\ "core" \in Resources
    /\ Limit \in Nat \ {0}
    /\ RetryAfters \subseteq Nat
    /\ MaxWait \in Nat /\ MaxRetries \in Nat

VARIABLES
    request,     \* the request under way: its retries and the seconds waited
    warned,      \* the resources a warning was given for
    warnings,    \* per resource, the warnings given
    dips,        \* per resource, how often its budget went from enough to low
    low,         \* the resources whose last reading was low
    responses    \* how many responses came

rateVars == <<request, warned, warnings, dips, low, responses>>

RateInit ==
    /\ request = [retries |-> 0, waited |-> 0]
    /\ warned = {}
    /\ warnings = [r \in Resources |-> 0]
    /\ dips = [r \in Resources |-> 0]
    /\ low = {}
    /\ responses = 0

\* The headers of a response: a limit that is no positive number, or no
\* remainder (-1 here), is no reading; without a resource it is of "core".
NoHeader == "none"
IsReading(h) == h.limit > 0 /\ h.remaining >= 0
ResourceOf(h) == IF h.resource = NoHeader THEN "core" ELSE h.resource

\* RATE_LIMIT_WARN_RATIO is a tenth.
IsLow(h) == h.remaining * 10 < h.limit

\* Slip: one reading that is not low forgets every warning.
SlipWatch(h) ==
    IF ~IsReading(h) THEN UNCHANGED <<warned, warnings, dips, low>>
    ELSE LET r == ResourceOf(h)
         IN  /\ warned' = IF IsLow(h) THEN warned \cup {r} ELSE {}
             /\ warnings' = [warnings EXCEPT ![r] = IF IsLow(h) /\ r \notin warned THEN @ + 1 ELSE @]
             /\ low' = IF IsLow(h) THEN low \cup {r} ELSE low \ {r}
             /\ dips' = [dips EXCEPT ![r] = IF IsLow(h) /\ r \notin low THEN @ + 1 ELSE @]

\* The hook after each response.
Watch(h) ==
    IF ~IsReading(h) THEN UNCHANGED <<warned, warnings, dips, low>>
    ELSE LET r == ResourceOf(h)
         IN  /\ warned' = IF IsLow(h) THEN warned \cup {r} ELSE warned \ {r}
             /\ warnings' = [warnings EXCEPT ![r] = IF IsLow(h) /\ r \notin warned THEN @ + 1 ELSE @]
             /\ low' = IF IsLow(h) THEN low \cup {r} ELSE low \ {r}
             /\ dips' = [dips EXCEPT ![r] = IF IsLow(h) /\ r \notin low THEN @ + 1 ELSE @]

ShouldRetry(retryAfter, retryCount) == retryAfter <= MaxWait /\ retryCount < MaxRetries

Headers == [limit : {0, Limit}, remaining : Remainders \cup {-1}, resource : Resources \cup {NoHeader}]

\* A response with data, or an error that is no rate limit: the hook runs
\* after a success, and the next request begins.
Respond ==
    /\ \E h \in Headers : Watch(h)
    /\ request' = [retries |-> 0, waited |-> 0]

\* A response that says the rate is exceeded.
Exceed ==
    /\ \E retryAfter \in RetryAfters :
          request' = IF ShouldRetry(retryAfter, request.retries)
                     THEN [retries |-> request.retries + 1, waited |-> request.waited + retryAfter]
                     ELSE [retries |-> 0, waited |-> 0]
    /\ UNCHANGED <<warned, warnings, dips, low>>

RateNext ==
    /\ responses < MaxResponses
    /\ responses' = responses + 1
    /\ Respond \/ Exceed

RateSpec == RateInit /\ [][RateNext]_rateVars

-----------------------------------------------------------------------------
(* Properties                                                              *)

\* Of each resource one warning per time its budget gets low, and one client
\* never waits longer than its retries allow (rate-limit-log.ts:52-75,
\* rate-limit.ts:37-39).
WarnedOncePerDip ==
    /\ \A r \in Resources : warnings[r] = dips[r]
    /\ request.waited <= MaxRetries * MaxWait

\* The inductive invariant: what was warned of is what is low.
RateInv ==
    /\ warned = low /\ warnings = dips /\ warnings \in [Resources -> Nat]
    /\ request \in [retries : Nat, waited : Nat]
    /\ request.retries <= MaxRetries /\ request.waited <= request.retries * MaxWait
=============================================================================
