--------------------------- MODULE MCPullRequests ---------------------------
(* The traffic of one repository's pull requests and installations: the     *)
(* events and their queue, the handler of an installation, the rate limits  *)
(* of a client, the maintained comment.  A behaviour moves one of them and  *)
(* leaves the others at their start.                                        *)
EXTENDS PullRequestEvents, InstallationLanes, RateLimits, CommentSync, TLC

CONSTANTS a, b, c, x, r1, r2, r3, r4, s1, s2, e1, e2

VARIABLE machine    \* the one that moves

-----------------------------------------------------------------------------
(* The events                                                               *)

\* Pull request 1 moves forward; or, beside 2 with one head, it goes to b and
\* back to a.
Forward == 1 :> <<a, b, c>>
Back == 1 :> <<a, b, a>> @@ 2 :> <<x>>
OneRequest == {1}
TwoRequests == {1, 2}

\* b changes nothing of interest.
MCRelevant == {a, c, x}

(* An installation of three repositories; another delivery for the head of  *)
(* r1, and one for a fourth repository.                                     *)

FullScan(r) ==
    [delivery |-> [number |-> 0, at |-> 1], repo |-> r, kind |-> "full_scan",
     number |-> 0, head |-> r, before |-> NoSha]
PushTo(r) == [FullScan(r) EXCEPT !.delivery.at = 2, !.kind = "push"]

MCCandidates == <<r1, r2, r3>>
MCJobFor == [r \in {r1, r2, r3} |-> FullScan(r)]
InstallationJobs == {FullScan(r) : r \in {r1, r2, r3}} \cup {PushTo(r1), PushTo(r4)}

MCJobs == {JobOf(ev) : ev \in Events} \cup InstallationJobs

\* A pull request that moves from a to b; both people who edit may.
MCHeadOfScan == s1 :> a @@ s2 :> b

ASSUME PullRequestsAssumption == LanesAssumption /\ RateAssumption /\ CommentAssumption

-----------------------------------------------------------------------------
machineVars == <<machine, allVars, laneVars, rateVars, commentVars>>

PullRequestsInit ==
    /\ machine \in {"events", "installation", "client", "comment"}
    /\ EventsInit
    /\ LanesInit
    /\ RateInit
    /\ CommentInit

\* To an installation, deliveries add its own jobs, up to four.
PullRequestsNext ==
    /\ UNCHANGED machine
    /\ \/ /\ machine = "events"
          /\ EventsNext
          /\ UNCHANGED <<laneVars, rateVars, commentVars>>
       \/ /\ machine = "installation"
          /\ LanesNext
          /\ arrivals' <= 4 /\ {e.job : e \in pending' \cup running'} \subseteq InstallationJobs
          /\ UNCHANGED <<eventVars, rateVars, commentVars>>
       \/ /\ machine = "client"
          /\ RateNext
          /\ UNCHANGED <<allVars, laneVars, commentVars>>
       \/ /\ machine = "comment"
          /\ CommentNext
          /\ UNCHANGED <<allVars, laneVars, rateVars>>

\* What the specification of each assumes of its surroundings.
PullRequestsSpec ==
    /\ PullRequestsInit
    /\ [][PullRequestsNext]_machineVars
    /\ \A ev \in Events : WF_allVars(machine = "events" /\ HandlerOf(ev))
    /\ \A t \in 1..MaxArrivals : WF_allVars(machine = "events" /\ FinishOf(t))
    /\ WF_expired(machine = "installation" /\ Expire)
    /\ \A l \in Lanes : WF_lane(machine = "installation" /\ Unattended(l))
    /\ \A p \in Writers : WF_stage(machine = "comment" /\ WriterStep(p))

-----------------------------------------------------------------------------
\* The handler of an installation ends although GitHub answers no lookup
\* (app.ts:364).
HandlerLeaves == machine = "installation" => HandlerEnds
=============================================================================
