--------------------------- MODULE MCProcessMemory ---------------------------
(* What the app keeps as long as its process lives, each with its bound: the  *)
(* job queue, the cache of results and the memory of the busy limiter, and as *)
(* long as a child answers the frame of its answer.  They share nothing, so a *)
(* behaviour moves one of them and leaves the others at their start.          *)
EXTENDS JobQueue, BusyLimiter, ResultCache, FrameCollector, TLC

CONSTANTS r1, r2, r3, a, b, c, none, k1, k2, k3, small, large, huge

VARIABLE machine   \* the one that moves

-----------------------------------------------------------------------------
PullRequestJob(d, n, head, before) ==
    [delivery |-> d, repo |-> r1, head |-> head, kind |-> "pull_request",
     number |-> n, before |-> before]
OtherJob(d, kind, head) ==
    [delivery |-> d, repo |-> r1, head |-> head, kind |-> kind,
     number |-> 0, before |-> none]

\* Pull request 1 is opened at a, moves to b, is forced back to a; pull
\* request 2 has the same head b; a push and two clicks on Re-run.
MCJobs ==
    {PullRequestJob("d1", 1, a, none),
     PullRequestJob("d2", 1, b, a),
     PullRequestJob("d3", 1, a, b),
     PullRequestJob("d4", 2, b, none),
     OtherJob("d5", "push", c),
     OtherJob("d6", "rerequested", a)}

\* Values that fill a part of the budget, and one that exceeds it.
MCSize == small :> 1 @@ large :> 2 @@ huge :> 4

-----------------------------------------------------------------------------
ProcessInit ==
    /\ machine \in {"queue", "cache", "limiter", "frame"}
    /\ Init
    /\ CacheInit
    /\ LimiterInit
    /\ CollectorInit

ProcessNext ==
    /\ UNCHANGED machine
    /\ \/ machine = "queue" /\ Next /\ UNCHANGED <<cacheVars, limiterVars, collectorVars>>
       \/ machine = "cache" /\ CacheNext /\ UNCHANGED <<vars, limiterVars, collectorVars>>
       \/ machine = "limiter" /\ LimiterNext /\ UNCHANGED <<vars, cacheVars, collectorVars>>
       \/ machine = "frame" /\ CollectorNext /\ UNCHANGED <<vars, cacheVars, limiterVars>>

ProcessSpec == ProcessInit /\ [][ProcessNext]_<<machine, vars, cacheVars, limiterVars, collectorVars>>

=============================================================================
