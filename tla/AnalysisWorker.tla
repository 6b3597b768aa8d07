--------------------------- MODULE AnalysisWorker ---------------------------
(***************************************************************************)
(* The analysis worker of the GitHub App and the check runs it keeps at    *)
(* GitHub: createAnalysisWorker in worker/analyse-job.ts, CheckReporter in *)
(* checks/reporter.ts and the busy runs the handlers of app.ts write, all  *)
(* on top of the job queue of module JobQueue.                             *)
(*                                                                         *)
(* Every running job of the queue is at a stage of the worker; a stage     *)
(* ends at an await, so the worker's steps interleave with each other and  *)
(* with deliveries.  A reporter lives as long as its job, so its map of    *)
(* claims in flight never holds another job's claim and is left out.       *)
(* Where a call to GitHub or the file system can go wrong, the constant    *)
(* Faults says which of the ways a behaviour may show.                     *)
(***************************************************************************)
EXTENDS JobQueue, Sequences

CONSTANTS
    Faults,      \* the faults of this instance, a subset of FaultNames
    MaxFaults,   \* bound of the model: faults in one behaviour
    MaxBusy      \* bound of the model: busy runs in one behaviour

FaultNames ==
    {"token",       \* clientFor or the listing of runs fails
     "create",      \* creating a run fails
     "lost_reply",  \* creating a run succeeds, but the reply is lost
     "workdir",     \* mkdtemp fails
     "report",      \* the update that completes a run with its result fails
     "unconfirmed", \* that update succeeds, but the reply is lost
     "fail",        \* the update that completes a run as failed fails
     "busy",        \* creating a busy run fails
     "restart"}     \* the process stops and starts again

ASSUME WorkerAssumption ==
    /\ Faults \subseteq FaultNames
    /\ MaxFaults \in Nat
    /\ MaxBusy \in Nat

VARIABLES
    work,    \* the stage of every running job, and the run and result it has
    runs,    \* the check runs at GitHub
    busy,    \* refused jobs whose handler is about to write a busy run
    cache,   \* the ResultCache: finished results, each under its key
    faults   \* the faults so far, by name

workerVars == <<work, runs, busy, cache, faults>>
appVars == <<vars, workerVars>>

-----------------------------------------------------------------------------
(* Check runs.  A run carries the inputs of the job it was made for. *)

Stages == {"look", "create", "serve", "repost", "prepare", "analyse",
           "report", "store", "fail", "settled"}
NoRun == 0

IsRerun(job) == job.kind = "rerequested"

\* What an analysis depends on beside the code and the configuration.
Inputs(job) == <<job.repo, job.head, job.base, job.sourceOnly>>

\* Slip: the base is no part of the cache key.
SlipCacheKey(job) == <<job.repo, job.head, job.sourceOnly>>

CacheKey(job) == <<job.repo, job.head, job.base, job.sourceOnly>>

\* A finished analysis is clean, or it is degraded: a fallback, a skipped
\* step, an adapter error, a footprint cut short.
Qualities == {"clean", "degraded"}
Result(job, quality) == [quality |-> quality, inputs |-> Inputs(job)]

\* Slip: a conclusion GhostDeps never uses.
SlipFailed(job) == Result(job, "failure")

Failed(job) == Result(job, "failed")
Busy(job) == Result(job, "busy")
NoResult == [quality |-> "none", inputs |-> <<>>]

NextId == Cardinality(runs) + 1
RunIds == 1..(MaxArrivals + MaxFaults + MaxBusy)
BusyRuns == {r \in runs : r.by = "busy"}

\* by is "claim", "rerun" or "busy"; ticket is the arrival of the job the run
\* was created for, 0 for a busy run.
RunFor(job, by, ticket, status, output) ==
    [id |-> NextId, repo |-> job.repo, head |-> job.head, inputs |-> Inputs(job),
     by |-> by, ticket |-> ticket, status |-> status, output |-> output]

\* Slip: the newest run of the repository, whatever its commit.
SlipLatest(job) ==
    {r \in runs : r.repo = job.repo /\ \A s \in runs : s.repo = job.repo => s.id <= r.id}

\* listForRef with "filter: latest": GitHub answers with the newest run of
\* the name for the commit.
Latest(job) ==
    {r \in runs :
        /\ <<r.repo, r.head>> = <<job.repo, job.head>>
        /\ \A s \in runs : <<s.repo, s.head>> = <<job.repo, job.head>> => s.id <= r.id}

\* Slip: a run that is still in progress does not count either.
SlipFound(job) == {r \in Latest(job) : r.by # "busy" /\ r.status = "completed"}

\* CheckReporter.find: a busy run does not count.
Found(job) == {r \in Latest(job) : r.by # "busy"}

Completed(id, result) ==
    {IF r.id = id THEN [r EXCEPT !.status = "completed", !.output = result] ELSE r : r \in runs}

Fault(name) ==
    /\ name \in Faults
    /\ Len(faults) < MaxFaults
    /\ faults' = Append(faults, name)

WorkerInit ==
    /\ Init
    /\ work = <<>>
    /\ runs = {}
    /\ busy = {}
    /\ cache = {}
    /\ faults = <<>>

Fresh(job) ==
    [stage |-> IF IsRerun(job) THEN "create" ELSE "look", run |-> NoRun, result |-> NoResult]

\* The stages of the running jobs after a step of the queue: a job that the
\* queue has just started is at the worker's first line.
Assigned(active) ==
    [e \in active |-> IF e \in DOMAIN work THEN work[e] ELSE Fresh(e.job)]

At(e, stage) == e \in running /\ work[e].stage = stage
Goto(e, stage) == work' = [work EXCEPT ![e].stage = stage]

-----------------------------------------------------------------------------
(* Deliveries.  The handlers call enqueue; an overloaded first run or scan  *)
(* leaves a busy run behind if the limiter allows it, a re-run does not.    *)

Deliver(job) ==
    /\ Enqueue(job)
    /\ work' = Assigned(running')
    /\ \/ busy' = busy
       \/ /\ ~IsDuplicate(job) /\ IsOverloaded(job) /\ ~IsRerun(job)
          /\ Cardinality(busy \cup BusyRuns) < MaxBusy
          /\ busy' = busy \cup {job}
    /\ UNCHANGED <<runs, cache, faults>>

\* CheckReporter.busy
PostBusy(job) ==
    /\ job \in busy
    /\ busy' = busy \ {job}
    /\ \/ /\ runs' = runs \cup {RunFor(job, "busy", 0, "completed", Busy(job))}
          /\ UNCHANGED faults
       \/ Fault("busy") /\ UNCHANGED runs
    /\ UNCHANGED <<vars, work, cache>>

-----------------------------------------------------------------------------
(* The worker, one stage per action.                                       *)

\* clientFor, then either restart or the lookup of start.  Nothing has been
\* written yet, so an error here only rejects the job.
NoClient(e) ==
    /\ \/ At(e, "look")
       \/ At(e, "create") /\ IsRerun(e.job)
    /\ Fault("token")
    /\ Goto(e, "settled")
    /\ UNCHANGED <<vars, runs, busy, cache>>

\* #claim: a run that is there already ends the job.
Look(e) ==
    /\ At(e, "look")
    /\ IF Found(e.job) = {} THEN Goto(e, "create") ELSE Goto(e, "settled")
    /\ UNCHANGED <<vars, runs, busy, cache, faults>>

NewRun(e) ==
    RunFor(e.job, IF IsRerun(e.job) THEN "rerun" ELSE "claim", e.ticket,
           "in_progress", NoResult)

\* #create, for a claim and for restart.
Create(e) ==
    /\ At(e, "create")
    /\ runs' = runs \cup {NewRun(e)}
    /\ work' = [work EXCEPT ![e].stage = "serve", ![e].run = NextId]
    /\ UNCHANGED <<vars, busy, cache, faults>>

CreateFails(e) ==
    /\ At(e, "create")
    /\ Fault("create")
    /\ Goto(e, "settled")
    /\ UNCHANGED <<vars, runs, busy, cache>>

\* The run exists, but the worker does not learn its id: the client library
\* posts again or gives up.
CreateReplyLost(e) ==
    /\ At(e, "create")
    /\ Fault("lost_reply")
    /\ runs' = runs \cup {NewRun(e)}
    /\ UNCHANGED work \/ Goto(e, "settled")
    /\ UNCHANGED <<vars, busy, cache>>

\* Only a re-run reads the cache, and the entry may have been evicted.
Serve(e) ==
    /\ At(e, "serve")
    /\ \/ Goto(e, "prepare")
       \/ /\ IsRerun(e.job)
          /\ \E hit \in cache :
                /\ hit.key = CacheKey(e.job)
                /\ work' = [work EXCEPT ![e].stage = "repost", ![e].result = hit.result]
    /\ UNCHANGED <<vars, runs, busy, cache, faults>>

\* mkdtemp stands before the try: its failure rejects the job.
Prepare(e) ==
    /\ At(e, "prepare")
    /\ \/ Goto(e, "analyse") /\ UNCHANGED faults
       \/ Fault("workdir") /\ Goto(e, "settled")
    /\ UNCHANGED <<vars, runs, busy, cache>>

\* Slip: an error before the report ends the job at once.
SlipAnalyse(e) ==
    /\ At(e, "analyse")
    /\ \/ \E q \in Qualities :
             work' = [work EXCEPT ![e].stage = "report", ![e].result = Result(e.job, q)]
       \/ Goto(e, "settled")
    /\ UNCHANGED <<vars, runs, busy, cache, faults>>

\* Download, extraction, pull-request context and analysis.
Analyse(e) ==
    /\ At(e, "analyse")
    /\ \/ \E q \in Qualities :
             work' = [work EXCEPT ![e].stage = "report", ![e].result = Result(e.job, q)]
       \/ Goto(e, "fail")
    /\ UNCHANGED <<vars, runs, busy, cache, faults>>

\* The update that completes the run, by complete, completeRendered or fail.
Update(e, result) == runs' = Completed(work[e].run, result)

\* Slip: an error of the update is not caught.
SlipReport(e, next) ==
    \/ Update(e, work[e].result) /\ Goto(e, next) /\ UNCHANGED faults
    \/ Fault("report") /\ Goto(e, "settled") /\ UNCHANGED runs
    \/ Fault("unconfirmed") /\ Update(e, work[e].result) /\ Goto(e, "settled")

\* Whatever error the update ends with, the run is completed again, as failed.
Report(e, next) ==
    \/ Update(e, work[e].result) /\ Goto(e, next) /\ UNCHANGED faults
    \/ Fault("report") /\ Goto(e, "fail") /\ UNCHANGED runs
    \/ Fault("unconfirmed") /\ Update(e, work[e].result) /\ Goto(e, "fail")

Repost(e) ==
    /\ At(e, "repost")
    /\ Report(e, "settled")
    /\ UNCHANGED <<vars, busy, cache>>

Complete(e) ==
    /\ At(e, "report")
    /\ Report(e, "store")
    /\ UNCHANGED <<vars, busy, cache>>

\* Slip: every finished result is kept.
SlipIsCacheable(result) == TRUE

IsCacheable(result) == result.quality = "clean"

\* The end of the try: the comment is delivered (its errors are swallowed)
\* and a clean result is kept.
Store(e) ==
    /\ At(e, "store")
    /\ cache' = IF IsCacheable(work[e].result)
                THEN {c \in cache : c.key # CacheKey(e.job)}
                       \cup {[key |-> CacheKey(e.job), result |-> work[e].result]}
                ELSE cache
    /\ Goto(e, "settled")
    /\ UNCHANGED <<vars, runs, busy, faults>>

\* The catch.  When this update fails too, the job is rejected.
Fail(e) ==
    /\ At(e, "fail")
    /\ \/ Update(e, Failed(e.job)) /\ UNCHANGED faults
       \/ Fault("fail") /\ UNCHANGED runs
    /\ Goto(e, "settled")
    /\ UNCHANGED <<vars, busy, cache>>

\* The promise of the job settles; the queue starts the next ones.
Finish(e) ==
    /\ At(e, "settled")
    /\ Settle(e)
    /\ work' = Assigned(running')
    /\ UNCHANGED <<runs, busy, cache, faults>>

\* Everything in the process is gone; the check runs are not.
Restart ==
    /\ Fault("restart")
    /\ pending' = {} /\ running' = {} /\ seen' = {} /\ waiters' = {}
    /\ work' = <<>> /\ busy' = {} /\ cache' = {}
    /\ UNCHANGED <<arrivals, runs>>

WorkerStep(e) ==
    \/ NoClient(e)
    \/ Look(e)
    \/ Create(e)
    \/ CreateFails(e)
    \/ CreateReplyLost(e)
    \/ Serve(e)
    \/ Prepare(e)
    \/ Analyse(e)
    \/ Repost(e)
    \/ Complete(e)
    \/ Store(e)
    \/ Fail(e)
    \/ Finish(e)

WorkerNext ==
    \/ \E job \in Jobs : Deliver(job)
    \/ \E job \in busy : PostBusy(job)
    \/ \E e \in running : WorkerStep(e)
    \/ Restart

WorkerSpec == WorkerInit /\ [][WorkerNext]_appVars

\* Downloads, adapters and API calls have deadlines and bounded retries, so
\* each job's worker keeps going.  Deliveries need not come.
StepOf(t) == \E e \in running : e.ticket = t /\ WorkerStep(e)
FairWorkerSpec == WorkerSpec /\ \A t \in 1..MaxArrivals : WF_appVars(StepOf(t))

-----------------------------------------------------------------------------
(* Properties                                                              *)

Results == [quality : Qualities \cup {"failed", "busy", "none"},
            inputs : {Inputs(job) : job \in Jobs} \cup {<<>>}]

WorkerTypeOK ==
    /\ TypeOK
    /\ DOMAIN work = running
    /\ \A e \in running :
          work[e] \in [stage : Stages, run : RunIds \cup {NoRun}, result : Results]
    /\ \A r \in runs :
          /\ r.id \in RunIds /\ r.ticket \in 0..MaxArrivals
          /\ r.by \in {"claim", "rerun", "busy"}
          /\ r.status \in {"in_progress", "completed"}
          /\ r.output \in Results
    /\ busy \subseteq Jobs
    /\ \A c \in cache : c.result \in Results
    /\ \A i \in 1..Len(faults) : faults[i] \in Faults

\* One first run per commit: two runs that were claimed for one commit come
\* from one job whose creating call was repeated, or a busy run was written
\* between them and hid the first from the lookup of the second.  The lookup
\* and the creation are two calls; only the queue keeps two jobs of one
\* commit from both passing the first.  Restarts do not break this.
ClaimedOnce ==
    \A r, s \in runs :
        /\ r.by = "claim" /\ s.by = "claim" /\ r.id < s.id
        /\ <<r.repo, r.head>> = <<s.repo, s.head>>
        => \/ r.ticket = s.ticket
           \/ \E b \in runs :
                 /\ b.by = "busy" /\ r.id < b.id /\ b.id < s.id
                 /\ <<b.repo, b.head>> = <<r.repo, r.head>>

\* What a completed run shows was computed from the inputs of its own job,
\* also when it came from the cache of an earlier run.
OutputIsOfOwnInputs ==
    \A r \in runs : r.status = "completed" => r.output.inputs = r.inputs

\* A re-run is how a user retries a degraded analysis: what a re-run gets
\* from the cache is clean.
RepostsAreClean ==
    \A e \in running :
        work[e].stage = "repost" => work[e].result.quality = "clean"

\* Both: what a completed run shows was computed from the inputs of its own
\* job, and what a re-run gets from the cache is clean (result-cache.ts:1-20,
\* analyse.ts).
OwnCleanOutput == OutputIsOfOwnInputs /\ RepostsAreClean

\* Every run that is in progress without a worker is the loss of a fault of
\* its own that the code cannot absorb: an error in the download, the
\* analysis, the lookup, the creation or the completing update leaves none.
Attended == {work[e].run : e \in running}
Unattended == {r \in runs : r.status = "in_progress" /\ r.id \notin Attended}
Losses(name) == Cardinality({i \in 1..Len(faults) : faults[i] = name})

LossesAllowed ==
    Losses("lost_reply") + Losses("workdir") + Losses("fail")
        + Concurrency * Losses("restart")
LostRunsHaveACause == Cardinality(Unattended) <= LossesAllowed

-----------------------------------------------------------------------------
(* What the properties above rest on                                       *)

CheckRun ==
    [id : Nat, repo : {j.repo : j \in Jobs}, head : {j.head : j \in Jobs},
     inputs : {Inputs(j) : j \in Jobs}, by : {"claim", "rerun", "busy"},
     ticket : Nat, status : {"in_progress", "completed"}, output : Results]

StateIsTyped ==
    /\ work \in [running -> [stage : Stages, run : Nat, result : Results]]
    /\ runs \subseteq CheckRun
    /\ busy \subseteq Jobs
    /\ \A c \in cache : c.result \in Results
    /\ faults \in Seq(Faults)

\* GitHub numbers the runs, each number once.
RunsAreNumbered ==
    /\ IsFiniteSet(runs)
    /\ \A r \in runs : r.id >= 1 /\ r.id <= Cardinality(runs)
    /\ \A r, s \in runs : r.id = s.id => r = s

\* The run a worker knows is one of its own inputs; until it was created it
\* knows none, and when it comes to store the result the run is completed.
WorkersKnowTheirRuns ==
    \A e \in running :
        /\ work[e].run <= Cardinality(runs)
        /\ work[e].stage \in {"look", "create"} => work[e].run = NoRun
        /\ \A r \in runs : r.id = work[e].run =>
              /\ r.inputs = Inputs(e.job)
              /\ work[e].stage = "store" => r.status = "completed"

\* A worker's result, and a cached one, is of the inputs it stands for.
ResultsAreOfTheirInputs ==
    /\ \A e \in running :
          work[e].stage \in {"report", "repost", "store"} =>
              work[e].result.inputs = Inputs(e.job)
    /\ \A c \in cache : c.result.inputs = c.key /\ c.result.quality = "clean"

\* The runs no worker will complete any more.
Lost ==
    {r \in runs :
        /\ r.status = "in_progress"
        /\ \A e \in running : work[e].run = r.id => work[e].stage = "settled"}

\* The inductive invariant.
WorkerInv ==
    /\ QueueInv
    /\ StateIsTyped
    /\ RunsAreNumbered
    /\ WorkersKnowTheirRuns
    /\ ResultsAreOfTheirInputs
    /\ OwnCleanOutput
    /\ Cardinality(Lost) <= LossesAllowed

\* No job runs so long that DedupeWindow later ones are accepted and another
\* one starts: a download and an analysis have deadlines of minutes, and the
\* window is 1000 jobs.
JobsEndInTime == \A e, f \in running : f.ticket - e.ticket <= DedupeWindow

\* ClaimedOnce, and why: a worker that is about to claim a commit looked when
\* no claim of it was to be seen.
ClaimInv ==
    /\ ClaimedOnce
    /\ \A e \in running, r \in runs :
          /\ work[e].stage = "create" /\ ~IsRerun(e.job)
          /\ r.by = "claim" /\ <<r.repo, r.head>> = <<e.job.repo, e.job.head>>
          => \/ r.ticket = e.ticket
             \/ \E b \in runs :
                   /\ b.by = "busy" /\ r.id < b.id
                   /\ <<b.repo, b.head>> = <<r.repo, r.head>>

-----------------------------------------------------------------------------
(* Liveness                                                                *)

\* Every run that was created is completed in the end.
RunsComplete ==
    \A id \in RunIds :
        (\E r \in runs : r.id = id)
            ~> (\E r \in runs : r.id = id /\ r.status = "completed")

\* Every job that was started ends with a completed analysis run for its
\* commit, also the job that stopped because another one had claimed it.
StartedIsAnswered ==
    \A job \in Jobs :
        (\E e \in running : e.job = job)
            ~> (\E r \in runs :
                   /\ <<r.repo, r.head>> = <<job.repo, job.head>>
                   /\ r.by # "busy" /\ r.status = "completed")
=============================================================================
