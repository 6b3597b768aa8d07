-------------------------- MODULE MCAnalysisWorker --------------------------
(* Instances of AnalysisWorker for TLC. *)
EXTENDS AnalysisWorker

CONSTANTS r1, a, b, m, n, none

FirstRun(d, num, head, before, base) ==
    [delivery |-> d, repo |-> r1, head |-> head, kind |-> "pull_request",
     number |-> num, before |-> before, base |-> base, sourceOnly |-> FALSE]
Rerun(d, head, base) ==
    [delivery |-> d, repo |-> r1, head |-> head, kind |-> "rerequested",
     number |-> 0, before |-> none, base |-> base, sourceOnly |-> FALSE]

\* A pull request at a on base m and a re-run of it; a second one with the
\* same head on base n; a third one at b.
Traffic == {FirstRun("d1", 1, a, none, m), Rerun("d2", a, m),
            FirstRun("d3", 2, a, none, n), FirstRun("d5", 3, b, none, m)}

\* A pull request at a that moves to b, and a re-run of the first head.
Mixed == {FirstRun("d1", 1, a, none, m), FirstRun("d2", 1, b, a, m), Rerun("d3", a, m)}

-----------------------------------------------------------------------------
(* A behaviour has faults or it has none, for good.  With faults: one job   *)
(* at a time, the jobs of Mixed, at most two faults.                        *)

VARIABLE faulty
allWorkerVars == <<faulty, appVars>>

\* Without: two jobs at a time, the other jobs.
Faultless == INSTANCE AnalysisWorker
    WITH Jobs <- Traffic, Concurrency <- 2, Faults <- {}, MaxFaults <- 0

ASSUME FaultlessAssumption == Faultless!WorkerAssumption

EitherInit == faulty \in BOOLEAN /\ WorkerInit
EitherNext ==
    /\ UNCHANGED faulty
    /\ \/ faulty /\ WorkerNext
       \/ ~faulty /\ Faultless!WorkerNext
EitherSpec ==
    /\ EitherInit
    /\ [][EitherNext]_allWorkerVars
    /\ \A t \in 1..MaxArrivals : WF_appVars(~faulty /\ Faultless!StepOf(t))

-----------------------------------------------------------------------------
\* Without faults every run is completed, every started job leaves a completed
\* run at its commit and every accepted job leaves the queue.
RunsFinish ==
    ~faulty => /\ Faultless!RunsComplete
               /\ Faultless!StartedIsAnswered
               /\ Faultless!AcceptedJobsLeave
=============================================================================
