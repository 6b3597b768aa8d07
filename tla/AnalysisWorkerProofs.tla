------------------------ MODULE AnalysisWorkerProofs ------------------------
(***************************************************************************)
(* Proofs about the analysis worker and its check runs, for every set of   *)
(* jobs, every concurrency and every number and order of the faults.       *)
(* WorkerInv (module AnalysisWorker) is inductive, on top of QueueInv of   *)
(* the queue below it.  A step of one worker changes its own entry of      *)
(* work, and the check runs in one of three ways: not at all, by one run   *)
(* that is new, or by one run that is completed; there is a lemma for each *)
(* way, and the action's step of the proof fills in the entry.             *)
(***************************************************************************)
EXTENDS AnalysisWorker, JobQueueProofs

-----------------------------------------------------------------------------
(* Faults and the losses they account for                                  *)

\* One more fault of a name is one more loss of that name.
LEMMA LossesCount ==
    ASSUME faults \in Seq(Faults), NEW name, Fault(name)
    PROVE  /\ faults' \in Seq(Faults)
           /\ \A other : /\ Losses(other) \in Nat
                         /\ Losses(other)' = Losses(other) + IF other = name THEN 1 ELSE 0
<1> DEFINE n == Len(faults)
           Among(other) == {i \in 1..n : faults[i] = other}
<1>1. /\ n \in Nat /\ name \in Faults
      /\ faults' = Append(faults, name) /\ faults' \in Seq(Faults)
      /\ Len(faults') = n + 1 /\ faults'[n + 1] = name
      /\ \A i \in 1..n : faults'[i] = faults[i]
  BY DEF Fault
<1>2. SUFFICES ASSUME NEW other
               PROVE  /\ Losses(other) \in Nat
                      /\ Losses(other)' = Losses(other) + IF other = name THEN 1 ELSE 0
  BY <1>1
<1>3. IsFiniteSet(1..n)
  BY <1>1, FS_Interval
<1>4. Among(other) \in SUBSET (1..n) /\ n + 1 \notin Among(other)
  BY <1>1
<1>5. IsFiniteSet(Among(other)) /\ Cardinality(Among(other)) \in Nat
  BY <1>3, <1>4, FS_Subset, FS_CardinalityType
<1>6. {i \in 1..Len(faults') : faults'[i] = other}
        = IF other = name THEN Among(other) \cup {n + 1} ELSE Among(other)
  BY <1>1
<1>7. Cardinality(Among(other) \cup {n + 1}) = Cardinality(Among(other)) + 1
  BY <1>4, <1>5, FS_AddElement
<1>8. Losses(other) = Cardinality(Among(other))
  BY DEF Losses
<1>9. Losses(other)'
        = Cardinality(IF other = name THEN Among(other) \cup {n + 1} ELSE Among(other))
  BY <1>6 DEF Losses
<1> HIDE DEF Among
<1> QED BY <1>5, <1>7, <1>8, <1>9

\* What the code may lose never becomes less.
LEMMA LossesType ==
    ASSUME faults \in Seq(Faults)
    PROVE  \A other : Losses(other) \in Nat
<1> SUFFICES ASSUME NEW other PROVE Losses(other) \in Nat
  OBVIOUS
<1>1. Len(faults) \in Nat
  OBVIOUS
<1>2. IsFiniteSet(1..Len(faults))
  BY <1>1, FS_Interval
<1>3. {i \in 1..Len(faults) : faults[i] = other} \in SUBSET (1..Len(faults))
  OBVIOUS
<1> QED BY <1>2, <1>3, FS_Subset, FS_CardinalityType DEF Losses

LEMMA OneMoreTime ==
    ASSUME NEW c \in Nat, NEW k \in Nat
    PROVE  c * k \in Nat /\ c * (k + 1) = c * k + c
OBVIOUS

\* A fault never makes the allowance smaller; the four that the code cannot
\* absorb make it larger.
LEMMA AllowanceGrows ==
    ASSUME faults \in Seq(Faults), NEW name, Fault(name)
    PROVE  /\ LossesAllowed \in Nat /\ LossesAllowed' \in Nat
           /\ LossesAllowed <= LossesAllowed'
           /\ name \in {"lost_reply", "workdir", "fail"}
                => LossesAllowed + 1 <= LossesAllowed'
           /\ name = "restart" => LossesAllowed + Concurrency <= LossesAllowed'
<1> DEFINE a == Losses("lost_reply")
           b == Losses("workdir")
           c == Losses("fail")
           d == Losses("restart")
           da == Losses("lost_reply")'
           db == Losses("workdir")'
           dc == Losses("fail")'
           dd == Losses("restart")'
<1>1. /\ a \in Nat /\ da = a + IF name = "lost_reply" THEN 1 ELSE 0
      /\ b \in Nat /\ db = b + IF name = "workdir" THEN 1 ELSE 0
      /\ c \in Nat /\ dc = c + IF name = "fail" THEN 1 ELSE 0
      /\ d \in Nat /\ dd = d + IF name = "restart" THEN 1 ELSE 0
  BY LossesCount
<1>2. LossesAllowed = a + b + c + Concurrency * d
  BY DEF LossesAllowed
<1>3. LossesAllowed' = da + db + dc + Concurrency * dd
  BY DEF LossesAllowed
<1>4. /\ Concurrency \in Nat
      /\ Concurrency * d \in Nat /\ Concurrency * (d + 1) = Concurrency * d + Concurrency
  BY <1>1, OneMoreTime, QueueAssumption
<1> HIDE DEF a, b, c, d, da, db, dc, dd
<1>5. dd = d \/ dd = d + 1
  BY <1>1
<1>6. Concurrency * dd = Concurrency * d + IF name = "restart" THEN Concurrency ELSE 0
  BY <1>1, <1>4
<1> DEFINE p == Concurrency * d
           q == Concurrency * dd
<1>7. p \in Nat /\ q = p + IF name = "restart" THEN Concurrency ELSE 0
  BY <1>4, <1>6
<1>8. LossesAllowed = a + b + c + p /\ LossesAllowed' = da + db + dc + q
  BY <1>2, <1>3
<1> HIDE DEF p, q
<1> QED BY <1>1, <1>4, <1>7, <1>8

-----------------------------------------------------------------------------
(* The parts of WorkerInv a step can disturb                               *)

CacheIsSound ==
    \A c \in cache :
        c.result \in Results /\ c.result.inputs = c.key /\ c.result.quality = "clean"

\* WorkerInv without the count of lost runs.
Bookkeeping ==
    /\ QueueInv
    /\ StateIsTyped
    /\ RunsAreNumbered
    /\ WorkersKnowTheirRuns
    /\ ResultsAreOfTheirInputs
    /\ OwnCleanOutput

Place == [stage : Stages, run : Nat, result : Results]

\* What a worker's place must satisfy, given its job and the runs.
PlaceIsSound(e, place, check) ==
    /\ place \in Place
    /\ place.run <= Cardinality(check)
    /\ place.stage \in {"look", "create"} => place.run = NoRun
    /\ \A r \in check : r.id = place.run =>
          /\ r.inputs = Inputs(e.job)
          /\ place.stage = "store" => r.status = "completed"
    /\ place.stage \in {"report", "repost", "store"} =>
          place.result.inputs = Inputs(e.job)
    /\ place.stage = "repost" => place.result.quality = "clean"

ChecksAreSound(check) ==
    /\ check \subseteq CheckRun
    /\ IsFiniteSet(check)
    /\ \A r \in check : r.id >= 1 /\ r.id <= Cardinality(check)
    /\ \A r, s \in check : r.id = s.id => r = s
    /\ \A r \in check : r.status = "completed" => r.output.inputs = r.inputs

EachVariableIsSound ==
    /\ QueueInv
    /\ ChecksAreSound(runs)
    /\ work = [e \in running |-> work[e]]
    /\ \A e \in running : PlaceIsSound(e, work[e], runs)
    /\ CacheIsSound
    /\ busy \subseteq Jobs
    /\ faults \in Seq(Faults)

\* Bookkeeping, arranged by the variable it speaks of.
LEMMA BookkeepingByVariable == Bookkeeping <=> EachVariableIsSound
<1>1. ASSUME Bookkeeping
      PROVE  /\ ChecksAreSound(runs)
             /\ work = [e \in running |-> work[e]]
             /\ \A e \in running : PlaceIsSound(e, work[e], runs)
             /\ CacheIsSound
             /\ busy \subseteq Jobs
             /\ faults \in Seq(Faults)
  <2>1. ChecksAreSound(runs) /\ CacheIsSound
    BY <1>1 DEF Bookkeeping, ChecksAreSound, CacheIsSound, StateIsTyped, RunsAreNumbered,
                ResultsAreOfTheirInputs, OwnCleanOutput, OutputIsOfOwnInputs
  <2>2. work \in [running -> Place] /\ busy \subseteq Jobs /\ faults \in Seq(Faults)
    BY <1>1 DEF Bookkeeping, StateIsTyped, Place
  <2>3. \A e \in running : PlaceIsSound(e, work[e], runs)
    BY <1>1, <2>2 DEF Bookkeeping, PlaceIsSound, WorkersKnowTheirRuns,
                      ResultsAreOfTheirInputs, OwnCleanOutput, RepostsAreClean
  <2> QED BY <2>1, <2>2, <2>3
<1>2. ASSUME QueueInv,
             ChecksAreSound(runs),
             work = [e \in running |-> work[e]],
             \A e \in running : PlaceIsSound(e, work[e], runs),
             CacheIsSound,
             busy \subseteq Jobs,
             faults \in Seq(Faults)
      PROVE  Bookkeeping
  <2>1. work \in [running -> Place]
    <3>1. \A e \in running : work[e] \in Place
      BY <1>2 DEF PlaceIsSound
    <3> QED BY <1>2, <3>1
  <2>2. StateIsTyped
    BY <1>2, <2>1 DEF StateIsTyped, Place, ChecksAreSound, CacheIsSound
  <2>3. RunsAreNumbered /\ OutputIsOfOwnInputs
    BY <1>2 DEF ChecksAreSound, RunsAreNumbered, OutputIsOfOwnInputs
  <2>4. WorkersKnowTheirRuns /\ RepostsAreClean
    BY <1>2 DEF PlaceIsSound, WorkersKnowTheirRuns, RepostsAreClean
  <2>5. ResultsAreOfTheirInputs
    BY <1>2 DEF PlaceIsSound, ResultsAreOfTheirInputs, CacheIsSound
  <2> QED BY <1>2, <2>2, <2>3, <2>4, <2>5 DEF Bookkeeping, OwnCleanOutput
<1> QED BY <1>1, <1>2 DEF Bookkeeping, EachVariableIsSound

\* A run that is new keeps the runs numbered; it has the next number.
LEMMA NewRunIsSound ==
    ASSUME ChecksAreSound(runs), NEW job \in Jobs, NEW by \in {"claim", "rerun", "busy"},
           NEW ticket \in Nat, NEW status \in {"in_progress", "completed"},
           NEW output \in Results,
           status = "completed" => output.inputs = Inputs(job)
    PROVE  LET run == RunFor(job, by, ticket, status, output)
           IN  /\ ChecksAreSound(runs \cup {run})
               /\ Cardinality(runs \cup {run}) = Cardinality(runs) + 1
               /\ run.id = Cardinality(runs) + 1
               /\ Cardinality(runs) \in Nat
<1> DEFINE run == RunFor(job, by, ticket, status, output)
           n == Cardinality(runs)
<1>1. n \in Nat
  BY FS_CardinalityType DEF ChecksAreSound
<1>2. run = [id |-> n + 1, repo |-> job.repo, head |-> job.head, inputs |-> Inputs(job),
             by |-> by, ticket |-> ticket, status |-> status, output |-> output]
  BY DEF RunFor, NextId
<1>3. run \in CheckRun
  BY <1>1, <1>2 DEF CheckRun
<1>4. \A r \in runs : r.id \in Nat /\ r.id >= 1 /\ r.id <= n
  BY DEF ChecksAreSound, CheckRun
<1>5. run.id = n + 1 /\ run \notin runs
  BY <1>1, <1>2, <1>4
<1>6. IsFiniteSet(runs \cup {run}) /\ Cardinality(runs \cup {run}) = n + 1
  BY <1>5, FS_AddElement DEF ChecksAreSound
<1>7. run.status = status /\ run.output = output /\ run.inputs = Inputs(job)
  BY <1>2
<1> HIDE DEF run, n
<1>8. \A r \in runs \cup {run} : r.id >= 1 /\ r.id <= n + 1
  BY <1>1, <1>4, <1>5
<1>9. \A r, s \in runs \cup {run} : r.id = s.id => r = s
  BY <1>1, <1>4, <1>5 DEF ChecksAreSound
<1>10. \A r \in runs \cup {run} : r.status = "completed" => r.output.inputs = r.inputs
  BY <1>7 DEF ChecksAreSound
<1>11. ChecksAreSound(runs \cup {run})
  BY <1>3, <1>6, <1>8, <1>9, <1>10 DEF ChecksAreSound
<1> QED BY <1>1, <1>5, <1>6, <1>11 DEF run, n

\* Completing the run of a number changes the status and the output of that
\* run, and nothing else.
LEMMA CompletedIsSound ==
    ASSUME ChecksAreSound(runs), NEW id, NEW result \in Results,
           \A r \in runs : r.id = id => result.inputs = r.inputs
    PROVE  /\ ChecksAreSound(Completed(id, result))
           /\ Cardinality(Completed(id, result)) = Cardinality(runs)
           /\ \A c \in Completed(id, result) : \E r \in runs :
                 /\ c.id = r.id /\ c.inputs = r.inputs /\ c.by = r.by
                 /\ c.repo = r.repo /\ c.head = r.head /\ c.ticket = r.ticket
                 /\ c.id = id => c.status = "completed"
                 /\ c.id # id => c = r
           /\ \A r \in runs : \E c \in Completed(id, result) :
                 /\ c.id = r.id /\ c.inputs = r.inputs /\ c.by = r.by
                 /\ c.repo = r.repo /\ c.head = r.head /\ c.ticket = r.ticket
<1> DEFINE Done(r) == IF r.id = id
                      THEN [r EXCEPT !.status = "completed", !.output = result] ELSE r
           f == [r \in runs |-> Done(r)]
           C == Completed(id, result)
<1>1. C = {Done(r) : r \in runs}
  BY DEF Completed
<1>2. \A r \in runs :
        /\ Done(r) \in CheckRun
        /\ Done(r).id = r.id /\ Done(r).inputs = r.inputs /\ Done(r).by = r.by
        /\ Done(r).repo = r.repo /\ Done(r).head = r.head /\ Done(r).ticket = r.ticket
        /\ r.id = id => Done(r).status = "completed" /\ Done(r).output = result
        /\ r.id # id => Done(r) = r
  BY DEF ChecksAreSound, CheckRun
<1> HIDE DEF Done
<1>3. \A r, s \in runs : Done(r) = Done(s) => r = s
  BY <1>2 DEF ChecksAreSound
<1>4. f \in Bijection(runs, C)
  BY <1>1, <1>3 DEF Bijection, Injection, IsInjective, Surjection
<1> HIDE DEF f, C
<1>5. IsFiniteSet(runs)
  BY DEF ChecksAreSound
<1>6. IsFiniteSet(C) /\ Cardinality(C) = Cardinality(runs)
  BY <1>4, <1>5, FS_Bijection DEF ExistsBijection
<1>7. C \subseteq CheckRun
  BY <1>1, <1>2
<1>8. \A c \in C : c.id >= 1 /\ c.id <= Cardinality(C)
  BY <1>1, <1>2, <1>6 DEF ChecksAreSound
<1>9. \A c, d \in C : c.id = d.id => c = d
  BY <1>1, <1>2 DEF ChecksAreSound
<1>10. \A c \in C : c.status = "completed" => c.output.inputs = c.inputs
  BY <1>1, <1>2 DEF ChecksAreSound
<1>11. ChecksAreSound(C)
  BY <1>6, <1>7, <1>8, <1>9, <1>10 DEF ChecksAreSound
<1> QED BY <1>1, <1>2, <1>6, <1>11 DEF C

-----------------------------------------------------------------------------
(* Steps of the queue: jobs come and go, the others keep their places.      *)

LEMMA AssignedIsSound ==
    ASSUME Bookkeeping, QueueInv', work' = Assigned(running'),
           busy' \subseteq Jobs, UNCHANGED <<runs, cache, faults>>
    PROVE  Bookkeeping'
<1>1. ChecksAreSound(runs) /\ CacheIsSound /\ faults \in Seq(Faults)
  BY BookkeepingByVariable DEF EachVariableIsSound
<1>2. \A e \in running' : e.job \in Jobs
  BY DEF QueueInv, TypeOK, Entry
<1>3. DOMAIN work = running /\ \A e \in running : PlaceIsSound(e, work[e], runs)
  BY BookkeepingByVariable DEF EachVariableIsSound
<1>4. work' = [e \in running' |-> work'[e]]
  BY DEF Assigned
<1>5. \A e \in running' : work'[e] = IF e \in running THEN work[e] ELSE Fresh(e.job)
  BY <1>3 DEF Assigned
<1>6. \A e \in running' : PlaceIsSound(e, Fresh(e.job), runs)
  <2> SUFFICES ASSUME NEW e \in running'
               PROVE  PlaceIsSound(e, Fresh(e.job), runs)
    OBVIOUS
  <2>1. NoResult \in Results
    BY DEF NoResult, Results
  <2>2. Fresh(e.job) \in Place
    BY <2>1 DEF Fresh, Place, Stages, NoRun
  <2>3. Fresh(e.job).run = NoRun /\ Fresh(e.job).stage \in {"look", "create"}
    BY DEF Fresh
  <2>4. Cardinality(runs) \in Nat /\ \A r \in runs : r.id >= 1
    BY <1>1, FS_CardinalityType DEF ChecksAreSound
  <2> QED BY <2>2, <2>3, <2>4 DEF PlaceIsSound, NoRun
<1>7. \A e \in running' : PlaceIsSound(e, work'[e], runs')
  BY <1>3, <1>5, <1>6
<1>8. ChecksAreSound(runs') /\ CacheIsSound' /\ faults' \in Seq(Faults)
  BY <1>1 DEF CacheIsSound
<1>9. EachVariableIsSound'
  BY <1>4, <1>7, <1>8 DEF EachVariableIsSound
<1> QED BY <1>9, BookkeepingByVariable, PTL

-----------------------------------------------------------------------------
(* Steps of a worker                                                       *)

\* One worker moves to a place that is sound among the new runs; the other
\* workers lose nothing by what happens to the runs.
LEMMA MoveIsSound ==
    ASSUME Bookkeeping, NEW e \in running, NEW place,
           UNCHANGED vars, UNCHANGED busy,
           work' = [work EXCEPT ![e] = place],
           faults' \in Seq(Faults),
           CacheIsSound',
           ChecksAreSound(runs'),
           Cardinality(runs) <= Cardinality(runs'),
           \A c \in runs' :
              \/ c.id > Cardinality(runs)
              \/ \E r \in runs : /\ c.id = r.id /\ c.inputs = r.inputs
                                 /\ r.status = "completed" => c.status = "completed",
           PlaceIsSound(e, place, runs')
    PROVE  Bookkeeping'
<1>1. EachVariableIsSound
  BY BookkeepingByVariable
<1>2. QueueInv'
  BY StutterKeepsInv DEF Bookkeeping
<1>3. running' = running
  BY DEF vars
<1>4. work' = [f \in running' |-> work'[f]]
  BY <1>1, <1>3 DEF EachVariableIsSound
<1>5. \A f \in running : work'[f] = IF f = e THEN place ELSE work[f]
  BY <1>1 DEF EachVariableIsSound
<1>6. \A f \in running : PlaceIsSound(f, work[f], runs')
  <2> SUFFICES ASSUME NEW f \in running PROVE PlaceIsSound(f, work[f], runs')
    OBVIOUS
  <2>1. PlaceIsSound(f, work[f], runs)
    BY <1>1 DEF EachVariableIsSound
  <2>2. /\ Cardinality(runs) \in Nat /\ Cardinality(runs') \in Nat
        /\ work[f].run \in Nat
    BY <1>1, <2>1, FS_CardinalityType
       DEF EachVariableIsSound, ChecksAreSound, PlaceIsSound, Place
  <2>3. work[f].run <= Cardinality(runs')
    BY <2>1, <2>2 DEF PlaceIsSound
  <2>4. ASSUME NEW c \in runs', c.id = work[f].run
        PROVE  \E r \in runs : /\ work[f].run = r.id /\ c.inputs = r.inputs
                               /\ r.status = "completed" => c.status = "completed"
    BY <2>1, <2>2, <2>4 DEF PlaceIsSound
  <2> QED BY <2>1, <2>3, <2>4 DEF PlaceIsSound
<1>7. \A f \in running' : PlaceIsSound(f, work'[f], runs')
  BY <1>3, <1>5, <1>6
<1>8. EachVariableIsSound'
  BY <1>1, <1>2, <1>4, <1>7 DEF EachVariableIsSound
<1> QED BY <1>8, BookkeepingByVariable, PTL

\* The same for a step that leaves the runs alone.
LEMMA QuietMoveIsSound ==
    ASSUME Bookkeeping, NEW e \in running, NEW place,
           UNCHANGED vars, UNCHANGED busy, UNCHANGED runs,
           work' = [work EXCEPT ![e] = place],
           faults' \in Seq(Faults),
           CacheIsSound',
           PlaceIsSound(e, place, runs)
    PROVE  Bookkeeping'
<1>1. ChecksAreSound(runs')
  BY BookkeepingByVariable DEF EachVariableIsSound
<1>2. Cardinality(runs) \in Nat
  BY <1>1, FS_CardinalityType DEF ChecksAreSound
<1>3. Cardinality(runs) <= Cardinality(runs')
  BY <1>2
<1>4. \A c \in runs' : \E r \in runs : /\ c.id = r.id /\ c.inputs = r.inputs
                                       /\ r.status = "completed" => c.status = "completed"
  OBVIOUS
<1>5. PlaceIsSound(e, place, runs')
  OBVIOUS
<1> QED BY <1>1, <1>3, <1>4, <1>5, MoveIsSound

\* The place of a worker, and where a step of it may begin.
LEMMA PlacesAreSound ==
    ASSUME Bookkeeping, NEW e \in running
    PROVE  /\ work[e] \in Place
           /\ PlaceIsSound(e, work[e], runs)
           /\ e.job \in Jobs
           /\ ChecksAreSound(runs)
           /\ Cardinality(runs) \in Nat
           /\ \A r \in runs : r.id \in Nat /\ r.id >= 1
           /\ faults \in Seq(Faults)
           /\ CacheIsSound
           /\ work = [f \in running |-> work[f]]
<1>1. EachVariableIsSound
  BY BookkeepingByVariable
<1>2. Cardinality(runs) \in Nat
  BY <1>1, FS_CardinalityType DEF EachVariableIsSound, ChecksAreSound
<1>3. e.job \in Jobs
  BY DEF Bookkeeping, QueueInv, TypeOK, Entry
<1> QED BY <1>1, <1>2, <1>3 DEF EachVariableIsSound, PlaceIsSound, ChecksAreSound, CheckRun

\* Lost runs against the allowance: a step that loses no run, or one for
\* which the allowance grows.
LEMMA LossIsAllowed ==
    ASSUME Bookkeeping, Cardinality(Lost) <= LossesAllowed,
           LossesAllowed \in Nat, LossesAllowed' \in Nat,
           \/ /\ Lost' \subseteq Lost
              /\ LossesAllowed <= LossesAllowed'
           \/ /\ \E r : Lost' \subseteq Lost \cup {r}
              /\ LossesAllowed + 1 <= LossesAllowed'
    PROVE  Cardinality(Lost') <= LossesAllowed'
<1>1. IsFiniteSet(runs) /\ Lost \in SUBSET runs
  BY DEF Bookkeeping, RunsAreNumbered, Lost
<1>2. IsFiniteSet(Lost) /\ Cardinality(Lost) \in Nat
  BY <1>1, FS_Subset, FS_CardinalityType
<1>3. CASE Lost' \subseteq Lost /\ LossesAllowed <= LossesAllowed'
  <2>1. Cardinality(Lost') <= Cardinality(Lost) /\ Cardinality(Lost') \in Nat
    BY <1>2, <1>3, FS_Subset, FS_CardinalityType
  <2> QED BY <1>2, <1>3, <2>1
<1>4. CASE (\E r : Lost' \subseteq Lost \cup {r}) /\ LossesAllowed + 1 <= LossesAllowed'
  <2>1. PICK r : Lost' \subseteq Lost \cup {r}
    BY <1>4
  <2>2. /\ IsFiniteSet(Lost \cup {r})
        /\ Cardinality(Lost \cup {r}) \in Nat
        /\ Cardinality(Lost \cup {r}) <= Cardinality(Lost) + 1
    BY <1>2, OneMore
  <2>3. Cardinality(Lost') <= Cardinality(Lost \cup {r}) /\ Cardinality(Lost') \in Nat
    BY <2>1, <2>2, FS_Subset, FS_CardinalityType
  <2> QED BY <1>2, <1>4, <2>2, <2>3
<1> QED BY <1>3, <1>4

\* The allowance of a step with or without a fault.
LEMMA AllowanceOfStep ==
    ASSUME faults \in Seq(Faults), UNCHANGED faults \/ \E name : Fault(name)
    PROVE  /\ faults' \in Seq(Faults)
           /\ LossesAllowed \in Nat /\ LossesAllowed' \in Nat
           /\ LossesAllowed <= LossesAllowed'
<1>1. CASE UNCHANGED faults
  <2>1. LossesAllowed' = LossesAllowed
    BY <1>1 DEF LossesAllowed, Losses
  <2>2. Concurrency * Losses("restart") \in Nat
    BY LossesType, OneMoreTime, QueueAssumption
  <2>3. LossesAllowed \in Nat
    BY <2>2, LossesType DEF LossesAllowed
  <2> QED BY <1>1, <2>1, <2>3
<1>2. CASE \E name : Fault(name)
  BY <1>2, LossesCount, AllowanceGrows
<1> QED BY <1>1, <1>2

LostAreAllowed == Cardinality(Lost) <= LossesAllowed

LEMMA InvParts == WorkerInv <=> Bookkeeping /\ LostAreAllowed
BY DEF WorkerInv, Bookkeeping, LostAreAllowed

\* A worker moves, the check runs stay.  If it settles, its run is completed
\* or the step has a fault that may lose it.
LEMMA QuietMoveKeepsInv ==
    ASSUME WorkerInv, NEW e \in running, NEW place,
           UNCHANGED vars, UNCHANGED busy, UNCHANGED runs,
           work' = [work EXCEPT ![e] = place],
           place.run = work[e].run,
           PlaceIsSound(e, place, runs),
           CacheIsSound',
           UNCHANGED faults \/ \E name : Fault(name),
           \/ place.stage # "settled"
           \/ \A r \in runs : r.id = work[e].run => r.status = "completed"
           \/ \E name \in {"lost_reply", "workdir", "fail"} : Fault(name)
    PROVE  WorkerInv'
<1>1. Bookkeeping /\ Cardinality(Lost) <= LossesAllowed
  BY InvParts DEF LostAreAllowed
<1>2. /\ LossesAllowed \in Nat /\ LossesAllowed' \in Nat
      /\ LossesAllowed <= LossesAllowed' /\ faults' \in Seq(Faults)
  BY <1>1, PlacesAreSound, AllowanceOfStep
<1>3. Bookkeeping'
  BY <1>1, <1>2, QuietMoveIsSound
<1>4. work'[e] = place /\ \A f \in running : f # e => work'[f] = work[f]
  BY <1>1, PlacesAreSound
<1>5. running' = running
  BY DEF vars
<1>6. \A r \in Lost' :
        \/ r \in Lost
        \/ r.id = work[e].run /\ place.stage = "settled" /\ r.status = "in_progress"
  BY <1>4, <1>5 DEF Lost
<1>7. \/ /\ Lost' \subseteq Lost
         /\ LossesAllowed <= LossesAllowed'
      \/ /\ \E r : Lost' \subseteq Lost \cup {r}
         /\ LossesAllowed + 1 <= LossesAllowed'
  <2>1. Lost' \subseteq runs
    BY DEF Lost
  <2>2. CASE place.stage # "settled"
    BY <1>2, <1>6, <2>2
  <2>3. CASE \A r \in runs : r.id = work[e].run => r.status = "completed"
    BY <1>2, <1>6, <2>1, <2>3
  <2>4. CASE \E name \in {"lost_reply", "workdir", "fail"} : Fault(name)
    <3>1. LossesAllowed + 1 <= LossesAllowed'
      BY <1>1, <2>4, PlacesAreSound, AllowanceGrows
    <3>2. \A r, s \in runs : r.id = s.id => r = s
      BY <1>1, PlacesAreSound DEF ChecksAreSound
    <3>3. \E r : Lost' \subseteq Lost \cup {r}
      BY <1>6, <2>1, <3>2
    <3> QED BY <3>1, <3>3
  <2> QED BY <2>2, <2>3, <2>4
<1>8. LostAreAllowed'
  BY <1>1, <1>2, <1>7, LossIsAllowed DEF LostAreAllowed
<1> QED BY <1>3, <1>8, InvParts, PTL

\* A worker creates a run of its own, which it knows or loses.
LEMMA CreatingKeepsInv ==
    ASSUME WorkerInv, NEW e \in running, NEW place,
           work[e].stage = "create",
           UNCHANGED vars, UNCHANGED busy, UNCHANGED cache,
           runs' = runs \cup {NewRun(e)},
           work' = [work EXCEPT ![e] = place],
           place \in Place,
           \/ /\ place.stage = "serve" /\ place.run = NextId
              /\ UNCHANGED faults
           \/ /\ place.stage \in {"create", "settled"} /\ place.run = work[e].run
              /\ Fault("lost_reply")
    PROVE  WorkerInv'
<1> DEFINE new == NewRun(e)
<1>1. Bookkeeping /\ Cardinality(Lost) <= LossesAllowed
  BY InvParts DEF LostAreAllowed
<1>2. /\ LossesAllowed \in Nat /\ LossesAllowed' \in Nat
      /\ LossesAllowed <= LossesAllowed' /\ faults' \in Seq(Faults)
  BY <1>1, PlacesAreSound, AllowanceOfStep
<1>3. NoResult \in Results /\ e.ticket \in Nat /\ e.job \in Jobs
  BY <1>1 DEF NoResult, Results, Bookkeeping, QueueInv, TypeOK, Entry
<1>4. /\ ChecksAreSound(runs')
      /\ Cardinality(runs') = Cardinality(runs) + 1
      /\ new.id = Cardinality(runs) + 1 /\ Cardinality(runs) \in Nat
  BY <1>1, <1>3, PlacesAreSound, NewRunIsSound DEF NewRun
<1>5. new.inputs = Inputs(e.job) /\ new.id = NextId /\ new.status = "in_progress"
  BY DEF NewRun, RunFor
<1>6. work[e].run = NoRun
  BY <1>1, PlacesAreSound DEF PlaceIsSound
<1>7. \A r \in runs : r.id >= 1 /\ r.id <= Cardinality(runs) /\ r.id \in Nat
  BY <1>1, PlacesAreSound DEF ChecksAreSound
<1> HIDE DEF new
<1>8. runs' = runs \cup {new}
  BY DEF new
<1>9. PlaceIsSound(e, place, runs')
  <2>1. CASE place.stage = "serve" /\ place.run = NextId
    <3>1. place.run = Cardinality(runs) + 1
      BY <1>4, <1>5, <2>1
    <3>2. \A r \in runs' : r.id = place.run => r.inputs = Inputs(e.job)
      BY <1>4, <1>5, <1>7, <1>8, <3>1
    <3> QED BY <1>4, <2>1, <3>1, <3>2 DEF PlaceIsSound
  <2>2. CASE place.stage \in {"create", "settled"} /\ place.run = work[e].run
    <3>1. \A r \in runs' : r.id # place.run
      BY <1>4, <1>6, <1>7, <1>8, <2>2 DEF NoRun
    <3> QED BY <1>4, <1>6, <2>2, <3>1 DEF PlaceIsSound, NoRun
  <2> QED BY <2>1, <2>2
<1>10. \A c \in runs' :
          \/ c.id > Cardinality(runs)
          \/ \E r \in runs : /\ c.id = r.id /\ c.inputs = r.inputs
                             /\ r.status = "completed" => c.status = "completed"
  BY <1>4, <1>8
<1>11. CacheIsSound'
  BY <1>1, PlacesAreSound DEF CacheIsSound
<1>12. Cardinality(runs) <= Cardinality(runs')
  BY <1>4
<1>13. Bookkeeping'
  BY <1>1, <1>2, <1>4, <1>9, <1>10, <1>11, <1>12, MoveIsSound
<1>14. work'[e] = place /\ (\A f \in running : f # e => work'[f] = work[f])
       /\ running' = running
  BY <1>1, PlacesAreSound DEF vars
<1>15. Lost' \subseteq Lost \cup {new}
  BY <1>6, <1>7, <1>8, <1>14 DEF Lost, NoRun
<1>16. \/ /\ Lost' \subseteq Lost
          /\ LossesAllowed <= LossesAllowed'
       \/ /\ \E r : Lost' \subseteq Lost \cup {r}
          /\ LossesAllowed + 1 <= LossesAllowed'
  <2>1. CASE place.stage = "serve" /\ place.run = NextId
    <3>1. new \notin Lost'
      BY <1>5, <1>14, <2>1 DEF Lost
    <3> QED BY <1>2, <1>15, <3>1
  <2>2. CASE Fault("lost_reply")
    BY <1>1, <1>15, <2>2, PlacesAreSound, AllowanceGrows
  <2> QED BY <2>1, <2>2
<1>17. LostAreAllowed'
  BY <1>1, <1>2, <1>16, LossIsAllowed DEF LostAreAllowed
<1> QED BY <1>13, <1>17, InvParts, PTL

\* A worker completes its run with a result of its own inputs.
LEMMA CompletingKeepsInv ==
    ASSUME WorkerInv, NEW e \in running, NEW stage \in {"store", "settled", "fail"},
           NEW result \in Results, result.inputs = Inputs(e.job),
           stage = "store" => work[e].result.inputs = Inputs(e.job),
           work[e].stage \notin {"look", "create"},
           UNCHANGED vars, UNCHANGED busy, UNCHANGED cache,
           Update(e, result), Goto(e, stage),
           UNCHANGED faults \/ \E name : Fault(name)
    PROVE  WorkerInv'
<1> DEFINE place == [work[e] EXCEPT !.stage = stage]
           id == work[e].run
<1>1. Bookkeeping /\ Cardinality(Lost) <= LossesAllowed
  BY InvParts DEF LostAreAllowed
<1>2. /\ LossesAllowed \in Nat /\ LossesAllowed' \in Nat
      /\ LossesAllowed <= LossesAllowed' /\ faults' \in Seq(Faults)
  BY <1>1, PlacesAreSound, AllowanceOfStep
<1>3. /\ place \in Place /\ place.run = id /\ place.stage = stage
      /\ place.result = work[e].result
  BY <1>1, PlacesAreSound DEF Place, Stages
<1>4. work' = [work EXCEPT ![e] = place]
  BY <1>1, PlacesAreSound DEF Goto
<1>5. \A r \in runs : r.id = id => result.inputs = r.inputs /\ r.inputs = Inputs(e.job)
  BY <1>1, PlacesAreSound DEF PlaceIsSound
<1>6. runs' = Completed(id, result) /\ ChecksAreSound(runs) /\ id <= Cardinality(runs)
  BY <1>1, PlacesAreSound DEF Update, PlaceIsSound
<1> HIDE DEF place, id
<1>7. /\ ChecksAreSound(runs')
      /\ Cardinality(runs') = Cardinality(runs)
      /\ \A c \in runs' : \E r \in runs :
            /\ c.id = r.id /\ c.inputs = r.inputs
            /\ c.id = id => c.status = "completed"
            /\ c.id # id => c = r
  BY <1>5, <1>6, CompletedIsSound
<1>8. PlaceIsSound(e, place, runs')
  <2>1. \A c \in runs' : c.id = id => c.inputs = Inputs(e.job) /\ c.status = "completed"
    BY <1>5, <1>7
  <2> QED BY <1>3, <1>6, <1>7, <2>1 DEF PlaceIsSound
<1>9. \A c \in runs' :
         \E r \in runs : /\ c.id = r.id /\ c.inputs = r.inputs
                         /\ r.status = "completed" => c.status = "completed"
  BY <1>7
<1>10. CacheIsSound'
  BY <1>1, PlacesAreSound DEF CacheIsSound
<1>11. Cardinality(runs) <= Cardinality(runs')
  BY <1>1, <1>7, PlacesAreSound
<1>12. Bookkeeping'
  BY <1>1, <1>2, <1>4, <1>7, <1>8, <1>9, <1>10, <1>11, MoveIsSound
<1>13. work'[e] = place /\ (\A f \in running : f # e => work'[f] = work[f])
       /\ running' = running
  BY <1>1, <1>4, PlacesAreSound DEF vars
<1>14. Lost' \subseteq Lost
  BY <1>7, <1>13 DEF Lost, id
<1>15. LostAreAllowed'
  BY <1>1, <1>2, <1>14, LossIsAllowed DEF LostAreAllowed
<1> QED BY <1>12, <1>15, InvParts, PTL

\* Moving on with what the worker knows.
LEMMA GoingKeepsInv ==
    ASSUME WorkerInv, NEW e \in running, NEW stage \in Stages, Goto(e, stage),
           UNCHANGED vars, UNCHANGED busy, UNCHANGED runs, CacheIsSound',
           stage \in {"look", "create"} => work[e].run = NoRun,
           stage \notin {"report", "repost", "store"},
           UNCHANGED faults \/ \E name : Fault(name),
           \/ stage # "settled"
           \/ \A r \in runs : r.id = work[e].run => r.status = "completed"
           \/ \E name \in {"lost_reply", "workdir", "fail"} : Fault(name)
    PROVE  WorkerInv'
<1> DEFINE place == [work[e] EXCEPT !.stage = stage]
<1>1. Bookkeeping
  BY InvParts
<1>2. /\ place \in Place /\ place.run = work[e].run /\ place.stage = stage
      /\ work' = [work EXCEPT ![e] = place]
  BY <1>1, PlacesAreSound DEF Place, Goto
<1>3. PlaceIsSound(e, work[e], runs)
  BY <1>1, PlacesAreSound
<1> HIDE DEF place
<1>4. PlaceIsSound(e, place, runs)
  BY <1>2, <1>3 DEF PlaceIsSound
<1> QED BY <1>2, <1>4, QuietMoveKeepsInv

\* Moving on with a result of the job's own inputs.
LEMMA ResultKeepsInv ==
    ASSUME WorkerInv, NEW e \in running, NEW stage \in {"report", "repost"},
           NEW result \in Results, result.inputs = Inputs(e.job),
           stage = "repost" => result.quality = "clean",
           work' = [work EXCEPT ![e].stage = stage, ![e].result = result],
           UNCHANGED <<vars, runs, busy, cache, faults>>
    PROVE  WorkerInv'
<1> DEFINE place == [work[e] EXCEPT !.stage = stage, !.result = result]
<1>1. Bookkeeping
  BY InvParts
<1>2. /\ place \in Place /\ place.run = work[e].run /\ place.stage = stage
      /\ place.result = result
      /\ work' = [work EXCEPT ![e] = place]
  BY <1>1, PlacesAreSound DEF Place, Stages
<1>3. PlaceIsSound(e, work[e], runs) /\ CacheIsSound'
  BY <1>1, PlacesAreSound DEF CacheIsSound
<1> HIDE DEF place
<1>4. PlaceIsSound(e, place, runs)
  BY <1>2, <1>3 DEF PlaceIsSound
<1> QED BY <1>2, <1>3, <1>4, QuietMoveKeepsInv

\* Repost and Complete: the update succeeds, fails, or is not confirmed.
LEMMA ReportKeepsInv ==
    ASSUME WorkerInv, NEW e \in running, NEW next \in {"store", "settled"},
           work[e].stage \in {"report", "repost"}, Report(e, next),
           UNCHANGED <<vars, busy, cache>>
    PROVE  WorkerInv'
<1>1. Bookkeeping
  BY InvParts
<1>2. /\ work[e].result \in Results /\ work[e].result.inputs = Inputs(e.job)
      /\ CacheIsSound'
  BY <1>1, PlacesAreSound DEF PlaceIsSound, Place, CacheIsSound
<1>3. CASE Update(e, work[e].result) /\ Goto(e, next) /\ UNCHANGED faults
  BY <1>2, <1>3, CompletingKeepsInv
<1>4. CASE Fault("report") /\ Goto(e, "fail") /\ UNCHANGED runs
  BY <1>2, <1>4, GoingKeepsInv DEF Stages
<1>5. CASE Fault("unconfirmed") /\ Update(e, work[e].result) /\ Goto(e, "fail")
  BY <1>2, <1>5, CompletingKeepsInv
<1> QED BY <1>3, <1>4, <1>5 DEF Report

LEMMA StepKeepsInv ==
    ASSUME WorkerInv, NEW e \in running, WorkerStep(e), ~Finish(e)
    PROVE  WorkerInv'
<1>1. Bookkeeping
  BY InvParts
<1>2. /\ work[e] \in Place /\ PlaceIsSound(e, work[e], runs) /\ e.job \in Jobs
      /\ CacheIsSound
      /\ \A r \in runs : r.id >= 1 /\ r.id \in Nat
  BY <1>1, PlacesAreSound
<1>3. work[e].stage \in {"look", "create"} => \A r \in runs : r.id # work[e].run
  BY <1>2 DEF PlaceIsSound, NoRun
<1>4. UNCHANGED cache => CacheIsSound'
  BY <1>2 DEF CacheIsSound
<1>5. CASE NoClient(e)
  BY <1>3, <1>4, <1>5, GoingKeepsInv DEF NoClient, At, Stages
<1>6. CASE Look(e)
  <2>1. work[e].run = NoRun
    BY <1>2, <1>6 DEF Look, At, PlaceIsSound
  <2> QED BY <1>3, <1>4, <1>6, <2>1, GoingKeepsInv DEF Look, At, Stages
<1>7. CASE Create(e)
  <2> DEFINE n == NextId
             place == [work[e] EXCEPT !.stage = "serve", !.run = n]
  <2>1. n \in Nat /\ work' = [work EXCEPT ![e].stage = "serve", ![e].run = n]
    BY <1>1, <1>7, PlacesAreSound DEF Create, NextId
  <2> HIDE DEF n
  <2>2. /\ place \in Place /\ place.stage = "serve" /\ place.run = n
        /\ work' = [work EXCEPT ![e] = place]
    BY <1>1, <1>2, <2>1, PlacesAreSound DEF Place, Stages
  <2> HIDE DEF place
  <2> QED BY <1>7, <2>2, CreatingKeepsInv DEF Create, At, n
<1>8. CASE CreateFails(e)
  BY <1>3, <1>4, <1>8, GoingKeepsInv DEF CreateFails, At, Stages
<1>9. CASE CreateReplyLost(e)
  <2>1. CASE UNCHANGED work
    <3>1. work' = [work EXCEPT ![e] = work[e]]
      BY <1>1, <2>1, PlacesAreSound
    <3> QED BY <1>2, <1>9, <3>1, CreatingKeepsInv DEF CreateReplyLost, At
  <2>2. CASE Goto(e, "settled")
    <3> DEFINE place == [work[e] EXCEPT !.stage = "settled"]
    <3>1. /\ place \in Place /\ place.stage = "settled" /\ place.run = work[e].run
          /\ work' = [work EXCEPT ![e] = place]
      BY <1>1, <1>2, <2>2, PlacesAreSound DEF Goto, Place, Stages
    <3> HIDE DEF place
    <3> QED BY <1>9, <3>1, CreatingKeepsInv DEF CreateReplyLost, At
  <2> QED BY <1>9, <2>1, <2>2 DEF CreateReplyLost
<1>10. CASE Serve(e)
  <2>1. CASE Goto(e, "prepare")
    BY <1>4, <1>10, <2>1, GoingKeepsInv DEF Serve, Stages
  <2>2. ASSUME NEW hit \in cache, hit.key = CacheKey(e.job),
               work' = [work EXCEPT ![e].stage = "repost", ![e].result = hit.result]
        PROVE  WorkerInv'
    <3>1. /\ hit.result \in Results /\ hit.result.quality = "clean"
          /\ hit.result.inputs = Inputs(e.job)
      BY <1>2, <2>2 DEF CacheIsSound, CacheKey, Inputs
    <3> QED BY <1>10, <2>2, <3>1, ResultKeepsInv DEF Serve
  <2> QED BY <1>10, <2>1, <2>2 DEF Serve
<1>11. CASE Prepare(e)
  BY <1>4, <1>11, GoingKeepsInv DEF Prepare, Stages
<1>12. CASE Analyse(e)
  <2>1. ASSUME NEW q \in Qualities,
               work' = [work EXCEPT ![e].stage = "report", ![e].result = Result(e.job, q)]
        PROVE  WorkerInv'
    <3>1. Result(e.job, q) \in Results /\ Result(e.job, q).inputs = Inputs(e.job)
      BY <1>2 DEF Result, Results
    <3> QED BY <1>12, <2>1, <3>1, ResultKeepsInv DEF Analyse
  <2>2. CASE Goto(e, "fail")
    BY <1>4, <1>12, <2>2, GoingKeepsInv DEF Analyse, Stages
  <2> QED BY <1>12, <2>1, <2>2 DEF Analyse
<1>13. CASE Repost(e)
  BY <1>13, ReportKeepsInv DEF Repost, At
<1>14. CASE Complete(e)
  BY <1>14, ReportKeepsInv DEF Complete, At
<1>15. CASE Store(e)
  <2>1. /\ work[e].result \in Results /\ work[e].result.inputs = CacheKey(e.job)
        /\ \A r \in runs : r.id = work[e].run => r.status = "completed"
    BY <1>2, <1>15 DEF Store, At, PlaceIsSound, Place, CacheKey, Inputs
  <2>2. CacheIsSound'
    <3>1. ASSUME NEW c \in cache' PROVE c \in cache
             \/ /\ c = [key |-> CacheKey(e.job), result |-> work[e].result]
                /\ work[e].result.quality = "clean"
      BY <1>15, <3>1 DEF Store, IsCacheable
    <3> QED BY <1>2, <2>1, <3>1 DEF CacheIsSound
  <2> QED BY <1>15, <2>1, <2>2, GoingKeepsInv DEF Store, Stages
<1>16. CASE Fail(e)
  <2>1. Failed(e.job) \in Results /\ Failed(e.job).inputs = Inputs(e.job)
    BY <1>2 DEF Failed, Result, Results
  <2>2. CASE Update(e, Failed(e.job)) /\ UNCHANGED faults
    BY <1>16, <2>1, <2>2, CompletingKeepsInv DEF Fail, At
  <2>3. CASE Fault("fail") /\ UNCHANGED runs
    BY <1>4, <1>16, <2>3, GoingKeepsInv DEF Fail, Stages
  <2> QED BY <1>16, <2>2, <2>3 DEF Fail
<1> QED BY <1>5, <1>6, <1>7, <1>8, <1>9, <1>10, <1>11, <1>12, <1>13, <1>14, <1>15, <1>16
        DEF WorkerStep

-----------------------------------------------------------------------------
(* Every step of the worker                                                *)

LEMMA DeliverKeepsInv ==
    ASSUME WorkerInv, NEW job \in Jobs, Deliver(job)
    PROVE  WorkerInv'
<1>1. Bookkeeping /\ LostAreAllowed
  BY InvParts
<1>2. QueueInv'
  BY <1>1, NextKeepsInv DEF Deliver, Next, Bookkeeping
<1>3. busy' \subseteq Jobs
  BY <1>1 DEF Deliver, Bookkeeping, StateIsTyped
<1>4. Bookkeeping'
  BY <1>1, <1>2, <1>3, AssignedIsSound DEF Deliver
<1>5. running \subseteq running'
  BY DEF Deliver, Enqueue, EnqueueDuplicate, EnqueueOverloaded, EnqueueQueued, Drain, vars
<1>6. DOMAIN work = running
  BY <1>1, BookkeepingByVariable DEF EachVariableIsSound
<1>7. \A e \in running : work'[e] = work[e]
  BY <1>5, <1>6 DEF Deliver, Assigned
<1>8. Lost' \subseteq Lost
  BY <1>5, <1>7 DEF Lost, Deliver
<1>9. /\ LossesAllowed \in Nat /\ LossesAllowed' \in Nat
      /\ LossesAllowed <= LossesAllowed'
  BY <1>1, PlacesAreSound, AllowanceOfStep, BookkeepingByVariable
     DEF Deliver, EachVariableIsSound
<1>10. LostAreAllowed'
  BY <1>1, <1>8, <1>9, LossIsAllowed DEF LostAreAllowed
<1> QED BY <1>4, <1>10, InvParts, PTL

LEMMA FinishKeepsInv ==
    ASSUME WorkerInv, NEW e \in running, Finish(e)
    PROVE  WorkerInv'
<1>1. Bookkeeping /\ LostAreAllowed
  BY InvParts
<1>2. QueueInv'
  BY <1>1, NextKeepsInv DEF Finish, Next, Bookkeeping
<1>3. busy' \subseteq Jobs
  BY <1>1 DEF Finish, Bookkeeping, StateIsTyped
<1>4. Bookkeeping'
  BY <1>1, <1>2, <1>3, AssignedIsSound DEF Finish
<1>5. running \ {e} \subseteq running'
  BY DEF Finish, Settle, Drain
<1>6. DOMAIN work = running /\ work[e].stage = "settled"
  BY <1>1, BookkeepingByVariable DEF EachVariableIsSound, Finish, At
<1>7. \A f \in running \ {e} : work'[f] = work[f]
  BY <1>5, <1>6 DEF Finish, Assigned
<1>8. Lost' \subseteq Lost
  BY <1>5, <1>6, <1>7 DEF Lost, Finish
<1>9. /\ LossesAllowed \in Nat /\ LossesAllowed' \in Nat
      /\ LossesAllowed <= LossesAllowed'
  BY <1>1, PlacesAreSound, AllowanceOfStep DEF Finish
<1>10. LostAreAllowed'
  BY <1>1, <1>8, <1>9, LossIsAllowed DEF LostAreAllowed
<1> QED BY <1>4, <1>10, InvParts, PTL

\* CheckReporter.busy.
LEMMA PostBusyKeepsInv ==
    ASSUME WorkerInv, NEW job \in busy, PostBusy(job)
    PROVE  WorkerInv'
<1>1. Bookkeeping /\ LostAreAllowed
  BY InvParts
<1>2. EachVariableIsSound
  BY <1>1, BookkeepingByVariable
<1>3. UNCHANGED faults \/ \E name : Fault(name)
  BY DEF PostBusy
<1>4. /\ LossesAllowed \in Nat /\ LossesAllowed' \in Nat
      /\ LossesAllowed <= LossesAllowed' /\ faults' \in Seq(Faults)
  BY <1>2, <1>3, AllowanceOfStep DEF EachVariableIsSound
<1>5. QueueInv' /\ running' = running /\ work' = work /\ cache' = cache
      /\ job \in Jobs /\ busy' \subseteq Jobs
  BY <1>2, StutterKeepsInv DEF PostBusy, EachVariableIsSound, vars
<1> DEFINE new == RunFor(job, "busy", 0, "completed", Busy(job))
<1>6. Busy(job) \in Results /\ Busy(job).inputs = Inputs(job)
  BY <1>5 DEF Busy, Result, Results
<1>7. /\ ChecksAreSound(runs \cup {new}) /\ Cardinality(runs) \in Nat
      /\ Cardinality(runs \cup {new}) = Cardinality(runs) + 1
      /\ new.id = Cardinality(runs) + 1
  BY <1>2, <1>5, <1>6, NewRunIsSound DEF EachVariableIsSound
<1>8. runs' = runs \cup {new} \/ runs' = runs
  BY DEF PostBusy
<1>9. new.status = "completed"
  BY DEF RunFor
<1> HIDE DEF new
<1>10. ChecksAreSound(runs') /\ Cardinality(runs) <= Cardinality(runs')
  <2>1. CASE runs' = runs \cup {new}
    BY <1>7, <2>1
  <2>2. CASE runs' = runs
    BY <1>2, <1>7, <2>2 DEF EachVariableIsSound
  <2> QED BY <1>8, <2>1, <2>2
<1>11. \A e \in running : PlaceIsSound(e, work[e], runs')
  <2> SUFFICES ASSUME NEW e \in running PROVE PlaceIsSound(e, work[e], runs')
    OBVIOUS
  <2>1. PlaceIsSound(e, work[e], runs)
    BY <1>2 DEF EachVariableIsSound
  <2>2. work[e].run \in Nat /\ Cardinality(runs') \in Nat
    BY <1>10, <2>1, FS_CardinalityType DEF PlaceIsSound, Place, ChecksAreSound
  <2>3. work[e].run <= Cardinality(runs') /\ new.id # work[e].run
    BY <1>7, <1>10, <2>1, <2>2 DEF PlaceIsSound
  <2> QED BY <1>8, <2>1, <2>3 DEF PlaceIsSound
<1>12. EachVariableIsSound'
  BY <1>2, <1>4, <1>5, <1>10, <1>11 DEF EachVariableIsSound, CacheIsSound
<1>13. Lost' \subseteq Lost
  BY <1>5, <1>8, <1>9 DEF Lost
<1>14. LostAreAllowed'
  BY <1>1, <1>4, <1>13, LossIsAllowed DEF LostAreAllowed
<1> QED BY <1>12, <1>14, BookkeepingByVariable, InvParts, PTL

\* A restart loses the runs of the running jobs, at most Concurrency of them.
LEMMA RestartKeepsInv ==
    ASSUME WorkerInv, Restart
    PROVE  WorkerInv'
<1>1. Bookkeeping /\ LostAreAllowed
  BY InvParts
<1>2. EachVariableIsSound
  BY <1>1, BookkeepingByVariable
<1>3. /\ pending' = {} /\ running' = {} /\ seen' = {} /\ waiters' = {}
      /\ work' = <<>> /\ busy' = {} /\ cache' = {}
      /\ arrivals' = arrivals /\ runs' = runs /\ Fault("restart")
  BY DEF Restart
<1>4. /\ LossesAllowed \in Nat /\ LossesAllowed' \in Nat
      /\ LossesAllowed + Concurrency <= LossesAllowed' /\ faults' \in Seq(Faults)
  BY <1>2, <1>3, LossesCount, AllowanceGrows DEF EachVariableIsSound
<1>5. QueueInv'
  <2>1. Cardinality({}) = 0 /\ IsFiniteSet({})
    BY FS_EmptySet
  <2> QED BY <1>2, <1>3, <2>1, QueueAssumption
       DEF EachVariableIsSound, QueueInv, TypeOK, Limits, StartsInOrder,
           WaitingIsRemembered, DuplicatesAreFarApart, NoWaiterWhenIdle, TicketsArePast,
           SeenEndsWithWaiting, ForgottenIsOld
<1>6. EachVariableIsSound'
  BY <1>2, <1>3, <1>4, <1>5 DEF EachVariableIsSound, CacheIsSound
<1> DEFINE attended == {r \in runs : \E e \in running : r.id = work[e].run}
           ids == {work[e].run : e \in running}
           f == [e \in running |-> work[e].run]
           g == [r \in attended |-> r.id]
<1>7. IsFiniteSet(running) /\ Cardinality(running) <= Concurrency
  BY <1>2 DEF EachVariableIsSound, QueueInv, Limits
<1>8. f \in Surjection(running, ids)
  BY DEF Surjection
<1>9. g \in Injection(attended, ids)
  BY <1>2 DEF Injection, IsInjective, EachVariableIsSound, ChecksAreSound
<1> HIDE DEF f, g, attended, ids
<1>10. IsFiniteSet(ids) /\ Cardinality(ids) <= Cardinality(running)
  BY <1>7, <1>8, FS_Surjection
<1>11. IsFiniteSet(attended) /\ Cardinality(attended) <= Cardinality(ids)
  BY <1>9, <1>10, FS_Injection
<1>12. Lost' \subseteq Lost \cup attended
  BY <1>3 DEF Lost, attended
<1>13. IsFiniteSet(Lost)
  <2>1. IsFiniteSet(runs) /\ Lost \in SUBSET runs
    BY <1>2 DEF EachVariableIsSound, ChecksAreSound, Lost
  <2> QED BY <2>1, FS_Subset
<1>14. /\ IsFiniteSet(Lost \cup attended) /\ IsFiniteSet(Lost \cap attended)
       /\ Cardinality(Lost \cup attended)
            = Cardinality(Lost) + Cardinality(attended) - Cardinality(Lost \cap attended)
  <2>1. Lost \cap attended \in SUBSET Lost
    OBVIOUS
  <2>2. IsFiniteSet(Lost \cap attended)
    BY <1>13, <2>1, FS_Subset
  <2> QED BY <1>11, <1>13, <2>2, FS_Union
<1>15. IsFiniteSet(Lost') /\ Cardinality(Lost') <= Cardinality(Lost \cup attended)
  BY <1>12, <1>14, FS_Subset
<1> DEFINE a == Cardinality(Lost')
           b == Cardinality(Lost \cup attended)
           c == Cardinality(Lost)
           d == Cardinality(attended)
           i == Cardinality(Lost \cap attended)
           k == Cardinality(ids)
           n == Cardinality(running)
<1>16. a \in Nat /\ b \in Nat /\ c \in Nat /\ d \in Nat /\ i \in Nat /\ k \in Nat /\ n \in Nat
  BY <1>7, <1>10, <1>11, <1>13, <1>14, <1>15, FS_CardinalityType
<1>17. a <= b /\ b = c + d - i /\ d <= k /\ k <= n /\ n <= Concurrency /\ c <= LossesAllowed
  BY <1>1, <1>7, <1>10, <1>11, <1>14, <1>15 DEF LostAreAllowed
<1> HIDE DEF a, b, c, d, i, k, n
<1>18. a <= LossesAllowed'
  BY <1>4, <1>16, <1>17, QueueAssumption
<1>19. LostAreAllowed'
  BY <1>18 DEF a, LostAreAllowed
<1> QED BY <1>6, <1>19, BookkeepingByVariable, InvParts, PTL

LEMMA WorkerNextKeepsInv ==
    ASSUME WorkerInv, [WorkerNext]_appVars
    PROVE  WorkerInv'
<1>1. CASE \E job \in Jobs : Deliver(job)
  BY <1>1, DeliverKeepsInv
<1>2. CASE \E job \in busy : PostBusy(job)
  BY <1>2, PostBusyKeepsInv
<1>3. ASSUME NEW e \in running, WorkerStep(e)
      PROVE  WorkerInv'
  BY <1>3, StepKeepsInv, FinishKeepsInv
<1>4. CASE Restart
  BY <1>4, RestartKeepsInv
<1>5. CASE UNCHANGED appVars
  <2>1. EachVariableIsSound /\ LostAreAllowed
    BY InvParts, BookkeepingByVariable
  <2>2. UNCHANGED vars /\ UNCHANGED <<work, runs, busy, cache, faults>>
    BY <1>5 DEF appVars, workerVars
  <2>3. QueueInv' /\ running' = running
    BY <2>1, <2>2, StutterKeepsInv DEF EachVariableIsSound, vars
  <2>4. EachVariableIsSound'
    BY <2>1, <2>2, <2>3 DEF EachVariableIsSound, CacheIsSound
  <2>5. LostAreAllowed'
    BY <2>1, <2>2, <2>3 DEF LostAreAllowed, Lost, LossesAllowed, Losses
  <2> QED BY <2>4, <2>5, BookkeepingByVariable, InvParts, PTL
<1> QED BY <1>1, <1>2, <1>3, <1>4, <1>5 DEF WorkerNext

LEMMA WorkerInitInv == WorkerInit => WorkerInv
<1> SUFFICES ASSUME WorkerInit PROVE WorkerInv
  OBVIOUS
<1>1. Cardinality({}) = 0 /\ IsFiniteSet({})
  BY FS_EmptySet
<1>2. QueueInv /\ running = {}
  BY InitInv DEF WorkerInit, Init
<1>3. ChecksAreSound(runs) /\ CacheIsSound /\ busy = {} /\ work = <<>>
  BY <1>1 DEF WorkerInit, ChecksAreSound, CacheIsSound
<1>4. faults \in Seq(Faults)
  BY DEF WorkerInit
<1>5. EachVariableIsSound
  BY <1>2, <1>3, <1>4 DEF EachVariableIsSound
<1>6. Lost = {}
  BY DEF WorkerInit, Lost
<1>7. LossesAllowed \in Nat
  BY <1>4, AllowanceOfStep, LossesType, OneMoreTime, QueueAssumption DEF LossesAllowed
<1>8. LostAreAllowed
  BY <1>1, <1>6, <1>7 DEF LostAreAllowed
<1> QED BY <1>5, <1>8, BookkeepingByVariable, InvParts

\* The invariant of the worker, the check runs and the cache.
THEOREM WorkerInvariance == WorkerSpec => []WorkerInv
<1>1. WorkerInit => WorkerInv
  BY WorkerInitInv
<1>2. WorkerInv /\ [WorkerNext]_appVars => WorkerInv'
  BY WorkerNextKeepsInv
<1> QED BY <1>1, <1>2, PTL DEF WorkerSpec

\* With the worker, the GitHub calls and the restarts on top of it, the queue
\* still keeps its limits, its order and its duplicate collapse.
THEOREM QueueSurvivesTheWorker == WorkerSpec => []QueueInv
<1>1. WorkerInv => QueueInv
  BY DEF WorkerInv
<1> QED BY <1>1, WorkerInvariance, PTL

\* What a completed run shows is of its own job's inputs, and a re-run gets
\* only clean results from the cache, for all jobs, keys, evictions and faults.
THEOREM RunsShowTheirOwn == WorkerSpec => []OwnCleanOutput
<1>1. WorkerInv => OwnCleanOutput
  BY DEF WorkerInv
<1> QED BY <1>1, WorkerInvariance, PTL

\* Runs that nobody will complete are accounted for by lost replies, failed
\* work directories, failed failure reports and restarts, Concurrency each.
THEOREM LossesAreCaused == WorkerSpec => []LostRunsHaveACause
<1>1. WorkerInv => LostRunsHaveACause
  <2> SUFFICES ASSUME WorkerInv PROVE LostRunsHaveACause
    OBVIOUS
  <2>1. Bookkeeping /\ LostAreAllowed
    BY InvParts
  <2>2. IsFiniteSet(runs) /\ Lost \in SUBSET runs
    BY <2>1 DEF Bookkeeping, RunsAreNumbered, Lost
  <2>3. Unattended \in SUBSET Lost
    BY DEF Unattended, Attended, Lost
  <2>4. IsFiniteSet(Lost)
    BY <2>2, FS_Subset
  <2>5. Cardinality(Unattended) <= Cardinality(Lost) /\ IsFiniteSet(Unattended)
    BY <2>3, <2>4, FS_Subset
  <2>6. Cardinality(Unattended) \in Nat /\ Cardinality(Lost) \in Nat
    BY <2>4, <2>5, FS_CardinalityType
  <2>7. LossesAllowed \in Nat
    BY <2>1, LossesType, OneMoreTime, QueueAssumption
       DEF LossesAllowed, Bookkeeping, StateIsTyped
  <2> QED BY <2>1, <2>5, <2>6, <2>7 DEF LostAreAllowed, LostRunsHaveACause
<1> QED BY <1>1, WorkerInvariance, PTL

-----------------------------------------------------------------------------
(* One claim for a commit                                                  *)

\* Two first runs of one commit are never at work together: the queue keeps
\* them apart as long as jobs end in time.
LEMMA OneWorkerPerCommit ==
    ASSUME QueueInv, JobsEndInTime, DedupeWindow >= MaxPending,
           NEW e \in running, NEW f \in running,
           ~IsRerun(e.job), ~IsRerun(f.job),
           <<e.job.repo, e.job.head>> = <<f.job.repo, f.job.head>>
    PROVE  e = f
<1>1. Key(e.job) = Key(f.job)
  BY DEF Key, IsRerun
<1>2. e.ticket \in Int /\ f.ticket \in Int /\ DedupeWindow \in Int
  BY QueueAssumption DEF QueueInv, TypeOK, Entry
<1>3. ~(e.ticket < f.ticket) /\ ~(f.ticket < e.ticket)
  BY <1>1, <1>2 DEF QueueInv, DuplicatesAreFarApart, JobsEndInTime
<1> QED BY <1>2, <1>3 DEF QueueInv, TicketsArePast

\* Among finitely many runs one is the newest.
LEMMA NewestExists ==
    ASSUME NEW S, IsFiniteSet(S), S # {}, \A r \in S : r.id \in Int
    PROVE  \E r \in S : \A s \in S : s.id <= r.id
<1> DEFINE Aged(r) == [ticket |-> 0 - r.id, run |-> r]
           T == {Aged(r) : r \in S}
           f == [r \in S |-> Aged(r)]
<1>1. f \in Surjection(S, T) /\ T # {}
  BY DEF Surjection
<1>2. \A r \in S : Aged(r) \in T /\ Aged(r).ticket = 0 - r.id /\ Aged(r).ticket \in Int
  OBVIOUS
<1>3. \A x \in T : \E r \in S : x = Aged(r)
  OBVIOUS
<1> HIDE DEF f, T, Aged
<1>4. IsFiniteSet(T)
  BY <1>1, FS_Surjection
<1>5. \A x \in T : x.ticket \in Int
  BY <1>2, <1>3
<1>6. PICK x \in T : \A y \in T : x.ticket <= y.ticket
  BY <1>1, <1>4, <1>5, OldestExists
<1>7. PICK r \in S : x = Aged(r)
  BY <1>3
<1>8. \A s \in S : 0 - r.id <= 0 - s.id
  BY <1>2, <1>6, <1>7
<1> QED BY <1>8

\* A lookup that finds nothing: whatever run of the commit exists, a busy run
\* came after it.
LEMMA NothingFound ==
    ASSUME ChecksAreSound(runs), NEW job, Found(job) = {},
           NEW r \in runs, <<r.repo, r.head>> = <<job.repo, job.head>>, r.by # "busy"
    PROVE  \E b \in runs : /\ b.by = "busy" /\ r.id < b.id
                           /\ <<b.repo, b.head>> = <<job.repo, job.head>>
<1> DEFINE S == {s \in runs : <<s.repo, s.head>> = <<job.repo, job.head>>}
<1>1. S \in SUBSET runs /\ r \in S /\ \A s \in S : s.id \in Int
  BY DEF ChecksAreSound, CheckRun
<1>2. IsFiniteSet(S)
  BY <1>1, FS_Subset DEF ChecksAreSound
<1>3. PICK b \in S : \A s \in S : s.id <= b.id
  BY <1>1, <1>2, NewestExists
<1>4. b \in Latest(job)
  BY <1>3 DEF Latest
<1>5. b.by = "busy"
  BY <1>4 DEF Found
<1>6. b # r /\ r.id <= b.id /\ b.id # r.id
  BY <1>1, <1>3, <1>5 DEF ChecksAreSound
<1> QED BY <1>1, <1>3, <1>5, <1>6

\* A busy run of the commit that is newer than run r.
Hidden(r, check) ==
    \E b \in check : b.by = "busy" /\ r.id < b.id /\ <<b.repo, b.head>> = <<r.repo, r.head>>

ClaimsAreSound(check, active, stages) ==
    /\ \A r, s \in check :
          /\ r.by = "claim" /\ s.by = "claim" /\ r.id < s.id
          /\ <<r.repo, r.head>> = <<s.repo, s.head>>
          => \/ r.ticket = s.ticket
             \/ \E b \in check :
                   /\ b.by = "busy" /\ r.id < b.id /\ b.id < s.id
                   /\ <<b.repo, b.head>> = <<r.repo, r.head>>
    /\ \A e \in active, r \in check :
          /\ stages[e].stage = "create" /\ ~IsRerun(e.job)
          /\ r.by = "claim" /\ <<r.repo, r.head>> = <<e.job.repo, e.job.head>>
          => r.ticket = e.ticket \/ Hidden(r, check)

LEMMA ClaimInvIsSound == ClaimInv <=> ClaimsAreSound(runs, running, work)
BY DEF ClaimInv, ClaimedOnce, ClaimsAreSound, Hidden

SameClaim(c, r) ==
    /\ c.id = r.id /\ c.by = r.by /\ c.ticket = r.ticket
    /\ c.repo = r.repo /\ c.head = r.head

\* A step that creates no run and lets no worker begin to create one.
LEMMA ClaimsFollow ==
    ASSUME ClaimInv,
           \A c \in runs' : \E r \in runs : SameClaim(c, r),
           \A r \in runs : \E c \in runs' : SameClaim(c, r),
           \A e \in running' :
              work'[e].stage = "create" /\ ~IsRerun(e.job)
                 => e \in running /\ work[e].stage = "create"
    PROVE  ClaimInv'
<1>1. ClaimsAreSound(runs, running, work)
  BY ClaimInvIsSound
<1>2. \A r, s \in runs' :
          /\ r.by = "claim" /\ s.by = "claim" /\ r.id < s.id
          /\ <<r.repo, r.head>> = <<s.repo, s.head>>
          => \/ r.ticket = s.ticket
             \/ \E b \in runs' :
                   /\ b.by = "busy" /\ r.id < b.id /\ b.id < s.id
                   /\ <<b.repo, b.head>> = <<r.repo, r.head>>
  <2> SUFFICES ASSUME NEW r \in runs', NEW s \in runs',
                      r.by = "claim", s.by = "claim", r.id < s.id,
                      r.repo = s.repo, r.head = s.head, r.ticket # s.ticket
               PROVE  \E b \in runs' :
                         /\ b.by = "busy" /\ r.id < b.id /\ b.id < s.id
                         /\ <<b.repo, b.head>> = <<r.repo, r.head>>
    OBVIOUS
  <2>1. PICK r0 \in runs, s0 \in runs : SameClaim(r, r0) /\ SameClaim(s, s0)
    OBVIOUS
  <2>2. /\ r0.by = "claim" /\ s0.by = "claim" /\ r0.id < s0.id
        /\ <<r0.repo, r0.head>> = <<s0.repo, s0.head>> /\ r0.ticket # s0.ticket
        /\ r0.id = r.id /\ s0.id = s.id
        /\ <<r0.repo, r0.head>> = <<r.repo, r.head>>
    BY <2>1 DEF SameClaim
  <2>3. PICK b0 \in runs : /\ b0.by = "busy" /\ r0.id < b0.id /\ b0.id < s0.id
                           /\ <<b0.repo, b0.head>> = <<r0.repo, r0.head>>
    BY <1>1, <2>2 DEF ClaimsAreSound
  <2>4. PICK b \in runs' : SameClaim(b, b0)
    OBVIOUS
  <2> QED BY <2>2, <2>3, <2>4 DEF SameClaim
<1>3. \A e \in running', r \in runs' :
          /\ work'[e].stage = "create" /\ ~IsRerun(e.job)
          /\ r.by = "claim" /\ <<r.repo, r.head>> = <<e.job.repo, e.job.head>>
          => r.ticket = e.ticket \/ Hidden(r, runs')
  <2> SUFFICES ASSUME NEW e \in running', NEW r \in runs',
                      work'[e].stage = "create", ~IsRerun(e.job), r.by = "claim",
                      <<r.repo, r.head>> = <<e.job.repo, e.job.head>>, r.ticket # e.ticket
               PROVE  Hidden(r, runs')
    OBVIOUS
  <2>1. PICK r0 \in runs : SameClaim(r, r0)
    OBVIOUS
  <2>2. Hidden(r0, runs)
    <3>1. e \in running /\ work[e].stage = "create"
      OBVIOUS
    <3>2. /\ r0.by = "claim" /\ r0.ticket # e.ticket
          /\ <<r0.repo, r0.head>> = <<e.job.repo, e.job.head>>
      BY <2>1 DEF SameClaim
    <3> QED BY <1>1, <3>1, <3>2 DEF ClaimsAreSound
  <2>3. PICK b0 \in runs : /\ b0.by = "busy" /\ r0.id < b0.id
                           /\ <<b0.repo, b0.head>> = <<r0.repo, r0.head>>
    BY <2>2 DEF Hidden
  <2>4. PICK b \in runs' : SameClaim(b, b0)
    OBVIOUS
  <2> QED BY <2>1, <2>3, <2>4 DEF SameClaim, Hidden
<1>4. ClaimsAreSound(runs', running', work')
  BY <1>2, <1>3 DEF ClaimsAreSound
<1> QED BY <1>4 DEF ClaimInv, ClaimedOnce, ClaimsAreSound, Hidden

\* The two steps that create a run: they do it for the job that looked.
LEMMA CreatingKeepsClaims ==
    ASSUME Bookkeeping, JobsEndInTime, DedupeWindow >= MaxPending, ClaimInv,
           NEW e \in running, work[e].stage = "create",
           runs' = runs \cup {NewRun(e)},
           running' = running,
           \A f \in running : f # e => work'[f] = work[f]
    PROVE  ClaimInv'
<1> DEFINE new == NewRun(e)
<1>1. ClaimsAreSound(runs, running, work)
  BY ClaimInvIsSound
<1>2. /\ new.id = Cardinality(runs) + 1 /\ new.ticket = e.ticket
      /\ new.by = (IF IsRerun(e.job) THEN "rerun" ELSE "claim")
      /\ new.repo = e.job.repo /\ new.head = e.job.head
  BY DEF NewRun, RunFor, NextId
<1>3. /\ \A r \in runs : r.id \in Nat /\ r.id <= Cardinality(runs)
      /\ Cardinality(runs) \in Nat
  BY PlacesAreSound DEF ChecksAreSound
<1>4. QueueInv
  BY DEF Bookkeeping
<1> HIDE DEF new
<1>5. runs' = runs \cup {new}
  BY DEF new
<1>6. \A r, s \in runs' :
          /\ r.by = "claim" /\ s.by = "claim" /\ r.id < s.id
          /\ <<r.repo, r.head>> = <<s.repo, s.head>>
          => \/ r.ticket = s.ticket
             \/ \E b \in runs' :
                   /\ b.by = "busy" /\ r.id < b.id /\ b.id < s.id
                   /\ <<b.repo, b.head>> = <<r.repo, r.head>>
  <2> SUFFICES ASSUME NEW r \in runs', NEW s \in runs',
                      r.by = "claim", s.by = "claim", r.id < s.id,
                      <<r.repo, r.head>> = <<s.repo, s.head>>, r.ticket # s.ticket
               PROVE  \E b \in runs' :
                         /\ b.by = "busy" /\ r.id < b.id /\ b.id < s.id
                         /\ <<b.repo, b.head>> = <<r.repo, r.head>>
    OBVIOUS
  <2>1. r \in runs
    BY <1>2, <1>3, <1>5
  <2>2. CASE s \in runs
    BY <1>1, <1>5, <2>1, <2>2 DEF ClaimsAreSound
  <2>3. CASE s = new
    <3>1. ~IsRerun(e.job) /\ <<r.repo, r.head>> = <<e.job.repo, e.job.head>>
      BY <1>2, <2>3
    <3>2. Hidden(r, runs)
      BY <1>1, <1>2, <2>1, <2>3, <3>1 DEF ClaimsAreSound
    <3> QED BY <1>2, <1>3, <1>5, <2>3, <3>2 DEF Hidden
  <2> QED BY <1>5, <2>2, <2>3
<1>7. \A f \in running', r \in runs' :
          /\ work'[f].stage = "create" /\ ~IsRerun(f.job)
          /\ r.by = "claim" /\ <<r.repo, r.head>> = <<f.job.repo, f.job.head>>
          => r.ticket = f.ticket \/ Hidden(r, runs')
  <2> SUFFICES ASSUME NEW f \in running, NEW r \in runs',
                      work'[f].stage = "create", ~IsRerun(f.job), r.by = "claim",
                      <<r.repo, r.head>> = <<f.job.repo, f.job.head>>
               PROVE  r.ticket = f.ticket \/ Hidden(r, runs')
    OBVIOUS
  <2>1. work[f].stage = "create"
    OBVIOUS
  <2>2. CASE r \in runs
    BY <1>1, <1>5, <2>1, <2>2 DEF ClaimsAreSound, Hidden
  <2>3. CASE r = new
    <3>1. ~IsRerun(e.job) /\ <<e.job.repo, e.job.head>> = <<f.job.repo, f.job.head>>
      BY <1>2, <2>3
    <3>2. e = f
      BY <1>4, <3>1, OneWorkerPerCommit
    <3> QED BY <1>2, <2>3, <3>2
  <2> QED BY <1>5, <2>2, <2>3
<1>8. ClaimsAreSound(runs', running', work')
  BY <1>6, <1>7 DEF ClaimsAreSound
<1> QED BY <1>8 DEF ClaimInv, ClaimedOnce, ClaimsAreSound, Hidden

\* A busy run comes after every claim.
LEMMA BusyKeepsClaims ==
    ASSUME Bookkeeping, ClaimInv, NEW job,
           runs' = runs \cup {RunFor(job, "busy", 0, "completed", Busy(job))},
           UNCHANGED <<running, work>>
    PROVE  ClaimInv'
<1> DEFINE new == RunFor(job, "busy", 0, "completed", Busy(job))
<1>1. ClaimsAreSound(runs, running, work)
  BY ClaimInvIsSound
<1>2. new.by = "busy"
  BY DEF RunFor
<1> HIDE DEF new
<1>3. runs' = runs \cup {new}
  BY DEF new
<1>4. ClaimsAreSound(runs', running', work')
  BY <1>1, <1>2, <1>3 DEF ClaimsAreSound, Hidden
<1> QED BY <1>4 DEF ClaimInv, ClaimedOnce, ClaimsAreSound, Hidden

\* A worker that found nothing may create.
LEMMA LookKeepsClaims ==
    ASSUME Bookkeeping, ClaimInv, NEW e \in running, Look(e)
    PROVE  ClaimInv'
<1>1. ClaimsAreSound(runs, running, work) /\ ChecksAreSound(runs)
  BY ClaimInvIsSound, PlacesAreSound
<1>2. /\ runs' = runs /\ running' = running
      /\ \A f \in running : f # e => work'[f] = work[f]
  BY PlacesAreSound DEF Look, Goto, vars
<1>3. CASE Found(e.job) = {}
  <2>1. \A r \in runs :
          r.by = "claim" /\ <<r.repo, r.head>> = <<e.job.repo, e.job.head>> => Hidden(r, runs)
    <3> SUFFICES ASSUME NEW r \in runs, r.by = "claim",
                        <<r.repo, r.head>> = <<e.job.repo, e.job.head>>
                 PROVE  Hidden(r, runs)
      OBVIOUS
    <3>1. \E b \in runs : /\ b.by = "busy" /\ r.id < b.id
                          /\ <<b.repo, b.head>> = <<e.job.repo, e.job.head>>
      BY <1>1, <1>3, NothingFound
    <3> QED BY <3>1 DEF Hidden
  <2>2. ClaimsAreSound(runs', running', work')
    BY <1>1, <1>2, <2>1 DEF ClaimsAreSound
  <2> QED BY <2>2 DEF ClaimInv, ClaimedOnce, ClaimsAreSound, Hidden
<1>4. CASE Found(e.job) # {}
  <2>1. work'[e].stage = "settled"
    BY <1>4, PlacesAreSound DEF Look, Goto, Place
  <2>2. \A r \in runs : SameClaim(r, r)
    BY DEF SameClaim
  <2> QED BY <1>2, <2>1, <2>2, ClaimsFollow
<1> QED BY <1>3, <1>4

\* A first run starts with the lookup.
LEMMA FreshHasLooked ==
    \A job : Fresh(job).stage = "create" => IsRerun(job)
BY DEF Fresh, IsRerun

\* The other steps of a worker.
LEMMA OthersKeepClaims ==
    ASSUME Bookkeeping, ClaimInv, NEW e \in running, WorkerStep(e),
           ~Look(e), ~Create(e), ~CreateReplyLost(e)
    PROVE  ClaimInv'
<1>1. ASSUME Goto(e, "settled") \/ Goto(e, "prepare") \/ Goto(e, "fail") \/ Goto(e, "analyse")
                 \/ Goto(e, "store"), running' = running
      PROVE  \A f \in running' : work'[f].stage = "create" /\ ~IsRerun(f.job)
                                    => f \in running /\ work[f].stage = "create"
  BY <1>1, PlacesAreSound DEF Goto, Place
<1>2. \A r \in runs : SameClaim(r, r)
  BY DEF SameClaim
<1>3. ASSUME NEW id, NEW result, runs' = Completed(id, result)
      PROVE  /\ \A c \in runs' : \E r \in runs : SameClaim(c, r)
             /\ \A r \in runs : \E c \in runs' : SameClaim(c, r)
  <2> DEFINE Done(r) == IF r.id = id
                        THEN [r EXCEPT !.status = "completed", !.output = result] ELSE r
  <2>1. runs' = {Done(r) : r \in runs}
    BY <1>3 DEF Completed
  <2>2. \A r \in runs : SameClaim(Done(r), r)
    BY PlacesAreSound DEF SameClaim, ChecksAreSound, CheckRun
  <2> HIDE DEF Done
  <2> QED BY <2>1, <2>2
<1>4. CASE NoClient(e) \/ CreateFails(e) \/ Prepare(e) \/ Store(e)
  BY <1>1, <1>2, <1>4, ClaimsFollow DEF NoClient, CreateFails, Prepare, Store, vars
<1>5. CASE Serve(e)
  <2>1. \A f \in running' : work'[f].stage = "create" => f \in running /\ work[f].stage = "create"
    BY <1>5, PlacesAreSound DEF Serve, Goto, Place, vars
  <2> QED BY <1>2, <1>5, <2>1, ClaimsFollow DEF Serve
<1>6. CASE Analyse(e)
  <2>1. \A f \in running' : work'[f].stage = "create" => f \in running /\ work[f].stage = "create"
    BY <1>6, PlacesAreSound DEF Analyse, Goto, Place, vars
  <2> QED BY <1>2, <1>6, <2>1, ClaimsFollow DEF Analyse
<1>7. CASE Repost(e) \/ Complete(e)
  <2>1. running' = running
    BY <1>7 DEF Repost, Complete, vars
  <2>2. Goto(e, "settled") \/ Goto(e, "fail") \/ Goto(e, "store")
    BY <1>7 DEF Repost, Complete, Report
  <2>3. runs' = runs \/ runs' = Completed(work[e].run, work[e].result)
    BY <1>7 DEF Repost, Complete, Report, Update
  <2>4. /\ \A c \in runs' : \E r \in runs : SameClaim(c, r)
        /\ \A r \in runs : \E c \in runs' : SameClaim(c, r)
    BY <1>2, <1>3, <2>3
  <2> QED BY <1>1, <2>1, <2>2, <2>4, ClaimsFollow
<1>8. CASE Fail(e)
  <2>1. running' = running /\ Goto(e, "settled")
    BY <1>8 DEF Fail, vars
  <2>2. runs' = runs \/ runs' = Completed(work[e].run, Failed(e.job))
    BY <1>8 DEF Fail, Update
  <2>3. /\ \A c \in runs' : \E r \in runs : SameClaim(c, r)
        /\ \A r \in runs : \E c \in runs' : SameClaim(c, r)
    BY <1>2, <1>3, <2>2
  <2> QED BY <1>1, <2>1, <2>3, ClaimsFollow
<1>9. CASE Finish(e)
  <2>1. \A f \in running' :
          work'[f] = IF f \in running THEN work[f] ELSE Fresh(f.job)
    BY <1>9, PlacesAreSound DEF Finish, Assigned
  <2>2. \A f \in running' : work'[f].stage = "create" /\ ~IsRerun(f.job)
                               => f \in running /\ work[f].stage = "create"
    BY <2>1, FreshHasLooked
  <2> QED BY <1>2, <1>9, <2>2, ClaimsFollow DEF Finish
<1> QED BY <1>4, <1>5, <1>6, <1>7, <1>8, <1>9 DEF WorkerStep

LEMMA WorkerNextKeepsClaims ==
    ASSUME WorkerInv, JobsEndInTime, DedupeWindow >= MaxPending, ClaimInv,
           [WorkerNext]_appVars
    PROVE  ClaimInv'
<1>1. Bookkeeping /\ DOMAIN work = running
  BY InvParts, BookkeepingByVariable DEF EachVariableIsSound
<1>2. \A r \in runs : SameClaim(r, r)
  BY DEF SameClaim
<1>3. ASSUME NEW job \in Jobs, Deliver(job) PROVE ClaimInv'
  <2>1. \A f \in running' :
          work'[f] = IF f \in running THEN work[f] ELSE Fresh(f.job)
    BY <1>1, <1>3 DEF Deliver, Assigned
  <2>2. \A f \in running' : work'[f].stage = "create" /\ ~IsRerun(f.job)
                               => f \in running /\ work[f].stage = "create"
    BY <2>1, FreshHasLooked
  <2> QED BY <1>2, <1>3, <2>2, ClaimsFollow DEF Deliver
<1>4. ASSUME NEW job \in busy, PostBusy(job) PROVE ClaimInv'
  <2>1. UNCHANGED <<running, work>>
    BY <1>4 DEF PostBusy, vars
  <2>2. CASE UNCHANGED runs
    BY <1>2, <2>1, <2>2, ClaimsFollow
  <2>3. CASE runs' = runs \cup {RunFor(job, "busy", 0, "completed", Busy(job))}
    BY <1>1, <2>1, <2>3, BusyKeepsClaims
  <2> QED BY <1>4, <2>2, <2>3 DEF PostBusy
<1>5. ASSUME NEW e \in running, WorkerStep(e) PROVE ClaimInv'
  <2>1. CASE Look(e)
    BY <1>1, <2>1, LookKeepsClaims
  <2>2. CASE Create(e) \/ CreateReplyLost(e)
    <3>1. /\ work[e].stage = "create" /\ running' = running
          /\ runs' = runs \cup {NewRun(e)}
          /\ \A f \in running : f # e => work'[f] = work[f]
      BY <1>1, <2>2 DEF Create, CreateReplyLost, At, Goto, vars
    <3> QED BY <1>1, <3>1, CreatingKeepsClaims
  <2> QED BY <1>1, <1>5, <2>1, <2>2, OthersKeepClaims
<1>6. CASE Restart
  <2>1. running' = {} /\ runs' = runs
    BY <1>6 DEF Restart
  <2> QED BY <1>2, <2>1, ClaimsFollow
<1>7. CASE UNCHANGED appVars
  <2>1. UNCHANGED <<running, runs, work>>
    BY <1>7 DEF appVars, vars, workerVars
  <2> QED BY <1>2, <2>1, ClaimsFollow
<1> QED BY <1>3, <1>4, <1>5, <1>6, <1>7 DEF WorkerNext

\* Two first runs of one commit: however lookups and creations of different
\* jobs interleave, and whatever calls fail or are repeated, they come from one
\* job, unless a busy run hid the first.  It rests on two things the code sets
\* up: the dedupe window is no smaller than the queue (1000 and 500), and no
\* job runs while the whole window passes it by.
THEOREM OneClaimPerCommit ==
    DedupeWindow >= MaxPending => (WorkerSpec /\ []JobsEndInTime => []ClaimedOnce)
<1> SUFFICES ASSUME DedupeWindow >= MaxPending
             PROVE  WorkerSpec /\ []JobsEndInTime => []ClaimedOnce
  OBVIOUS
<1>1. WorkerInit => ClaimInv
  BY DEF WorkerInit, ClaimInv, ClaimedOnce
<1>2. WorkerInv /\ JobsEndInTime /\ ClaimInv /\ [WorkerNext]_appVars => ClaimInv'
  BY WorkerNextKeepsClaims
<1>3. ClaimInv => ClaimedOnce
  BY DEF ClaimInv
<1> QED BY <1>1, <1>2, <1>3, WorkerInvariance, PTL DEF WorkerSpec
=============================================================================
