--------------------------- MODULE IsolatedAdapter ---------------------------
(* runAdapterIsolated (packages/core/src/engine/isolated.ts): the main thread   *)
(* starts a worker thread for one adapter, follows its messages with a          *)
(* watchdog, salvages what it can when the thread fails, and settles once.      *)
(*                                                                              *)
(* The thread's messages arrive in order; its 'error' event, which travels on   *)
(* another port, may overtake them; 'exit' comes after them. The main thread is *)
(* taken to handle what has arrived before time goes on.                        *)
EXTENDS AdapterRun

CONSTANTS
    Grace,      \* WATCHDOG_GRACE_MS, in units of time
    MaxUsages   \* OUTCOME_CAPS.maxUsages

ASSUME IsolatedAssumption == Grace \in Nat \ {0} /\ MaxUsages \in Nat

VARIABLES
    stage,        \* the stage the watchdog times, "run" before the first
    watchdog,     \* time left, or Off
    listed,       \* the dependencies of the "usage-start" message, or None
    salvage,      \* usages of the "usage-progress" messages
    beforeNotes,  \* the outcome of the "partial" message, or None
    completed,    \* the outcome the thread posted, or None
    result        \* what the promise resolved to, or None

mainVars == <<stage, watchdog, listed, salvage, beforeNotes, completed, result>>
vars     == <<threadVars, mainVars>>

Off  == -1
None == [none |-> TRUE]

settled == result # None

WatchdogTime(s) == Grace + (IF s = "usage" THEN UsageTime ELSE StageTime)

Init ==
    /\ ThreadInit
    /\ stage = "run" /\ watchdog = WatchdogTime("run")
    /\ listed = None /\ salvage = {} /\ beforeNotes = None
    /\ completed = None /\ result = None

-----------------------------------------------------------------------------
\* The first MaxUsages usages, in the order of the dependencies.
FirstUsages(U) == {d \in U : Cardinality({e \in U : e < d}) < MaxUsages}

\* capOutcome: a cut list of usages is no complete analysis.
Capped(o) ==
    IF Cardinality(o.usages) <= MaxUsages THEN o
    ELSE [WithFinding(o, "cap") EXCEPT !.usages = FirstUsages(o.usages),
                                       !.usageAnalysed = FALSE,
                                       !.usageIncomplete = TRUE]

\* Slip: what was salvaged of the usage stage goes before the notes stage.
SlipFailed ==
    CASE listed # None ->
           Capped([EmptyOutcome EXCEPT !.detected = listed.detected, !.deps = listed.deps,
                                       !.usages = salvage, !.usageIncomplete = TRUE,
                                       !.findings = {stage}])
      [] OTHER -> WithFinding(EmptyOutcome, stage)

\* What is reported of a thread that failed in the stage the main thread knows.
Failed ==
    CASE stage = "notes" /\ beforeNotes # None -> WithFinding(Capped(beforeNotes), stage)
      [] stage = "usage" /\ listed # None ->
           Capped([EmptyOutcome EXCEPT !.detected = listed.detected, !.deps = listed.deps,
                                       !.usages = salvage, !.usageIncomplete = TRUE,
                                       !.findings = {stage}])
      [] OTHER -> WithFinding(EmptyOutcome, stage)

\* The first call of finish settles the promise and stops the watchdog.
Resolve(o) == result' = IF settled THEN result ELSE o
Finish(o)  == Resolve(o) /\ watchdog' = IF settled THEN watchdog ELSE Off

threadButInbox == <<thread, running, over, timer, aborted, timedOut, usageVars, outcome>>
memory == <<stage, listed, salvage, beforeNotes>>

\* Slip: the watchdog is stopped and not armed again.
SlipOnStage(m) ==
    /\ stage' = m.stage /\ watchdog' = Off
    /\ UNCHANGED <<listed, salvage, beforeNotes, completed, result>>

OnStage(m) ==
    /\ stage' = m.stage /\ watchdog' = WatchdogTime(m.stage)
    /\ UNCHANGED <<listed, salvage, beforeNotes, completed, result>>

OnUsageStart(m) ==
    /\ listed' = m.outcome
    /\ UNCHANGED <<stage, watchdog, salvage, beforeNotes, completed, result>>

OnUsageProgress(m) ==
    /\ salvage' = IF Cardinality(salvage) < MaxUsages THEN salvage \cup {m.dep} ELSE salvage
    /\ UNCHANGED <<stage, watchdog, listed, beforeNotes, completed, result>>

OnPartial(m) ==
    /\ beforeNotes' = m.outcome
    /\ UNCHANGED <<stage, watchdog, listed, salvage, completed, result>>

\* The outcome waits for the thread's exit; the watchdog goes on.
OnOutcome(m) ==
    /\ completed' = Capped(m.outcome)
    /\ UNCHANGED <<stage, watchdog, listed, salvage, beforeNotes, result>>

\* The thread is not stopped: its own end is near.
OnRunError ==
    /\ Finish(Failed)
    /\ UNCHANGED <<memory, completed>>

Receive ==
    /\ inbox # <<>>
    /\ inbox' = Tail(inbox)
    /\ LET m == Head(inbox)
       IN  \/ m.type = "stage"          /\ OnStage(m)
           \/ m.type = "usage-start"    /\ OnUsageStart(m)
           \/ m.type = "usage-progress" /\ OnUsageProgress(m)
           \/ m.type = "partial"        /\ OnPartial(m)
           \/ m.type = "outcome"        /\ OnOutcome(m)
           \/ m.type = "run-error"      /\ OnRunError
    /\ UNCHANGED threadButInbox

\* worker.terminate(), as far as the main thread is concerned at once.
Kill == thread' = IF thread \in {"up", "stalled"} THEN "killed" ELSE thread

threadButState == <<running, over, timer, aborted, timedOut, usageVars, outcome, inbox>>

OnError ==
    /\ thread = "crashed"
    /\ thread' = "killed"
    /\ Finish(Failed)
    /\ UNCHANGED <<threadButState, memory, completed>>

OnExit ==
    /\ thread \in {"exit 0", "exit 1"} /\ inbox = <<>> /\ ~settled
    /\ Finish(IF thread = "exit 0" /\ completed # None THEN completed ELSE Failed)
    /\ UNCHANGED <<threadVars, memory, completed>>

WatchdogFires ==
    /\ watchdog = 0
    /\ Kill
    /\ Resolve(Failed) /\ watchdog' = Off
    /\ UNCHANGED <<threadButState, memory, completed>>

\* A unit of time passes once both threads have done what is due.
Tick ==
    /\ inbox = <<>> /\ watchdog # 0 /\ ~ThreadIsDue
    /\ thread \notin {"crashed"}
    /\ thread \in {"exit 0", "exit 1"} => settled
    /\ watchdog' = IF watchdog = Off THEN Off ELSE watchdog - 1
    /\ ThreadTimePasses
    /\ UNCHANGED <<thread, running, over, aborted, timedOut, usageVars, outcome, inbox,
                   memory, completed, result>>

Next ==
    \/ ThreadNext /\ UNCHANGED mainVars
    \/ Receive \/ OnError \/ OnExit \/ WatchdogFires \/ Tick

Spec == Init /\ [][Next]_vars

\* Event loops serve what is due, and time passes: also when a thread stalls
\* and resumes over and over. Adapter code owes nothing.
Fairness ==
    /\ WF_vars(Receive) /\ WF_vars(OnError) /\ WF_vars(OnExit) /\ WF_vars(WatchdogFires)
    /\ WF_vars(UsageEnds /\ UNCHANGED mainVars)
    /\ WF_vars((\E s \in Stages : StageTimesOut(s)) /\ UNCHANGED mainVars)
    /\ WF_vars(~Busy /\ ThreadEnds /\ UNCHANGED mainVars)
    /\ SF_vars(Tick)

FairSpec == Spec /\ Fairness

-----------------------------------------------------------------------------
Outcomes ==
    [detected : BOOLEAN, deps : 0 .. MaxDeps, graph : BOOLEAN, usages : SUBSET Deps,
     usageAnalysed : BOOLEAN, usageIncomplete : BOOLEAN, notes : BOOLEAN,
     findings : SUBSET (Stages \cup {"api", "cap", "run"})]

\* The types of the variables.
AdapterTypeOK ==
    /\ thread \in {"up", "stalled", "crashed", "exit 0", "exit 1", "killed"}
    /\ running \subseteq Stages /\ timedOut \subseteq Stages
    /\ timer \in [Stages -> 0 .. (IF StageTime > UsageTime THEN StageTime ELSE UsageTime)]
    /\ {over, aborted, laneThrew} \subseteq BOOLEAN
    /\ calls \subseteq Deps /\ next \in 1 .. MaxDeps + 1
    /\ used \subseteq returned /\ returned \subseteq Deps
    /\ outcome \in Outcomes
    /\ stage \in Stages \cup {"run"} /\ watchdog \in Off .. Grace + StageTime + UsageTime
    /\ salvage \subseteq Deps
    /\ {listed, beforeNotes, completed, result} \subseteq Outcomes \cup {None}

\* "Not used" is concluded from a completed usage analysis only. A result is
\* marked so only if the call of every listed dependency returned, and it holds
\* every usage found: no abort, error of one lane, salvage or cut of the list
\* passes for a complete analysis (run-adapter.ts:349-381, isolated.ts:145-157).
AnalysedMeansEveryCall ==
    settled /\ result.usageAnalysed =>
        /\ 1 .. result.deps \subseteq returned
        /\ result.usages = used

\* A result without a finding has lost nothing: the thread reached its end, and
\* an ecosystem that was detected has its listing and each analysis the adapter
\* is capable of, the notes included, which an abort skips without a word.
LossIsReported ==
    settled /\ result.findings = {} =>
        /\ over /\ result = outcome
        /\ result.detected =>
             /\ "graph" \in Capabilities => result.graph
             /\ "usage" \in Capabilities => result.usageAnalysed
             /\ "notes" \in Capabilities => result.notes

\* A usage analysis that is called complete had every call for every dependency
\* answered, and one that lost answers says so (run-adapter.ts:349-381,
\* isolated.ts:145-157).
UsageIsAccountedFor == AnalysedMeansEveryCall /\ LossIsReported

\* A late stage costs no fact of an earlier one.  A usage stage that fails,
\* wherever that is noticed, keeps the ecosystem and the whole listing, and
\* reports no usage that no call returned.  Notes that hang, throw or kill the
\* thread cost the notes and nothing else: every other fact is the thread's own.
LateStagesCostNothing ==
    /\ settled /\ "usage" \in result.findings =>
         /\ result.detected /\ result.deps = outcome.deps
         /\ result.usages \subseteq used
    /\ settled /\ "notes" \in result.findings =>
         LET own == Capped(outcome)
         IN  /\ result = [own EXCEPT !.notes = result.notes, !.findings = result.findings]
             /\ own.findings \subseteq result.findings

\* Every isolated adapter settles, and once: a stalled, hung or dead thread, a
\* lost outcome or a call left behind ends with the watchdog at the latest, and
\* what the promise resolved to stays, whatever the thread, its events and a
\* watchdog armed by a late message still do.
EveryRunSettlesOnce == <>settled /\ [][settled => result' = result]_vars

\* A worker whose wait timed out "reports its own stage timeout (keeping earlier
\* stage facts) instead of being killed mid-report" (isolated.ts:533-536): if the
\* watchdog still ends such a thread, what it had reported of the ecosystem and
\* its dependencies is in the result. A call left behind that keeps the thread's
\* event loop alive breaks this: the outcome waits for the exit, the watchdog
\* fires first, and its result drops the listing, the graph and the notes.
ReportedFactsAreKept ==
    [][WatchdogFires /\ ~settled /\ completed # None =>
         /\ result'.detected = completed.detected
         /\ result'.deps = completed.deps]_vars

-----------------------------------------------------------------------------
(* What these rest on                                                      *)

Messages ==
    [type : {"stage"}, stage : Stages] \cup [type : {"usage-progress"}, dep : Deps]
    \cup [type : {"usage-start", "partial", "outcome"}, outcome : Outcomes]
    \cup [type : {"run-error"}]

RunTypeOK ==
    /\ thread \in {"up", "stalled", "crashed", "exit 0", "exit 1", "killed"}
    /\ over \in BOOLEAN /\ aborted \in BOOLEAN /\ laneThrew \in BOOLEAN
    /\ calls \subseteq Deps /\ next \in 1 .. MaxDeps + 1
    /\ used \subseteq returned /\ returned \subseteq Deps
    /\ outcome \in Outcomes /\ inbox \in Seq(Messages)
    /\ stage \in Stages \cup {"run"} /\ salvage \subseteq Deps
    /\ listed \in Outcomes \cup {None} /\ beforeNotes \in Outcomes \cup {None}

\* The usages of an outcome: all that were found when it says so, and some of
\* them beside the whole listing when the stage failed.
UsagesAreRight(o) ==
    /\ o.usageAnalysed => calls = {} /\ 1 .. o.deps \subseteq returned /\ o.usages = used
    /\ "usage" \in o.findings => o.detected /\ o.deps = outcome.deps /\ o.usages \subseteq used

\* An outcome without a finding lacks no analysis.
Lacks(o) ==
    {c \in Capabilities : \/ c = "graph" /\ ~o.graph
                          \/ c = "usage" /\ ~o.usageAnalysed
                          \/ c = "notes" /\ ~o.notes}
Full(o) == o.findings = {} /\ o.detected => Lacks(o) = {}

\* The listing is known for good; and the outcome is complete but for the notes.
Analyses == {"graph", "usage"}
PastListing == running \subseteq Analyses \cup {"notes"} /\ (running = {} => over)
WithNotes(o) == {o, [o EXCEPT !.notes = TRUE], WithFinding(o, "notes")}
BeforeNotes(o) ==
    \/ running = {"notes"} /\ outcome = o
    \/ running = {} /\ over /\ outcome \in WithNotes(o)

\* The stages of the thread, and what its outcome holds in each.
StagesInv ==
    /\ running \in {{}, {"detection"}, {"listing"}, {"notes"}} \cup SUBSET Analyses
    /\ over => running = {}
    /\ (running = {"detection"} \/ (running = {} /\ ~over)) => outcome = EmptyOutcome
    /\ running = {"listing"} => outcome = [EmptyOutcome EXCEPT !.detected = TRUE]
    /\ aborted => outcome.findings # {}
    /\ PastListing /\ ~over =>
         outcome.detected /\ (outcome.findings = {} => Lacks(outcome) \subseteq running \cup {"notes"})

\* A dependency was answered, is being asked about, or will be by a lane; unless
\* a lane threw.
NoneIsPassedOver ==
    "usage" \in running /\ ~laneThrew =>
        \A d \in 1 .. outcome.deps : d \in returned \cup calls \/ (d >= next /\ calls # {})

\* A message says what was so and still is, and is preceded by those it needs.
IsTrue(m) ==
    /\ m.type = "usage-start" => m.outcome.detected /\ m.outcome.deps = outcome.deps /\ PastListing
    /\ m.type = "usage-progress" => m.dep \in used
    /\ m.type = "partial" => BeforeNotes(m.outcome)
    /\ m.type = "outcome" => over /\ m.outcome = outcome /\ Full(outcome)
    /\ m.type = "run-error" => over
Needs(m) ==
    CASE m = StageMsg("usage") -> "usage-start" [] m = StageMsg("notes") -> "partial" [] OTHER -> "nothing"
Knows(type) ==
    \/ type = "nothing"
    \/ type = "usage-start" /\ listed # None
    \/ type = "partial" /\ beforeNotes # None
InboxInv ==
    /\ \A i \in 1 .. Len(inbox) : IsTrue(inbox[i])
    /\ \A i \in 1 .. Len(inbox) :
          Knows(Needs(inbox[i])) \/ \E j \in 1 .. i - 1 : inbox[j].type = Needs(inbox[i])

\* What the main thread knows.
MainInv ==
    /\ listed # None => listed.detected /\ listed.deps = outcome.deps /\ PastListing
    /\ salvage \subseteq used
    /\ beforeNotes # None => BeforeNotes(beforeNotes)
    /\ stage = "usage" => listed # None
    /\ stage = "notes" => beforeNotes # None
    /\ completed # None => over /\ completed = Capped(outcome) /\ Full(outcome)

\* A result is of a thread whose outcome changes no more.
ResultInv ==
    settled =>
        /\ over \/ thread \notin {"up", "stalled"}
        /\ UsagesAreRight(result)
        /\ LossIsReported /\ LateStagesCostNothing

AdapterInv ==
    RunTypeOK /\ UsagesAreRight(outcome) /\ StagesInv /\ NoneIsPassedOver /\ InboxInv /\ MainInv /\ ResultInv
=============================================================================
