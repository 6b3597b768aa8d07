------------------------------ MODULE AdapterRun ------------------------------
(* The worker thread of one isolated adapter: adapter-worker.ts and the stages *)
(* of runAdapter (packages/core/src/engine/run-adapter.ts). Detection, the     *)
(* dependency listing, then the graph beside the usage calls, then the notes.  *)
(* The stages share one AbortController; each has a timer; what the main       *)
(* thread must know is posted to its inbox.                                    *)
(*                                                                             *)
(* Dependencies are numbered in listing order. A usage call of a dependency    *)
(* yields at most one usage, named by the dependency. Texts, evidence and the  *)
(* completeness of single references are left out.                             *)
EXTENDS Integers, Sequences, FiniteSets

CONSTANTS
    MaxDeps,        \* bound: the longest dependency listing
    Concurrency,    \* usageConcurrency: usage calls in flight (8 by default)
    Capabilities,   \* which of "graph", "usage", "notes" the adapter has
    StageTime,      \* adapterTimeoutMs, in units of time
    UsageTime       \* usageTimeoutMs, in units of time

ASSUME RunAssumption ==
    /\ MaxDeps \in Nat
    /\ {Concurrency, StageTime, UsageTime} \subseteq Nat \ {0}
    /\ Capabilities \subseteq {"graph", "usage", "notes"}

VARIABLES
    thread,     \* "up", "stalled" in synchronous code, "crashed", "exit 0", "exit 1" or "killed"
    running,    \* the stages whose result is awaited; none while the module loads
    over,       \* main() has returned or thrown
    timer,      \* time left to each running stage
    aborted,    \* the signal of the shared AbortController
    timedOut,   \* stages that lost against their timer: their call may go on
    calls,      \* dependencies whose usage call is in flight
    next,       \* the next dependency a usage lane takes
    laneThrew,  \* a usage lane ended with an error
    returned,   \* dependencies whose usage call returned
    used,       \* those of them for which it found a usage
    outcome,    \* the AdapterOutcome under construction
    inbox       \* messages the main thread has not received

threadVars == <<thread, running, over, timer, aborted, timedOut, calls, next,
                laneThrew, returned, used, outcome, inbox>>

Stages == {"detection", "listing", "graph", "usage", "notes"}
Deps   == 1 .. MaxDeps

Budget(s) == IF s = "usage" THEN UsageTime ELSE StageTime
NoTimers  == [s \in Stages |-> 0]

\* What an adapter is reported to have found; findings are named by the stage
\* that failed.
EmptyOutcome ==
    [detected |-> FALSE, deps |-> 0, graph |-> FALSE, usages |-> {},
     usageAnalysed |-> FALSE, usageIncomplete |-> FALSE, notes |-> FALSE,
     findings |-> {}]

Up == thread = "up"

\* Adapter code can still run: the main function is not over, or it left a
\* call behind that nobody awaits any more.
Busy == ~over \/ calls # {} \/ timedOut # {}

StageMsg(s) == [type |-> "stage", stage |-> s]

-----------------------------------------------------------------------------
ThreadInit ==
    /\ thread = "up" /\ running = {} /\ over = FALSE /\ timer = NoTimers
    /\ aborted = FALSE /\ timedOut = {} /\ calls = {} /\ next = 1 /\ laneThrew = FALSE
    /\ returned = {} /\ used = {} /\ outcome = EmptyOutcome /\ inbox = <<>>

Await(stages) ==
    /\ running' = stages
    /\ timer' = [s \in Stages |-> IF s \in stages THEN Budget(s) ELSE 0]
    /\ UNCHANGED over

\* main() ends: with the outcome, or with the error of a malformed adapter.
End(msgs) ==
    /\ running' = {} /\ timer' = NoTimers /\ over' = TRUE
    /\ inbox' = inbox \o msgs

Report(o) ==
    /\ outcome' = o
    /\ End(<<[type |-> "outcome", outcome |-> o]>>)

RunError == End(<<[type |-> "run-error"]>>) /\ UNCHANGED outcome

WithFinding(o, s) == [o EXCEPT !.findings = @ \cup {s}]

usageVars == <<calls, next, laneThrew, returned, used>>

\* The module is imported and checked, then its API version compared.
Load ==
    /\ Up /\ ~over /\ running = {}
    /\ \/ Await({"detection"}) /\ inbox' = Append(inbox, StageMsg("detection"))
          /\ UNCHANGED outcome
       \/ Report(WithFinding(outcome, "api"))
       \/ RunError
    /\ UNCHANGED <<thread, aborted, timedOut, usageVars>>

\* detect() returned: not this ecosystem, or go on to the listing. Reading a
\* malformed answer throws outside of every stage.
DetectionReturns ==
    /\ Up /\ "detection" \in running
    /\ \/ Report(outcome)
       \/ /\ outcome' = [outcome EXCEPT !.detected = TRUE]
          /\ Await({"listing"})
          /\ inbox' = Append(inbox, StageMsg("listing"))
       \/ RunError
    /\ UNCHANGED <<thread, aborted, timedOut, usageVars>>

\* Both analyses are settled: the notes stage, unless a stage timed out.
Notes(o, stopped) ==
    IF "notes" \in Capabilities /\ ~stopped
      THEN /\ outcome' = o
           /\ Await({"notes"})
           /\ inbox' = inbox \o <<[type |-> "partial", outcome |-> o], StageMsg("notes")>>
      ELSE Report(o)

\* One of the two analyses is settled.
Settle(s, o, stopped) ==
    IF running = {s}
      THEN Notes(o, stopped)
      ELSE /\ outcome' = o
           /\ running' = running \ {s} /\ timer' = [timer EXCEPT ![s] = 0]
           /\ UNCHANGED <<over, inbox>>

\* The messages that announce the analyses, in the order of the calls.
Announce(o, stages) ==
    (IF "graph" \in stages THEN <<StageMsg("graph")>> ELSE <<>>) \o
    (IF "usage" \in stages
       THEN <<[type |-> "usage-start", outcome |-> o], StageMsg("usage")>> ELSE <<>>)

\* The listing returned n dependencies: graph and usage start together, the
\* latter with its first lanes.
ListingReturns(n) ==
    LET o      == [outcome EXCEPT !.deps = n]
        stages == {"graph", "usage"} \cap Capabilities
        first  == IF "usage" \notin stages THEN 0
                  ELSE IF n < Concurrency THEN n ELSE Concurrency
    IN  /\ Up /\ "listing" \in running
        /\ calls' = 1 .. first /\ next' = first + 1
        /\ IF stages = {}
             THEN Notes(o, aborted)
             ELSE /\ outcome' = o
                  /\ Await(stages)
                  /\ inbox' = inbox \o Announce(o, stages)
        /\ UNCHANGED <<thread, aborted, timedOut, laneThrew, returned, used>>

GraphReturns ==
    /\ Up /\ "graph" \in running
    /\ Settle("graph", [outcome EXCEPT !.graph = TRUE], aborted)
    /\ UNCHANGED <<thread, aborted, timedOut, usageVars>>

NotesReturn ==
    /\ Up /\ "notes" \in running
    /\ Report([outcome EXCEPT !.notes = TRUE])
    /\ UNCHANGED <<thread, aborted, timedOut, usageVars>>

-----------------------------------------------------------------------------
(* Usage calls: the lanes of mapBounded take dependencies from one counter.    *)

\* Slip: an abort ends the lane without an error.
SlipLaneQuiet(d) ==
    IF next > outcome.deps \/ aborted
      THEN calls' = calls \ {d} /\ UNCHANGED <<next, laneThrew>>
      ELSE calls' = (calls \ {d}) \cup {next} /\ next' = next + 1 /\ UNCHANGED laneThrew

\* A lane whose call is over takes the next dependency, is done, or throws the
\* abort reason.
LaneGoesOn(d) ==
    IF next > outcome.deps
      THEN calls' = calls \ {d} /\ UNCHANGED <<next, laneThrew>>
      ELSE IF aborted
        THEN calls' = calls \ {d} /\ laneThrew' = TRUE /\ UNCHANGED next
        ELSE calls' = (calls \ {d}) \cup {next} /\ next' = next + 1 /\ UNCHANGED laneThrew

\* The call of dependency d returned; usages found are posted at once, also
\* when nobody awaits the stage any more.
CallReturns(d) ==
    /\ Up /\ d \in calls
    /\ returned' = returned \cup {d}
    /\ \E found \in BOOLEAN :
          /\ used'  = IF found THEN used \cup {d} ELSE used
          /\ inbox' = IF found THEN Append(inbox, [type |-> "usage-progress", dep |-> d])
                      ELSE inbox
    /\ LaneGoesOn(d)
    /\ UNCHANGED <<thread, running, over, timer, aborted, timedOut, outcome>>

CallThrows(d) ==
    /\ Up /\ d \in calls
    /\ calls' = calls \ {d} /\ laneThrew' = TRUE
    /\ UNCHANGED <<thread, running, over, timer, aborted, timedOut, next, returned,
                   used, outcome, inbox>>

\* What is kept of a usage stage that failed.
Salvaged(o) == [WithFinding(o, "usage") EXCEPT !.usages = used, !.usageIncomplete = TRUE]

\* Every lane has ended: each hands its place on until it stops.
LanesEnded == calls = {}

\* Promise.all over the lanes: rejected by the first that threw, resolved when
\* all have ended.
UsageEnds ==
    /\ Up /\ "usage" \in running
    /\ \/ /\ laneThrew
          /\ Settle("usage", Salvaged(outcome), aborted)
       \/ /\ LanesEnded /\ ~laneThrew
          /\ Settle("usage", [outcome EXCEPT !.usages = used, !.usageAnalysed = TRUE], aborted)
    /\ UNCHANGED <<thread, aborted, timedOut, usageVars>>

-----------------------------------------------------------------------------
(* Stages that fail.                                                           *)

\* Slip: a graph that fails is as good as no graph.
SlipStageFails(s, stopped) ==
    CASE s = "graph" -> Settle(s, outcome, stopped)
      [] s = "usage" -> Settle(s, Salvaged(outcome), stopped)
      [] OTHER       -> Report(WithFinding(outcome, s))

StageFails(s, stopped) ==
    CASE s = "graph" -> Settle(s, WithFinding(outcome, s), stopped)
      [] s = "usage" -> Settle(s, Salvaged(outcome), stopped)
      [] OTHER       -> Report(WithFinding(outcome, s))

\* The adapter's call throws; usage calls throw in CallThrows.
StageThrows(s) ==
    /\ Up /\ s \in running \ {"usage"}
    /\ StageFails(s, aborted)
    /\ UNCHANGED <<thread, aborted, timedOut, usageVars>>

\* withTimeout: the timer aborts the signal all stages share.
StageTimesOut(s) ==
    /\ Up /\ s \in running /\ timer[s] = 0
    /\ aborted' = TRUE
    /\ timedOut' = timedOut \cup {s}
    /\ StageFails(s, TRUE)
    /\ UNCHANGED <<thread, usageVars>>

-----------------------------------------------------------------------------
(* The thread as a whole.                                                      *)

threadOnly == <<running, over, timer, aborted, timedOut, usageVars, outcome, inbox>>

\* Adapter code computes without giving the event loop back, and gives it back.
Stall  == Up /\ Busy /\ thread' = "stalled" /\ UNCHANGED threadOnly
Resume == thread = "stalled" /\ thread' = "up" /\ UNCHANGED threadOnly

\* The heap ceiling, an uncaught exception, process.exit() in adapter code.
Dies ==
    /\ thread \in {"up", "stalled"} /\ Busy
    /\ thread' \in {"crashed", "exit 0", "exit 1"}
    /\ UNCHANGED threadOnly

\* The event loop is empty. A call left behind may keep it from being so.
ThreadEnds == Up /\ over /\ thread' = "exit 0" /\ UNCHANGED threadOnly

ThreadNext ==
    \/ Load \/ DetectionReturns \/ GraphReturns \/ NotesReturn \/ UsageEnds
    \/ \E n \in 0 .. MaxDeps : ListingReturns(n)
    \/ \E d \in Deps : CallReturns(d) \/ CallThrows(d)
    \/ \E s \in Stages : StageThrows(s) \/ StageTimesOut(s)
    \/ Stall \/ Resume \/ Dies \/ ThreadEnds

\* The thread has something to do before time goes on: a due timer, a settled
\* usage stage, an empty event loop.
ThreadIsDue ==
    /\ Up
    /\ \/ \E s \in running : timer[s] = 0
       \/ "usage" \in running /\ (laneThrew \/ LanesEnded)
       \/ ~Busy

ThreadTimePasses ==
    timer' = [s \in Stages |-> IF timer[s] = 0 THEN 0 ELSE timer[s] - 1]
=============================================================================
