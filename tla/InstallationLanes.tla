-------------------------- MODULE InstallationLanes --------------------------
(***************************************************************************)
(* A delivery that grants the app repositories: the handler of             *)
(* "installation" and "installation_repositories" in                       *)
(* packages/github-app/src/app.ts, on top of the job queue.                *)
(*                                                                         *)
(* Up to eight lanes (processNext) take candidates from one shared index.  *)
(* A candidate needs a token, its repository and its default branch from   *)
(* GitHub before its job is enqueued; all share one deadline, and          *)
(* withDeadline (github/rate-limit.ts) races each lookup against it.  The  *)
(* work that lost such a race still runs on: its answer may come later.    *)
(***************************************************************************)
EXTENDS JobQueue, Sequences

CONSTANTS
    Lanes,        \* the lanes the handler may start                 (code: 8)
    Candidates,   \* the repositories the delivery lists, in order
    JobFor        \* the job for the head of a repository's default branch

NoRepository == "none"

LanesAssumption ==
    /\ Candidates \in Seq(DOMAIN JobFor)
    /\ \A i, j \in DOMAIN Candidates : Candidates[i] = Candidates[j] => i = j
    /\ \A r \in DOMAIN JobFor : JobFor[r] \in Jobs /\ JobFor[r].repo = r /\ r # NoRepository

VARIABLES
    next,       \* how many candidates were taken
    lane,       \* per lane what it waits for (idle, token, repository, branch,
                \* busyToken, busyRun, done) and for which candidate
    expired,    \* whether the deadline has passed
    late,       \* lookups that lost their race and are still under way
    outcome     \* what became of each candidate: none, accepted, refused, failed

laneVars == <<next, lane, expired, late, outcome>>
installationVars == <<vars, laneVars>>

Repositories == {Candidates[i] : i \in DOMAIN Candidates}

\* Array.from(...processNext): no more lanes than candidates.
InUse == {l \in Lanes : Cardinality({k \in Lanes : k < l}) < Len(Candidates)}

LanesInit ==
    /\ Init
    /\ next = 0
    /\ lane = [l \in Lanes |-> IF l \in InUse THEN [at |-> "idle", repo |-> NoRepository]
                                                 ELSE [at |-> "done", repo |-> NoRepository]]
    /\ expired = FALSE
    /\ late = {}
    /\ outcome = [r \in Repositories |-> "none"]

Moves(l, stage) == lane' = [lane EXCEPT ![l].at = stage]
Ends(l, r, what) ==
    /\ lane' = [lane EXCEPT ![l] = [at |-> "idle", repo |-> NoRepository]]
    /\ outcome' = [outcome EXCEPT ![r] = what]

-----------------------------------------------------------------------------
(* A lane                                                                  *)

\* Slip: the index is advanced when the candidate is done.
SlipTake(l) ==
    /\ lane[l].at = "idle"
    /\ next < Len(Candidates)
    /\ ~expired
    /\ lane' = [lane EXCEPT ![l] = [at |-> "token", repo |-> Candidates[next + 1]]]
    /\ next' \in {next, next + 1}
    /\ UNCHANGED <<vars, expired, late, outcome>>

\* The loop's test and next++ run without an await between them.
Take(l) ==
    /\ lane[l].at = "idle"
    /\ next < Len(Candidates)
    /\ ~expired
    /\ lane' = [lane EXCEPT ![l] = [at |-> "token", repo |-> Candidates[next + 1]]]
    /\ next' = next + 1
    /\ UNCHANGED <<vars, expired, late, outcome>>

Leave(l) ==
    /\ lane[l].at = "idle"
    /\ next >= Len(Candidates) \/ expired
    /\ Moves(l, "done")
    /\ UNCHANGED <<vars, next, expired, late, outcome>>

\* The token: the next request is sent without looking at the clock.
TokenComes(l) ==
    /\ lane[l].at = "token"
    /\ Moves(l, "repository")
    /\ UNCHANGED <<vars, next, expired, late, outcome>>

\* The repository: the clock is read before the branch is asked for.
RepositoryComes(l) ==
    /\ lane[l].at = "repository"
    /\ IF expired THEN Ends(l, lane[l].repo, "failed")
                  ELSE Moves(l, "branch") /\ UNCHANGED outcome
    /\ UNCHANGED <<vars, next, expired, late>>

\* The branch: its head is enqueued.  A full queue refuses the job; then the
\* limiter says whether a busy run is written.
BranchComes(l) ==
    LET r   == lane[l].repo
        job == JobFor[r]
    IN  /\ lane[l].at = "branch"
        /\ Enqueue(job)
        /\ IF IsDuplicate(job) \/ ~IsOverloaded(job)
           THEN Ends(l, r, "accepted")
           ELSE \/ Ends(l, r, "refused")
                \/ Moves(l, "busyToken") /\ outcome' = [outcome EXCEPT ![r] = "refused"]
        /\ UNCHANGED <<next, expired, late>>

\* The token of the busy run is an argument of withDeadline and awaited
\* before it: no deadline applies.
BusyTokenComes(l) ==
    /\ lane[l].at = "busyToken"
    /\ Moves(l, "busyRun")
    /\ UNCHANGED <<vars, next, expired, late, outcome>>

\* A busy run is written, fails or is given up, or its token is refused: the
\* lane goes on either way.
BusyRunEnds(l) ==
    /\ lane[l].at \in {"busyToken", "busyRun"}
    /\ Ends(l, lane[l].repo, outcome[lane[l].repo])
    /\ UNCHANGED <<vars, next, expired, late>>

\* GitHub refuses a request, or the data is not what was expected.
LookupFails(l) ==
    /\ lane[l].at \in {"token", "repository", "branch"}
    /\ Ends(l, lane[l].repo, "failed")
    /\ UNCHANGED <<vars, next, expired, late>>

\* Slip: the token is awaited outside withDeadline, as that of a busy run is.
SlipGivesUp(l) ==
    /\ lane[l].at \in {"repository", "branch"}
    /\ expired
    /\ late' = late \cup {lane[l]}
    /\ Ends(l, lane[l].repo, "failed")
    /\ UNCHANGED <<vars, next, expired>>

\* The timer of withDeadline wins: the lane gives the candidate up, the
\* request stays under way.
GivesUp(l) ==
    /\ lane[l].at \in {"token", "repository", "branch"}
    /\ expired
    /\ late' = late \cup {lane[l]}
    /\ Ends(l, lane[l].repo, "failed")
    /\ UNCHANGED <<vars, next, expired>>

-----------------------------------------------------------------------------
(* The clock, the lookups that lost, the queue                             *)

Expire ==
    /\ ~expired
    /\ expired' = TRUE
    /\ UNCHANGED <<vars, next, lane, late, outcome>>

\* Slip: the job is enqueued inside the work that is raced.
SlipAnswersLate(w) ==
    /\ late' = late \ {w}
    /\ IF w.at = "branch"
       THEN Enqueue(JobFor[w.repo]) /\ outcome' = [outcome EXCEPT ![w.repo] = "accepted"]
       ELSE UNCHANGED <<vars, outcome>>
    /\ UNCHANGED <<next, lane, expired>>

\* A late answer goes nowhere: a repository that comes late meets the test of
\* the clock, a token or a branch that comes late has no one to take it.
AnswersLate(w) ==
    /\ late' = late \ {w}
    /\ UNCHANGED <<vars, next, lane, expired, outcome>>

\* Other deliveries enqueue jobs, also for the same heads.
OtherJob(job) ==
    /\ \A r \in Repositories : job # JobFor[r]
    /\ Enqueue(job)
    /\ UNCHANGED laneVars

LaneStep(l) ==
    \/ Take(l) \/ Leave(l) \/ TokenComes(l) \/ RepositoryComes(l) \/ BranchComes(l)
    \/ BusyTokenComes(l) \/ BusyRunEnds(l) \/ LookupFails(l) \/ GivesUp(l)

LanesNext ==
    \/ \E l \in Lanes : LaneStep(l)
    \/ Expire
    \/ \E w \in late : AnswersLate(w)
    \/ \E job \in Jobs : OtherJob(job)
    \/ \E e \in running : Settle(e) /\ UNCHANGED laneVars

LanesSpec == LanesInit /\ [][LanesNext]_installationVars

\* The loop and the timers run; GitHub need not answer a lookup.  The token
\* of a busy run has no timer: that GitHub settles this one is assumed.
Unattended(l) == Take(l) \/ Leave(l) \/ GivesUp(l) \/ BusyTokenComes(l) \/ BusyRunEnds(l)
FairLanesSpec ==
    /\ LanesSpec
    /\ WF_installationVars(Expire)
    /\ \A l \in Lanes : WF_installationVars(Unattended(l))

-----------------------------------------------------------------------------
(* Properties                                                              *)

Stages == {"idle", "token", "repository", "branch", "busyToken", "busyRun", "done"}
InHand(r) == {l \in Lanes : lane[l].repo = r}

\* Eight lanes neither skip nor repeat a repository: each of the first next
\* candidates is with one lane or has one outcome, each other was not
\* touched; and when all lanes have left, the warning's number (length minus
\* next) counts the untouched ones (app.ts:284-366).
EachCandidateOnce ==
    \A i \in DOMAIN Candidates :
        LET r == Candidates[i]
        IN  /\ Cardinality(InHand(r)) <= 1
            /\ i > next <=> (InHand(r) = {} /\ outcome[r] = "none")

\* The inductive invariant: a lane's stage says whether it has a candidate and
\* whether that one has an outcome.
LanesInv ==
    /\ next \in 0..Len(Candidates)
    /\ lane \in [Lanes -> [at : Stages, repo : Repositories \cup {NoRepository}]]
    /\ outcome \in [Repositories -> {"none", "accepted", "refused", "failed"}]
    /\ \A l \in Lanes :
          /\ lane[l].at \in {"idle", "done"} <=> lane[l].repo = NoRepository
          /\ lane[l].at \in {"token", "repository", "branch"} => outcome[lane[l].repo] = "none"
          /\ lane[l].at \in {"busyToken", "busyRun"} => outcome[lane[l].repo] = "refused"
    /\ \A l, k \in Lanes : lane[l].repo = lane[k].repo /\ lane[l].repo # NoRepository => l = k
    /\ \A i \in DOMAIN Candidates :
          LET r == Candidates[i]
          IN  i > next <=> (InHand(r) = {} /\ outcome[r] = "none")

\* Nothing is enqueued for a repository the handler has given up, and a
\* repository has an outcome for good once it has one (app.ts:294-318,
\* rate-limit.ts:82-94).
GivenUpIsFinal ==
    [][\A r \in Repositories :
          /\ outcome[r] # "none" => outcome'[r] = outcome[r]
          /\ outcome[r] = "failed" =>
                \A e \in (pending' \cup running') \ (pending \cup running) : e.job # JobFor[r]]_installationVars

\* The handler ends although GitHub answers no lookup (app.ts:364).
HandlerEnds == <>(\A l \in Lanes : lane[l].at = "done")
=============================================================================
