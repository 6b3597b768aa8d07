------------------------------ MODULE JobQueue ------------------------------
(***************************************************************************)
(* The in-process job queue of the GitHub App: InProcessJobQueue in        *)
(* packages/github-app/src/jobs.ts.                                        *)
(*                                                                         *)
(* Webhook handlers call enqueue; the queue runs a worker on at most       *)
(* Concurrency jobs at a time.  JavaScript runs each method to completion, *)
(* so enqueue (with its drain) and the "finally" of #run (with its drain)  *)
(* are the atomic steps, and they interleave freely.                       *)
(*                                                                         *)
(* The code keeps two insertion-ordered collections, the array #pending    *)
(* and the Set #seen.  Both grow at the end and lose elements anywhere, so *)
(* each is a set here whose elements carry the number of their arrival:    *)
(* "oldest" is "smallest ticket" and filtering is set difference.          *)
(*                                                                         *)
(* A definition named Slip... is a variation of the one that follows it, a *)
(* mistake the code could have made; no action uses it.                    *)
(***************************************************************************)
EXTENDS Integers, FiniteSets

CONSTANTS
    Jobs,          \* the AnalysisJobs the handlers may emit
    Concurrency,   \* most jobs running at once               (code: 2)
    DedupeWindow,  \* how many recent keys #seen remembers    (code: 1000)
    MaxPending,    \* most jobs waiting to run                (code: 500)
    Waiters,       \* callers of onIdle()
    MaxArrivals,   \* bound of the model: jobs accepted in one behaviour
    NoSha          \* an absent beforeSha

ASSUME QueueAssumption ==
    /\ Concurrency \in Nat \ {0}
    /\ DedupeWindow \in Nat \ {0}
    /\ MaxPending \in Nat \ {0}
    /\ MaxArrivals \in Nat

VARIABLES
    pending,   \* #pending: accepted jobs waiting for a slot
    running,   \* the jobs whose worker promise has not settled; #running is its size
    seen,      \* #seen: the remembered keys, each with the arrival that added it
    waiters,   \* #idleWaiters
    arrivals   \* how many jobs were accepted so far: the source of tickets

vars == <<pending, running, seen, waiters, arrivals>>

-----------------------------------------------------------------------------
(* Jobs.  A job is a record [delivery, repo, head, kind, number, before]:  *)
(* kind is the trigger's kind; number and before belong to pull_request.   *)

\* Slip: every delivery has a key of its own.
SlipKey(job) == <<job.repo, job.head, job.delivery>>

\* The idempotency key: (repository, head), extended for re-runs by the
\* delivery so that a re-run is not collapsed onto the first analysis.
Key(job) ==
    IF job.kind = "rerequested" THEN <<job.repo, job.head, job.delivery>>
                                ELSE <<job.repo, job.head>>

\* Slip: any other head of the pull request is superseded.
SlipSupersedes(job, queued) ==
    /\ job.kind = "pull_request"
    /\ job.before # NoSha
    /\ queued.kind = "pull_request"
    /\ queued.number = job.number
    /\ queued.repo = job.repo
    /\ queued.head # job.head

\* job is a synchronize whose "before" is the head that queued analyses.
Supersedes(job, queued) ==
    /\ job.kind = "pull_request"
    /\ job.before # NoSha
    /\ queued.kind = "pull_request"
    /\ queued.number = job.number
    /\ queued.repo = job.repo
    /\ queued.head = job.before
    /\ queued.head # job.head

Entry == [job : Jobs, ticket : 1..MaxArrivals]
Keys == {Key(job) : job \in Jobs}

\* What #seen holds for an accepted job.
Remembered(e) == [key |-> Key(e.job), ticket |-> e.ticket]

Init ==
    /\ pending = {}
    /\ running = {}
    /\ seen = {}
    /\ waiters = {}
    /\ arrivals = 0

-----------------------------------------------------------------------------
(* enqueue(job)                                                            *)

IsDuplicate(job) == \E s \in seen : s.key = Key(job)

Dropped(job) == {e \in pending : Supersedes(job, e.job)}

\* Slip: the key of a dropped job stays.
SlipForgotten(job) == {}

\* #pending and #seen once #dropSuperseded(job) has run.
Remaining(job) == pending \ Dropped(job)
Forgotten(job) == {s \in seen : \E e \in Dropped(job) : s.key = Key(e.job)}

\* Slip: the length is read before the drop.
SlipIsOverloadedEarly(job) == Cardinality(pending) >= MaxPending

IsOverloaded(job) == Cardinality(Remaining(job)) >= MaxPending

\* Slip: the window is one key smaller.
SlipEvictedSooner(keys) ==
    IF Cardinality(keys) >= DedupeWindow
    THEN {s \in keys : \A other \in keys : s.ticket <= other.ticket}
    ELSE {}

\* Adding a key to a full window evicts the oldest one.
Evicted(keys) ==
    IF Cardinality(keys) > DedupeWindow
    THEN {s \in keys : \A other \in keys : s.ticket <= other.ticket}
    ELSE {}

\* Slip: the last job in is the first out.
SlipStarted(waiting, active) ==
    {e \in waiting : Cardinality({f \in waiting : f.ticket > e.ticket})
                        < Concurrency - Cardinality(active)}

\* #drain: a waiting job starts when fewer jobs wait ahead of it than there
\* are free slots; when nothing is left the idle waiters are released.
Started(waiting, active) ==
    {e \in waiting : Cardinality({f \in waiting : f.ticket < e.ticket})
                        < Concurrency - Cardinality(active)}

\* Slip: the idle test is made before the slot is given back.
SlipDrain(waiting, active) ==
    /\ pending' = waiting \ Started(waiting, active)
    /\ running' = active \cup Started(waiting, active)
    /\ waiters' = IF waiting \cup running = {} THEN {} ELSE waiters

Drain(waiting, active) ==
    /\ pending' = waiting \ Started(waiting, active)
    /\ running' = active \cup Started(waiting, active)
    /\ waiters' = IF waiting \cup active = {} THEN {} ELSE waiters

EnqueueDuplicate(job) ==
    /\ IsDuplicate(job)
    /\ UNCHANGED vars

EnqueueOverloaded(job) ==
    /\ ~IsDuplicate(job)
    /\ IsOverloaded(job)
    /\ pending' = Remaining(job)
    /\ seen' = seen \ Forgotten(job)
    /\ UNCHANGED <<running, waiters, arrivals>>

EnqueueQueued(job) ==
    LET entry == [job |-> job, ticket |-> arrivals + 1]
        keys  == (seen \ Forgotten(job)) \cup {Remembered(entry)}
    IN  /\ ~IsDuplicate(job)
        /\ ~IsOverloaded(job)
        /\ arrivals < MaxArrivals
        /\ arrivals' = arrivals + 1
        /\ seen' = keys \ Evicted(keys)
        /\ Drain(Remaining(job) \cup {entry}, running)

Enqueue(job) ==
    \/ EnqueueDuplicate(job)
    \/ EnqueueOverloaded(job)
    \/ EnqueueQueued(job)

-----------------------------------------------------------------------------
(* onIdle() and the end of #run                                            *)

\* With nothing queued or running the promise is already resolved, which
\* changes nothing; otherwise the caller waits.
OnIdle(w) ==
    /\ w \notin waiters
    /\ pending \cup running # {}
    /\ waiters' = waiters \cup {w}
    /\ UNCHANGED <<pending, running, seen, arrivals>>

\* The worker's promise settles, fulfilled or (after onError) rejected.
Settle(e) ==
    /\ Drain(pending, running \ {e})
    /\ UNCHANGED <<seen, arrivals>>

Next ==
    \/ \E job \in Jobs : Enqueue(job)
    \/ \E w \in Waiters : OnIdle(w)
    \/ \E e \in running : Settle(e)

Spec == Init /\ [][Next]_vars

\* Every worker promise settles: downloads, adapters and lookups all have
\* deadlines.  Nothing makes a webhook arrive.
SettleTicket(t) == \E e \in running : e.ticket = t /\ Settle(e)
FairSpec == Spec /\ \A t \in 1..MaxArrivals : WF_vars(SettleTicket(t))

-----------------------------------------------------------------------------
(* Properties                                                              *)

TypeOK ==
    /\ arrivals \in 0..MaxArrivals
    /\ pending \subseteq Entry
    /\ running \subseteq Entry
    /\ seen \subseteq [key : Keys, ticket : 1..MaxArrivals]
    /\ waiters \subseteq Waiters

\* The queue never holds more than its limits, and it never keeps a job
\* waiting beside a free slot, whatever drops, refusals and ends of jobs
\* came between the drains.
Limits ==
    /\ Cardinality(pending) <= MaxPending
    /\ Cardinality(running) <= Concurrency
    /\ Cardinality(seen) <= DedupeWindow
    /\ pending # {} => Cardinality(running) = Concurrency

\* First come, first served: whatever runs arrived before whatever waits,
\* also when a job in the middle of the queue was superseded.
StartsInOrder ==
    \A r \in running, p \in pending : r.ticket < p.ticket

\* A window at least as large as the queue never forgets the key of a job
\* that is still waiting, although eviction looks at age and not at state;
\* so no key waits twice and at most one job can be superseded by another.
WaitingIsRemembered ==
    DedupeWindow >= MaxPending =>
        \A p \in pending : Remembered(p) \in seen

\* Duplicate collapse.  Eviction can forget the key of a job that still
\* runs, and the same (repository, head) can then be analysed twice at once,
\* but only after DedupeWindow further jobs were accepted in between.
DuplicatesAreFarApart ==
    DedupeWindow >= MaxPending =>
        \A e, f \in pending \cup running :
            Key(e.job) = Key(f.job) /\ e.ticket < f.ticket
                => f.ticket - e.ticket > DedupeWindow

\* A caller of onIdle never stays behind in an idle queue.
NoWaiterWhenIdle == pending \cup running = {} => waiters = {}

\* A waiting job leaves the queue without having run only when the job that
\* supersedes it is accepted in the same step: enqueue drops before it looks
\* at the limit, and still never drops a job for one that it then refuses.
\* Re-runs, pushes and full scans are never dropped.
DroppedOnlyForSuccessor ==
    [][\A e \in pending :
          e \notin pending' \cup running' =>
              /\ e.job.kind = "pull_request"
              /\ \E f \in (pending' \cup running') \ (pending \cup running) :
                    Supersedes(f.job, e.job)]_vars

\* What the properties above rest on: tickets number the accepted jobs, #seen
\* holds a key once, the keys added after a waiting job's are those of jobs
\* that wait behind it, and a key that was evicted is old.
TicketsArePast ==
    /\ \A e \in pending \cup running \cup seen : e.ticket <= arrivals
    /\ \A e, f \in pending \cup running : e.ticket = f.ticket => e = f
    /\ \A s, t \in seen : s.key = t.key \/ s.ticket = t.ticket => s = t

SeenEndsWithWaiting ==
    \A p \in pending, s \in seen :
        p.ticket <= s.ticket => \E q \in pending : Remembered(q) = s

ForgottenIsOld ==
    DedupeWindow >= MaxPending =>
        \A e \in pending \cup running :
            Remembered(e) \in seen \/ arrivals - e.ticket >= DedupeWindow

\* The inductive invariant.
QueueInv ==
    /\ TypeOK
    /\ IsFiniteSet(pending) /\ IsFiniteSet(running) /\ IsFiniteSet(seen)
    /\ Limits
    /\ StartsInOrder
    /\ WaitingIsRemembered
    /\ DuplicatesAreFarApart
    /\ NoWaiterWhenIdle
    /\ TicketsArePast
    /\ SeenEndsWithWaiting
    /\ ForgottenIsOld

\* Every accepted job is eventually out of the queue: it ran, or its head
\* was superseded.
AcceptedJobsLeave ==
    \A t \in 1..MaxArrivals :
        (\E e \in pending \cup running : e.ticket = t)
            ~> (\A e \in pending \cup running : e.ticket # t)
=============================================================================
