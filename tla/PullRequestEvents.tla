------------------------- MODULE PullRequestEvents -------------------------
(***************************************************************************)
(* From a push to a pull request to a job in the queue: the pull_request   *)
(* handler of app.ts with decide in events/filter.ts and the lookup of     *)
(* events/changed-files.ts, on top of the job queue of module JobQueue.    *)
(*                                                                         *)
(* A delivery says which head the pull request got, and which one it had   *)
(* before.  GitHub sends deliveries in any order and on request again.  A  *)
(* handler waits for the lookup of the changed files before it decides, so *)
(* deliveries overtake each other once more; and the lookup lists the      *)
(* files the pull request has then, not those of the delivery's head.      *)
(***************************************************************************)
EXTENDS JobQueue, Sequences

CONSTANTS
    Repo,           \* the repository of the pull requests
    Requests,       \* pull request numbers
    History,        \* per pull request, the heads it is given one after the other
    Relevant,       \* the heads that change a manifest, a lockfile, source ...
    MaxDeliveries   \* bound of the model: how often one event is delivered

VARIABLES
    pushed,     \* per pull request, how many of its heads it has been given
    received,   \* per event, how often it was delivered
    handlers,   \* the handlers at work: the event and what the lookup answered
    decided,    \* the events whose job went to the queue
    refused,    \* the heads of jobs the full queue refused
    analysed    \* the heads whose job has run

eventVars == <<pushed, received, handlers, decided, refused, analysed>>
allVars == <<vars, eventVars>>

Events == UNION {{[number |-> p, at |-> i] : i \in DOMAIN History[p]} : p \in Requests}
Files == {"unread", "relevant", "irrelevant", "unknown"}

HeadOf(ev) == History[ev.number][ev.at]
Head0(p) == History[p][pushed[p]]

\* opened at the first head, synchronize at the others: only the latter has
\* a "before".  The delivery id is the event's, on redelivery too.
JobOf(ev) ==
    [delivery |-> ev, repo |-> Repo, kind |-> "pull_request",
     number |-> ev.number, head |-> HeadOf(ev),
     before |-> IF ev.at = 1 THEN NoSha ELSE History[ev.number][ev.at - 1]]

ASSUME EventsAssumption ==
    /\ History \in [Requests -> Seq({HeadOf(ev) : ev \in Events})]
    /\ \A p \in Requests : History[p] # <<>>
    /\ \A ev \in Events : JobOf(ev) \in Jobs
    /\ MaxDeliveries \in Nat

EventsInit ==
    /\ Init
    /\ pushed = [p \in Requests |-> 1]
    /\ received = [ev \in Events |-> 0]
    /\ handlers = {}
    /\ decided = {}
    /\ refused = {}
    /\ analysed = {}

-----------------------------------------------------------------------------
(* GitHub                                                                  *)

Push(p) ==
    /\ pushed[p] < Len(History[p])
    /\ pushed' = [pushed EXCEPT ![p] = @ + 1]
    /\ UNCHANGED <<vars, received, handlers, decided, refused, analysed>>

\* A delivery, the first or a repeated one, in any order.
Receive(ev) ==
    /\ ev.at <= pushed[ev.number]
    /\ received[ev] < MaxDeliveries
    /\ received' = [received EXCEPT ![ev] = @ + 1]
    /\ handlers' = handlers \cup {[event |-> ev, files |-> "unread"]}
    /\ UNCHANGED <<vars, pushed, decided, refused, analysed>>

-----------------------------------------------------------------------------
(* The handler                                                             *)

\* The lookup lists the files of the pull request as it is now; a lookup
\* that fails, is late or is cut off answers nothing definite.
Read(h) ==
    /\ h.files = "unread"
    /\ \E answer \in {"unknown", IF Head0(h.event.number) \in Relevant
                                   THEN "relevant" ELSE "irrelevant"} :
          handlers' = (handlers \ {h}) \cup {[h EXCEPT !.files = answer]}
    /\ UNCHANGED <<vars, pushed, received, decided, refused, analysed>>

Skip(h) ==
    /\ h.files = "irrelevant"
    /\ handlers' = handlers \ {h}
    /\ UNCHANGED <<vars, pushed, received, decided, refused, analysed>>

\* Slip: a lookup that fails is taken for a list of no files.
SlipAnalyse(h) ==
    LET job == JobOf(h.event)
    IN  /\ h.files = "relevant"
        /\ Enqueue(job)
        /\ handlers' = handlers \ {h}
        /\ decided' = decided \cup {h.event}
        /\ refused' = IF ~IsDuplicate(job) /\ IsOverloaded(job)
                      THEN refused \cup {job.head} ELSE refused
        /\ UNCHANGED <<pushed, received, analysed>>

\* What is not known to be irrelevant is analysed.
Analyse(h) ==
    LET job == JobOf(h.event)
    IN  /\ h.files \in {"relevant", "unknown"}
        /\ Enqueue(job)
        /\ handlers' = handlers \ {h}
        /\ decided' = decided \cup {h.event}
        /\ refused' = IF ~IsDuplicate(job) /\ IsOverloaded(job)
                      THEN refused \cup {job.head} ELSE refused
        /\ UNCHANGED <<pushed, received, analysed>>

\* The worker of a job is done.
Finish(e) ==
    /\ Settle(e)
    /\ analysed' = analysed \cup {e.job.head}
    /\ UNCHANGED <<pushed, received, handlers, decided, refused>>

EventsNext ==
    \/ \E p \in Requests : Push(p)
    \/ \E ev \in Events : Receive(ev)
    \/ \E h \in handlers : Read(h) \/ Skip(h) \/ Analyse(h)
    \/ \E e \in running : Finish(e)

EventsSpec == EventsInit /\ [][EventsNext]_allVars

\* Lookups have a deadline, workers settle.  Nobody has to push, and GitHub
\* need not deliver.
HandlerOf(ev) == \E h \in handlers : h.event = ev /\ (Read(h) \/ Skip(h) \/ Analyse(h))
FinishOf(t) == \E e \in running : e.ticket = t /\ Finish(e)
FairEventsSpec ==
    /\ EventsSpec
    /\ \A ev \in Events : WF_allVars(HandlerOf(ev))
    /\ \A t \in 1..MaxArrivals : WF_allVars(FinishOf(t))

-----------------------------------------------------------------------------
(* Properties                                                              *)

EventsTypeOK ==
    /\ TypeOK
    /\ pushed \in [Requests -> Nat]
    /\ \A p \in Requests : pushed[p] \in DOMAIN History[p]
    /\ received \in [Events -> 0..MaxDeliveries]
    /\ decided \subseteq Events
    /\ handlers \subseteq [event : Events, files : Files]
    /\ \A ev \in decided \cup {h.event : h \in handlers} : ev.at <= pushed[ev.number]

Latest(p) == [number |-> p, at |-> pushed[p]]

\* The head a pull request has now, once its event went to the queue, waits,
\* runs or has run, unless the full queue refused it: no older event that is
\* late or repeated drops its job.  "Matching on beforeSha keeps a late or
\* redelivered older event from dropping the current head's job" (jobs.ts).
CurrentHeadIsKept ==
    \A p \in Requests :
        Latest(p) \in decided =>
            \/ Head0(p) \in analysed \cup refused
            \/ \E e \in pending \cup running : e.job.head = Head0(p)

\* What it rests on: a head that a later one replaces is given only once, to one
\* pull request.  The last heads may be shared.  A pull request that returns to
\* a replaced head, or one whose head is another's replaced one, may lose its job.
ReplacedHeadsDiffer ==
    \A ev, other \in Events :
        ev.at < Len(History[ev.number]) /\ HeadOf(ev) = HeadOf(other) => ev = other

\* A delivery that is taken for a duplicate loses nothing: the head it would have
\* analysed has run, runs or waits, also when the job that brought its key was
\* dropped, or belongs to another pull request (jobs.ts:117, 164-165).
DuplicatesLoseNothing ==
    \A ev \in Events :
        IsDuplicate(JobOf(ev)) =>
            \/ HeadOf(ev) \in analysed
            \/ \E e \in pending \cup running : e.job.head = HeadOf(ev)

\* Whose key is remembered is in the queue or has run.
KeysAreKept ==
    \A s \in seen : \E ev \in Events :
        /\ s.key = Key(JobOf(ev))
        /\ \/ HeadOf(ev) \in analysed
           \/ \E e \in pending \cup running : e.job = JobOf(ev)

\* The inductive invariant, of a history whose replaced heads differ.
EventsInv == EventsTypeOK /\ KeysAreKept /\ CurrentHeadIsKept

\* The last head a pull request is given, once its event was delivered, ends
\* up analysed or refused if it is relevant, although the lookup does not say
\* whose files it lists.
CurrentHeadIsAnalysed ==
    <>[](\A p \in Requests :
            Head0(p) \in Relevant /\ received[Latest(p)] > 0 => Head0(p) \in analysed \cup refused)
=============================================================================
