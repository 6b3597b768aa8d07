--------------------------- MODULE DeliveryProofs ---------------------------
(***************************************************************************)
(* Proofs about what the webhook handlers put into the job queue: the      *)
(* events of pull requests (module PullRequestEvents) and the lanes of an  *)
(* installation (module InstallationLanes).  Both only ever use the        *)
(* queue's own operations, so that all that is proved of the queue holds   *)
(* of it among them; each has an inductive invariant of its own.  Then a   *)
(* theorem about the client they ask (module RateLimits) and those about   *)
(* the comment that their jobs maintain (module CommentSync).              *)
(***************************************************************************)
EXTENDS PullRequestEvents, InstallationLanes, RateLimits, CommentSync, JobQueueProofs

-----------------------------------------------------------------------------
(* The queue                                                               *)

\* What enqueue and the end of a job make of the jobs in the queue.
LEMMA EnqueueAddsOnlyItsJob ==
    ASSUME NEW job, Enqueue(job)
    PROVE  /\ \A e \in (pending' \cup running') \ (pending \cup running) : e.job = job
           /\ \A e \in (pending \cup running) \ (pending' \cup running') :
                 e \in pending /\ Supersedes(job, e.job)
           /\ running \subseteq running'
<1>1. CASE EnqueueDuplicate(job)
  BY <1>1 DEF EnqueueDuplicate, vars
<1>2. CASE EnqueueOverloaded(job)
  BY <1>2 DEF EnqueueOverloaded, Remaining, Dropped
<1>3. CASE EnqueueQueued(job)
  BY <1>3 DEF EnqueueQueued, Drain, Started, Remaining, Dropped
<1> QED BY <1>1, <1>2, <1>3 DEF Enqueue

LEMMA SettleAddsNothing ==
    ASSUME NEW e, Settle(e)
    PROVE  /\ pending' \cup running' \subseteq pending \cup running
           /\ (pending \cup running) \ {e} \subseteq pending' \cup running'
BY DEF Settle, Drain, Started

-----------------------------------------------------------------------------
(* Events                                                                  *)

LEMMA EventFacts ==
    /\ \A ev \in Events : /\ ev.number \in Requests /\ ev.at \in DOMAIN History[ev.number]
                          /\ ev = [number |-> ev.number, at |-> ev.at]
                          /\ HeadOf(ev) = History[ev.number][ev.at]
    /\ \A p \in Requests : \A i \in DOMAIN History[p] : [number |-> p, at |-> i] \in Events
    /\ \A p \in Requests : DOMAIN History[p] = 1 .. Len(History[p]) /\ Len(History[p]) \in Nat \ {0}
<1>1. /\ \A p \in Requests : DOMAIN History[p] = 1 .. Len(History[p]) /\ Len(History[p]) \in Nat
  BY EventsAssumption
<1>2. \A p \in Requests : Len(History[p]) # 0
  BY EventsAssumption
<1>3. \A p \in Requests : \A i \in DOMAIN History[p] : [number |-> p, at |-> i] \in Events
  BY DEF Events
<1>4. \A ev \in Events : \E p \in Requests : \E i \in DOMAIN History[p] :
                             ev = [number |-> p, at |-> i]
  BY DEF Events
<1> QED BY <1>1, <1>2, <1>3, <1>4 DEF HeadOf

\* The key of a pull request's job is its repository and its head.
LEMMA KeyIsHead ==
    ASSUME NEW ev \in Events
    PROVE  Key(JobOf(ev)) = <<Repo, HeadOf(ev)>> /\ JobOf(ev).head = HeadOf(ev)
BY DEF Key, JobOf

LEMMA LatestIsEvent ==
    ASSUME EventsTypeOK, NEW p \in Requests
    PROVE  Latest(p) \in Events /\ HeadOf(Latest(p)) = Head0(p)
BY EventFacts DEF EventsTypeOK, Latest, HeadOf, Head0

\* The events use the queue's own operations.
LEMMA EventsStepUsesTheQueue ==
    ASSUME EventsTypeOK, [EventsNext]_allVars
    PROVE  [Next]_vars
<1>1. ASSUME NEW h \in handlers, Analyse(h) PROVE Next
  <2>1. h.event \in Events
    BY DEF EventsTypeOK
  <2>2. JobOf(h.event) \in Jobs /\ Enqueue(JobOf(h.event))
    BY <1>1, <2>1, EventsAssumption DEF Analyse
  <2> QED BY <2>2 DEF Next
<1>2. ASSUME NEW e \in running, Finish(e) PROVE Next
  BY <1>2 DEF Finish, Next
<1>3. CASE UNCHANGED vars
  BY <1>3
<1> QED BY <1>1, <1>2, <1>3 DEF EventsNext, allVars, Push, Receive, Read, Skip

\* A superseded job's head is the one before the event's; when replaced heads
\* differ, it is not the current one.
LEMMA CurrentIsNotSuperseded ==
    ASSUME ReplacedHeadsDiffer, EventsTypeOK, NEW ev \in Events, ev.at <= pushed[ev.number],
           NEW p \in Requests, NEW queued, queued.head = Head0(p)
    PROVE  ~Supersedes(JobOf(ev), queued)
<1> SUFFICES ASSUME Supersedes(JobOf(ev), queued) PROVE FALSE
  OBVIOUS
<1>1. ev.number \in Requests /\ ev.at \in 1 .. Len(History[ev.number])
      /\ Len(History[ev.number]) \in Nat
  BY EventFacts
<1>2. CASE ev.at = 1
  <2>1. JobOf(ev).before = NoSha
    BY <1>2 DEF JobOf
  <2> QED BY <2>1 DEF Supersedes
<1>3. CASE ev.at # 1
  <2> DEFINE former == [number |-> ev.number, at |-> ev.at - 1]
  <2>1. former \in Events
    <3>1. ev.at - 1 \in DOMAIN History[ev.number]
      BY <1>1, <1>3, EventFacts
    <3> QED BY <1>1, <3>1, EventFacts
  <2>2. JobOf(ev).before = History[ev.number][ev.at - 1]
    BY <1>3 DEF JobOf
  <2>3. HeadOf(former) = HeadOf(Latest(p)) /\ Latest(p) \in Events
    BY <2>2, LatestIsEvent DEF HeadOf, Supersedes
  <2>4. former = Latest(p)
    <3>1. former.number = ev.number /\ former.at < Len(History[ev.number])
      BY <1>1
    <3> HIDE DEF former
    <3> QED BY <2>1, <2>3, <3>1 DEF ReplacedHeadsDiffer
  <2>5. ev.number = p /\ ev.at - 1 = pushed[p]
    BY <2>4 DEF Latest
  <2> QED BY <1>1, <2>5
<1> QED BY <1>2, <1>3

\* The handler's own variables keep their types.
LEMMA EventsTypeStep ==
    ASSUME EventsTypeOK, TypeOK', [EventsNext]_allVars
    PROVE  EventsTypeOK'
<1>1. CASE UNCHANGED allVars
  BY <1>1 DEF allVars, eventVars, EventsTypeOK
<1>2. ASSUME NEW p \in Requests, Push(p) PROVE EventsTypeOK'
  <2>1. pushed[p] + 1 \in DOMAIN History[p] /\ pushed[p] \in Nat
    BY <1>2, EventFacts DEF Push, EventsTypeOK
  <2>2. /\ pushed' \in [Requests -> Nat]
        /\ \A q \in Requests : pushed'[q] \in DOMAIN History[q] /\ pushed[q] <= pushed'[q]
    BY <1>2, <2>1 DEF Push, EventsTypeOK
  <2>3. \A ev \in decided \cup {h.event : h \in handlers} :
           ev.number \in Requests /\ ev.at \in Nat /\ ev.at <= pushed[ev.number]
    <3>1. ASSUME NEW ev \in decided \cup {h.event : h \in handlers}
          PROVE  ev \in Events /\ ev.at <= pushed[ev.number]
      BY DEF EventsTypeOK
    <3>2. \A ev \in Events : ev.number \in Requests /\ ev.at \in Nat
      BY EventFacts
    <3> QED BY <3>1, <3>2
  <2>4. \A ev \in decided \cup {h.event : h \in handlers} : ev.at <= pushed'[ev.number]
    BY <2>2, <2>3 DEF EventsTypeOK
  <2> QED BY <1>2, <2>2, <2>4 DEF Push, EventsTypeOK
<1>3. ASSUME NEW ev \in Events, Receive(ev) PROVE EventsTypeOK'
  <2> DEFINE h == [event |-> ev, files |-> "unread"]
  <2>1. h \in [event : Events, files : Files] /\ h.event = ev
    BY DEF Files
  <2>2. handlers' = handlers \cup {h} /\ ev.at <= pushed[ev.number]
        /\ UNCHANGED <<vars, pushed, decided>>
    BY <1>3 DEF Receive
  <2> HIDE DEF h
  <2>3. received' \in [Events -> 0..MaxDeliveries]
    <3>1. received[ev] + 1 \in 0..MaxDeliveries
      BY <1>3, EventsAssumption DEF Receive, EventsTypeOK
    <3> QED BY <1>3, <3>1 DEF Receive, EventsTypeOK
  <2>4. {g.event : g \in handlers'} \subseteq {g.event : g \in handlers} \cup {ev}
    BY <2>1, <2>2
  <2> QED BY <2>1, <2>2, <2>3, <2>4 DEF EventsTypeOK
<1>4. ASSUME NEW h \in handlers, Read(h) PROVE EventsTypeOK'
  <2>1. PICK answer \in {"unknown", "relevant", "irrelevant"} :
           handlers' = (handlers \ {h}) \cup {[h EXCEPT !.files = answer]}
    BY <1>4 DEF Read
  <2>2. h \in [event : Events, files : Files]
    BY DEF EventsTypeOK
  <2>3. [h EXCEPT !.files = answer] \in [event : Events, files : Files]
        /\ [h EXCEPT !.files = answer].event = h.event
    BY <2>2 DEF Files
  <2>4. handlers' \subseteq [event : Events, files : Files]
    BY <2>1, <2>3 DEF EventsTypeOK
  <2>5. {g.event : g \in handlers'} \subseteq {g.event : g \in handlers}
    BY <2>1, <2>3
  <2> QED BY <1>4, <2>4, <2>5 DEF Read, EventsTypeOK
<1>5. ASSUME NEW h \in handlers, Skip(h) PROVE EventsTypeOK'
  BY <1>5 DEF Skip, EventsTypeOK
<1>6. ASSUME NEW h \in handlers, Analyse(h) PROVE EventsTypeOK'
  BY <1>6 DEF Analyse, EventsTypeOK
<1>7. ASSUME NEW e \in running, Finish(e) PROVE EventsTypeOK'
  BY <1>7 DEF Finish, EventsTypeOK
<1> QED BY <1>1, <1>2, <1>3, <1>4, <1>5, <1>6, <1>7 DEF EventsNext

\* #seen grows by the key of an accepted job only, and loses the key of what
\* is superseded.
LEMMA EnqueueRemembers ==
    ASSUME NEW job, Enqueue(job)
    PROVE  /\ \A s \in seen' \ seen : /\ s.key = Key(job)
                                      /\ \E e \in pending' \cup running' : e.job = job
           /\ \A e \in (pending \cup running) \ (pending' \cup running'), s \in seen' \cap seen :
                 s.key # Key(e.job)
           /\ \/ IsDuplicate(job)
              \/ IsOverloaded(job)
              \/ \E e \in pending' \cup running' : e.job = job
<1>1. CASE EnqueueDuplicate(job)
  BY <1>1 DEF EnqueueDuplicate, vars
<1>2. CASE EnqueueOverloaded(job)
  BY <1>2 DEF EnqueueOverloaded, Remaining, Dropped, Forgotten
<1>3. CASE EnqueueQueued(job)
  <2> DEFINE entry == [job |-> job, ticket |-> arrivals + 1]
             keys  == (seen \ Forgotten(job)) \cup {Remembered(entry)}
  <2>1. seen' \subseteq keys /\ entry \in pending' \cup running'
        /\ (pending \cup running) \ (pending' \cup running') \subseteq Dropped(job)
    BY <1>3 DEF EnqueueQueued, Drain, Started, Remaining
  <2>2. entry.job = job /\ Remembered(entry) = [key |-> Key(job), ticket |-> arrivals + 1]
    BY DEF Remembered
  <2>3. Remembered(entry).key = Key(job)
    BY <2>2
  <2> HIDE DEF entry
  <2>4. \A s \in seen' \ seen : s = Remembered(entry)
    BY <2>1
  <2>5. \A s \in seen' \cap seen : s \notin Forgotten(job)
    BY <1>3, <2>1, <2>3 DEF EnqueueQueued, IsDuplicate
  <2> QED BY <2>1, <2>2, <2>3, <2>4, <2>5 DEF Forgotten
<1> QED BY <1>1, <1>2, <1>3 DEF Enqueue

LEMMA KeysStep ==
    ASSUME EventsTypeOK, KeysAreKept, [EventsNext]_allVars
    PROVE  KeysAreKept'
<1>1. ASSUME UNCHANGED <<pending, running, seen, analysed>> PROVE KeysAreKept'
  BY <1>1 DEF KeysAreKept
<1>2. ASSUME NEW h \in handlers, Analyse(h) PROVE KeysAreKept'
  <2> DEFINE ev == h.event
  <2>1. ev \in Events /\ Enqueue(JobOf(ev)) /\ UNCHANGED analysed
    BY <1>2 DEF Analyse, EventsTypeOK
  <2> HIDE DEF ev
  <2> SUFFICES ASSUME NEW s \in seen'
               PROVE  \E other \in Events :
                         /\ s.key = Key(JobOf(other))
                         /\ \/ HeadOf(other) \in analysed
                            \/ \E e \in pending' \cup running' : e.job = JobOf(other)
    BY <2>1 DEF KeysAreKept
  <2>2. CASE s \in seen
    <3>1. PICK other \in Events :
             /\ s.key = Key(JobOf(other))
             /\ \/ HeadOf(other) \in analysed
                \/ \E e \in pending \cup running : e.job = JobOf(other)
      BY <2>2 DEF KeysAreKept
    <3>2. ASSUME NEW e \in pending \cup running, e.job = JobOf(other)
          PROVE  e \in pending' \cup running'
      BY <2>1, <2>2, <3>1, <3>2, EnqueueRemembers
    <3> QED BY <3>1, <3>2
  <2>3. CASE s \notin seen
    BY <2>1, <2>3, EnqueueRemembers
  <2> QED BY <2>2, <2>3
<1>3. ASSUME NEW e \in running, Finish(e) PROVE KeysAreKept'
  <2>1. Settle(e) /\ analysed' = analysed \cup {e.job.head} /\ UNCHANGED seen
    BY <1>3 DEF Finish, Settle
  <2>2. ASSUME NEW ev \in Events, NEW f \in pending \cup running, f.job = JobOf(ev)
        PROVE  HeadOf(ev) \in analysed' \/ \E g \in pending' \cup running' : g.job = JobOf(ev)
    BY <2>1, <2>2, SettleAddsNothing, KeyIsHead
  <2> QED BY <2>1, <2>2 DEF KeysAreKept
<1> QED BY <1>1, <1>2, <1>3 DEF EventsNext, allVars, vars, eventVars, Push, Receive, Read, Skip

LEMMA CurrentHeadStep ==
    ASSUME ReplacedHeadsDiffer, EventsTypeOK, KeysAreKept, CurrentHeadIsKept, [EventsNext]_allVars
    PROVE  CurrentHeadIsKept'
<1>1. ASSUME UNCHANGED <<pending, running, pushed, decided, refused, analysed>>
      PROVE  CurrentHeadIsKept'
  BY <1>1 DEF CurrentHeadIsKept, Latest, Head0
<1>2. ASSUME NEW p \in Requests, Push(p) PROVE CurrentHeadIsKept'
  <2>1. /\ pushed' = [pushed EXCEPT ![p] = @ + 1]
        /\ UNCHANGED <<pending, running, decided, refused, analysed>>
    BY <1>2 DEF Push, vars
  <2>2. pushed \in [Requests -> Nat] /\ pushed' [p] = pushed[p] + 1 /\ pushed[p] \in Nat
    BY <2>1 DEF EventsTypeOK
  <2>3. Latest(p)' \notin decided
    <3>1. \A ev \in decided : ev.at <= pushed[ev.number]
      BY DEF EventsTypeOK
    <3>2. Latest(p)'.number = p /\ Latest(p)'.at = pushed[p] + 1
      BY <2>2 DEF Latest
    <3> QED BY <2>2, <3>1, <3>2
  <2>4. ASSUME NEW q \in Requests, q # p PROVE Latest(q)' = Latest(q) /\ Head0(q)' = Head0(q)
    <3>1. pushed'[q] = pushed[q]
      BY <2>1, <2>2, <2>4
    <3> QED BY <3>1 DEF Latest, Head0
  <2> QED BY <2>1, <2>3, <2>4 DEF CurrentHeadIsKept
<1>3. ASSUME NEW h \in handlers, Analyse(h) PROVE CurrentHeadIsKept'
  <2> DEFINE ev == h.event
             job == JobOf(ev)
  <2>1. /\ ev \in Events /\ ev.at <= pushed[ev.number]
        /\ Enqueue(job) /\ decided' = decided \cup {ev} /\ UNCHANGED <<pushed, analysed>>
        /\ refused \subseteq refused'
        /\ ~IsDuplicate(job) /\ IsOverloaded(job) => job.head \in refused'
    BY <1>3 DEF Analyse, EventsTypeOK
  <2> HIDE DEF ev
  <2>2. \A p \in Requests : Latest(p)' = Latest(p) /\ Head0(p)' = Head0(p)
    BY <2>1 DEF Latest, Head0
  <2> SUFFICES ASSUME NEW p \in Requests, Latest(p) \in decided \cup {ev}
               PROVE  \/ Head0(p) \in analysed \cup refused'
                      \/ \E e \in pending' \cup running' : e.job.head = Head0(p)
    BY <2>1, <2>2 DEF CurrentHeadIsKept
  <2>3. ASSUME NEW e \in pending \cup running, e.job.head = Head0(p)
        PROVE  e \in pending' \cup running'
    <3>1. ~Supersedes(job, e.job)
      BY <2>1, <2>3, CurrentIsNotSuperseded
    <3> HIDE DEF job
    <3> QED BY <2>1, <3>1, EnqueueAddsOnlyItsJob
  <2>4. CASE Latest(p) \in decided
    BY <2>1, <2>3, <2>4 DEF CurrentHeadIsKept
  <2>5. CASE Latest(p) = ev
    <3>1. Head0(p) = HeadOf(ev) /\ job.head = HeadOf(ev) /\ Key(job) = <<Repo, HeadOf(ev)>>
      BY <2>1, <2>5, LatestIsEvent, KeyIsHead
    <3>2. CASE IsDuplicate(job)
      <4>1. PICK s \in seen : s.key = Key(job)
        BY <3>2 DEF IsDuplicate
      <4>2. PICK other \in Events :
               /\ s.key = Key(JobOf(other))
               /\ \/ HeadOf(other) \in analysed
                  \/ \E e \in pending \cup running : e.job = JobOf(other)
        BY DEF KeysAreKept
      <4>3. Key(JobOf(other)) = <<Repo, HeadOf(other)>> /\ JobOf(other).head = HeadOf(other)
        BY KeyIsHead
      <4>4. HeadOf(other) = HeadOf(ev)
        BY <3>1, <4>1, <4>2, <4>3
      <4> QED BY <2>3, <3>1, <4>2, <4>3, <4>4
    <3>3. CASE ~IsDuplicate(job) /\ IsOverloaded(job)
      BY <2>1, <3>1, <3>3
    <3>4. CASE ~IsDuplicate(job) /\ ~IsOverloaded(job)
      <4> HIDE DEF job
      <4> QED BY <2>1, <3>1, <3>4, EnqueueRemembers
    <3> QED BY <3>2, <3>3, <3>4
  <2> QED BY <2>4, <2>5
<1>4. ASSUME NEW e \in running, Finish(e) PROVE CurrentHeadIsKept'
  <2>1. /\ Settle(e) /\ analysed' = analysed \cup {e.job.head}
        /\ UNCHANGED <<pushed, decided, refused>>
    BY <1>4 DEF Finish
  <2>2. \A p \in Requests : Latest(p)' = Latest(p) /\ Head0(p)' = Head0(p)
    BY <2>1 DEF Latest, Head0
  <2> QED BY <2>1, <2>2, SettleAddsNothing DEF CurrentHeadIsKept
<1> QED BY <1>1, <1>2, <1>3, <1>4 DEF EventsNext, allVars, vars, eventVars, Receive, Read, Skip

LEMMA EventsStart == EventsInit => QueueInv /\ EventsTypeOK /\ KeysAreKept /\ CurrentHeadIsKept
<1> SUFFICES ASSUME EventsInit PROVE QueueInv /\ EventsTypeOK /\ KeysAreKept /\ CurrentHeadIsKept
  OBVIOUS
<1>1. QueueInv
  BY InitInv DEF EventsInit
<1>2. EventsTypeOK
  <2>1. pushed \in [Requests -> Nat] /\ \A p \in Requests : pushed[p] \in DOMAIN History[p]
    BY EventFacts DEF EventsInit
  <2>2. received \in [Events -> 0..MaxDeliveries]
    BY EventsAssumption DEF EventsInit
  <2> QED BY <1>1, <2>1, <2>2 DEF EventsTypeOK, EventsInit, QueueInv
<1> QED BY <1>1, <1>2 DEF EventsInit, Init, KeysAreKept, CurrentHeadIsKept

LEMMA EventsStep ==
    QueueInv /\ EventsTypeOK /\ [EventsNext]_allVars => [Next]_vars /\ QueueInv' /\ EventsTypeOK'
<1> SUFFICES ASSUME QueueInv, EventsTypeOK, [EventsNext]_allVars
             PROVE  [Next]_vars /\ QueueInv' /\ EventsTypeOK'
  OBVIOUS
<1>1. [Next]_vars
  BY EventsStepUsesTheQueue
<1>2. QueueInv'
  BY <1>1, NextKeepsInv
<1> QED BY <1>1, <1>2, EventsTypeStep DEF QueueInv

\* The types of the events' variables and the queue's invariant, for every
\* history, number of deliveries and order in which they come.
THEOREM EventsAreTyped == EventsSpec => [](QueueInv /\ EventsTypeOK)
<1>1. EventsInit => QueueInv /\ EventsTypeOK
  BY EventsStart
<1> QED BY <1>1, EventsStep, PTL DEF EventsSpec

\* Whatever the handlers of pull requests do, the queue behaves as module
\* JobQueue says: what is proved of it (JobQueueProofs) holds beneath them.
THEOREM EventsUseTheQueue == EventsSpec => Spec
<1>1. EventsInit => Init
  BY DEF EventsInit
<1>2. EventsInit => QueueInv /\ EventsTypeOK
  BY EventsStart
<1> QED BY <1>1, <1>2, EventsStep, PTL DEF EventsSpec, Spec

\* A delivery that is taken for a duplicate loses nothing, for every history and
\* order of deliveries, heads that return or are shared included: what drops,
\* refuses or evicts a job leaves no key of a head that nobody analyses
\* (jobs.ts:117, 164-165).
THEOREM DuplicatesAreHandled == EventsSpec => []DuplicatesLoseNothing
<1>1. EventsInit => QueueInv /\ EventsTypeOK /\ KeysAreKept
  BY EventsStart
<1>2. QueueInv /\ EventsTypeOK /\ KeysAreKept /\ [EventsNext]_allVars
         => QueueInv' /\ EventsTypeOK' /\ KeysAreKept'
  BY EventsStep, KeysStep
<1>3. KeysAreKept => DuplicatesLoseNothing
  <2> SUFFICES ASSUME KeysAreKept, NEW ev \in Events, IsDuplicate(JobOf(ev))
               PROVE  \/ HeadOf(ev) \in analysed
                      \/ \E e \in pending \cup running : e.job.head = HeadOf(ev)
    BY DEF DuplicatesLoseNothing
  <2>1. PICK s \in seen : s.key = Key(JobOf(ev))
    BY DEF IsDuplicate
  <2>2. PICK other \in Events :
           /\ s.key = Key(JobOf(other))
           /\ \/ HeadOf(other) \in analysed
              \/ \E e \in pending \cup running : e.job = JobOf(other)
    BY DEF KeysAreKept
  <2>3. HeadOf(other) = HeadOf(ev) /\ JobOf(other).head = HeadOf(other)
    <3>1. Key(JobOf(other)) = Key(JobOf(ev))
      BY <2>1, <2>2
    <3>2. Key(JobOf(ev)) = <<Repo, HeadOf(ev)>>
      BY KeyIsHead
    <3>3. Key(JobOf(other)) = <<Repo, HeadOf(other)>> /\ JobOf(other).head = HeadOf(other)
      BY KeyIsHead
    <3> QED BY <3>1, <3>2, <3>3
  <2> QED BY <2>2, <2>3
<1> QED BY <1>1, <1>2, <1>3, PTL DEF EventsSpec

\* "Matching on beforeSha keeps a late or redelivered older event from dropping
\* the current head's job" (jobs.ts): true for every order and repetition of the
\* deliveries and every limit of the queue, of histories in which no pull request
\* returns to a head that was replaced and none has another's replaced head.
THEOREM CurrentHeadSurvives == ReplacedHeadsDiffer => (EventsSpec => []CurrentHeadIsKept)
<1> SUFFICES ASSUME ReplacedHeadsDiffer PROVE EventsSpec => []CurrentHeadIsKept
  OBVIOUS
<1> DEFINE IInv == QueueInv /\ EventsInv
<1>1. EventsInit => IInv
  BY EventsStart DEF EventsInv
<1>2. IInv /\ [EventsNext]_allVars => IInv'
  <2> SUFFICES ASSUME IInv, [EventsNext]_allVars PROVE IInv'
    OBVIOUS
  <2>1. QueueInv' /\ EventsTypeOK'
    BY EventsStep DEF EventsInv
  <2>2. KeysAreKept' /\ CurrentHeadIsKept'
    BY KeysStep, CurrentHeadStep DEF EventsInv
  <2> QED BY <2>1, <2>2 DEF EventsInv
<1>3. IInv => CurrentHeadIsKept
  BY DEF EventsInv
<1> QED BY <1>1, <1>2, <1>3, PTL DEF EventsSpec

-----------------------------------------------------------------------------
(* Lanes                                                                   *)

LEMMA CandidateFacts ==
    ASSUME LanesAssumption
    PROVE  /\ DOMAIN Candidates = 1 .. Len(Candidates) /\ Len(Candidates) \in Nat
           /\ \A i \in DOMAIN Candidates : Candidates[i] \in Repositories
           /\ \A r \in Repositories : JobFor[r] \in Jobs /\ JobFor[r].repo = r /\ r # NoRepository
           /\ \A r \in Repositories : \E i \in DOMAIN Candidates : Candidates[i] = r
BY DEF LanesAssumption, Repositories

\* A lane that takes no candidate keeps to its own: others are not touched.
\* Its stage goes on while the candidate's outcome stays what it is, or the
\* lane ends and its candidate has an outcome.
LaneMoves(l, at, what) ==
    /\ lane[l].repo # NoRepository /\ at \in Stages \ {"idle", "done"}
    /\ lane' = [lane EXCEPT ![l].at = at]
    /\ outcome' = [outcome EXCEPT ![lane[l].repo] = what]
    /\ what \in {"none", "accepted", "refused", "failed"}
    /\ at \in {"token", "repository", "branch"} => what = "none"
    /\ at \in {"busyToken", "busyRun"} => what = "refused"
    /\ outcome[lane[l].repo] \in {"none", what} /\ next' = next

LaneEnds(l, what) ==
    /\ lane[l].repo # NoRepository
    /\ Ends(l, lane[l].repo, what)
    /\ what \in {"accepted", "refused", "failed"}
    /\ outcome[lane[l].repo] \in {"none", what} /\ next' = next

LEMMA LaneMovesKeepsInv ==
    ASSUME LanesAssumption, LanesInv, NEW l \in Lanes, NEW at, NEW what, LaneMoves(l, at, what)
    PROVE  LanesInv'
<1> DEFINE r == lane[l].repo
<1>1. /\ lane \in [Lanes -> [at : Stages, repo : Repositories \cup {NoRepository}]]
      /\ outcome \in [Repositories -> {"none", "accepted", "refused", "failed"}]
      /\ r \in Repositories /\ outcome[r] \in {"none", what}
      /\ at \in Stages \ {"idle", "done"}
  BY DEF LanesInv, LaneMoves
<1>2. /\ lane' \in [Lanes -> [at : Stages, repo : Repositories \cup {NoRepository}]]
      /\ lane'[l].at = at /\ lane'[l].repo = r
      /\ \A k \in Lanes : lane'[k].repo = lane[k].repo
      /\ \A k \in Lanes \ {l} : lane'[k] = lane[k]
  BY <1>1 DEF LaneMoves
<1>3. /\ outcome' \in [Repositories -> {"none", "accepted", "refused", "failed"}]
      /\ outcome'[r] = what /\ \A q \in Repositories \ {r} : outcome'[q] = outcome[q]
  BY <1>1 DEF LaneMoves
<1>4. \A k \in Lanes \ {l} : lane[k].repo # r
  BY <1>1 DEF LanesInv, LaneMoves
<1>5. \A k \in Lanes :
        /\ lane'[k].at \in {"idle", "done"} <=> lane'[k].repo = NoRepository
        /\ lane'[k].at \in {"token", "repository", "branch"} => outcome'[lane'[k].repo] = "none"
        /\ lane'[k].at \in {"busyToken", "busyRun"} => outcome'[lane'[k].repo] = "refused"
  <2>1. ASSUME NEW k \in Lanes, k # l
        PROVE  /\ lane'[k].at \in {"idle", "done"} <=> lane'[k].repo = NoRepository
               /\ lane'[k].at \in {"token", "repository", "branch"} => outcome'[lane'[k].repo] = "none"
               /\ lane'[k].at \in {"busyToken", "busyRun"} => outcome'[lane'[k].repo] = "refused"
    <3>1. lane'[k] = lane[k] /\ lane[k].repo # r /\ lane[k].at \in Stages
          /\ lane[k].repo \in Repositories \cup {NoRepository}
      BY <1>1, <1>2, <1>4, <2>1
    <3>2. lane[k].at \in {"idle", "done"} <=> lane[k].repo = NoRepository
      BY DEF LanesInv
    <3>3. lane[k].repo # NoRepository => outcome'[lane[k].repo] = outcome[lane[k].repo]
      BY <1>3, <3>1
    <3> QED BY <3>1, <3>2, <3>3 DEF LanesInv
  <2>2. /\ lane'[l].at \in {"idle", "done"} <=> lane'[l].repo = NoRepository
        /\ lane'[l].at \in {"token", "repository", "branch"} => outcome'[lane'[l].repo] = "none"
        /\ lane'[l].at \in {"busyToken", "busyRun"} => outcome'[lane'[l].repo] = "refused"
    BY <1>2, <1>3 DEF LaneMoves
  <2> QED BY <2>1, <2>2
<1>6. \A k, m \in Lanes : lane'[k].repo = lane'[m].repo /\ lane'[k].repo # NoRepository => k = m
  BY <1>2 DEF LanesInv
<1>7. \A q \in Repositories : InHand(q)' = InHand(q)
  BY <1>2 DEF InHand
<1>8. ASSUME NEW i \in DOMAIN Candidates
      PROVE  i > next <=> (InHand(Candidates[i])' = {} /\ outcome'[Candidates[i]] = "none")
  <2>1. Candidates[i] \in Repositories
    BY CandidateFacts
  <2>2. l \in InHand(r)
    BY DEF InHand
  <2> QED BY <1>3, <1>7, <2>1, <2>2 DEF LanesInv
<1> QED BY <1>2, <1>3, <1>5, <1>6, <1>8 DEF LanesInv, LaneMoves

LEMMA LaneEndsKeepsInv ==
    ASSUME LanesAssumption, LanesInv, NEW l \in Lanes, NEW what, LaneEnds(l, what)
    PROVE  LanesInv'
<1> DEFINE r == lane[l].repo
<1>1. /\ lane \in [Lanes -> [at : Stages, repo : Repositories \cup {NoRepository}]]
      /\ outcome \in [Repositories -> {"none", "accepted", "refused", "failed"}]
      /\ r \in Repositories
  BY DEF LanesInv, LaneEnds
<1>2. /\ lane' \in [Lanes -> [at : Stages, repo : Repositories \cup {NoRepository}]]
      /\ lane'[l].at = "idle" /\ lane'[l].repo = NoRepository
      /\ \A k \in Lanes \ {l} : lane'[k] = lane[k]
  BY <1>1 DEF LaneEnds, Ends, Stages
<1>3. /\ outcome' \in [Repositories -> {"none", "accepted", "refused", "failed"}]
      /\ outcome'[r] = what /\ \A q \in Repositories \ {r} : outcome'[q] = outcome[q]
  BY <1>1 DEF LaneEnds, Ends
<1>4. \A k \in Lanes \ {l} : lane[k].repo # r
  BY <1>1 DEF LanesInv, LaneEnds
<1>5. ASSUME NEW k \in Lanes
      PROVE  /\ lane'[k].at \in {"idle", "done"} <=> lane'[k].repo = NoRepository
             /\ lane'[k].at \in {"token", "repository", "branch"} => outcome'[lane'[k].repo] = "none"
             /\ lane'[k].at \in {"busyToken", "busyRun"} => outcome'[lane'[k].repo] = "refused"
  <2>1. CASE k = l
    BY <1>2, <2>1
  <2>2. CASE k # l
    <3>1. lane'[k] = lane[k] /\ lane[k].repo # r
          /\ lane[k].repo \in Repositories \cup {NoRepository}
      BY <1>1, <1>2, <1>4, <2>2
    <3>2. lane[k].at \in {"idle", "done"} <=> lane[k].repo = NoRepository
      BY DEF LanesInv
    <3>3. lane[k].repo # NoRepository => outcome'[lane[k].repo] = outcome[lane[k].repo]
      BY <1>3, <3>1
    <3> QED BY <3>1, <3>2, <3>3 DEF LanesInv
  <2> QED BY <2>1, <2>2
<1>6. \A k, m \in Lanes : lane'[k].repo = lane'[m].repo /\ lane'[k].repo # NoRepository => k = m
  BY <1>2 DEF LanesInv
<1>7. \A q \in Repositories \ {r} : InHand(q)' = InHand(q)
  <2>1. ASSUME NEW q \in Repositories, q # r, NEW k \in Lanes
        PROVE  lane'[k].repo = q <=> lane[k].repo = q
    BY <1>2, <2>1, CandidateFacts
  <2> QED BY <2>1 DEF InHand
<1>8. ASSUME NEW i \in DOMAIN Candidates
      PROVE  i > next <=> (InHand(Candidates[i])' = {} /\ outcome'[Candidates[i]] = "none")
  <2>1. Candidates[i] \in Repositories
    BY CandidateFacts
  <2>2. l \in InHand(r) /\ what # "none"
    BY DEF InHand, LaneEnds
  <2> QED BY <1>3, <1>7, <2>1, <2>2 DEF LanesInv
<1> QED BY <1>2, <1>3, <1>5, <1>6, <1>8 DEF LanesInv, LaneEnds

\* Two lanes never take the same candidate: the index moves with the take.
LEMMA TakeKeepsInv ==
    ASSUME LanesAssumption, LanesInv, NEW l \in Lanes, Take(l)
    PROVE  LanesInv'
<1> PICK n \in DOMAIN Candidates : n = next + 1
  BY CandidateFacts DEF LanesInv, Take
<1> DEFINE r == Candidates[n]
<1>1. /\ lane \in [Lanes -> [at : Stages, repo : Repositories \cup {NoRepository}]]
      /\ next \in Nat /\ n = next + 1 /\ r \in Repositories /\ r # NoRepository
      /\ lane[l].repo = NoRepository
  BY CandidateFacts DEF LanesInv, Take
<1>2. /\ lane' \in [Lanes -> [at : Stages, repo : Repositories \cup {NoRepository}]]
      /\ lane'[l].at = "token" /\ lane'[l].repo = r
      /\ \A k \in Lanes \ {l} : lane'[k] = lane[k]
      /\ next' = n /\ outcome' = outcome
  BY <1>1 DEF Take, Stages
<1>3. InHand(r) = {} /\ outcome[r] = "none"
  BY <1>1 DEF LanesInv
<1>4. \A k, m \in Lanes : lane'[k].repo = lane'[m].repo /\ lane'[k].repo # NoRepository => k = m
  BY <1>2, <1>3 DEF LanesInv, InHand
<1>5. \A q \in Repositories \ {r} : InHand(q)' = InHand(q)
  <2>1. ASSUME NEW q \in Repositories, q # r, NEW k \in Lanes
        PROVE  lane'[k].repo = q <=> lane[k].repo = q
    BY <1>1, <1>2, <2>1, CandidateFacts
  <2> QED BY <2>1 DEF InHand
<1>6. l \in InHand(r)'
  BY <1>2 DEF InHand
<1>7. ASSUME NEW i \in DOMAIN Candidates
      PROVE  i > n <=> (InHand(Candidates[i])' = {} /\ outcome[Candidates[i]] = "none")
  <2>1. Candidates[i] \in Repositories /\ i \in Nat
    BY CandidateFacts
  <2>2. CASE i = n
    BY <1>1, <1>6, <2>2
  <2>3. CASE i # n
    <3>1. Candidates[i] # r
      BY <1>1, <2>3 DEF LanesAssumption
    <3>2. i > n <=> i > next
      BY <1>1, <2>1, <2>3
    <3> HIDE DEF r
    <3> QED BY <1>5, <2>1, <3>1, <3>2 DEF LanesInv
  <2> QED BY <2>2, <2>3
<1>8. \A k \in Lanes :
        /\ lane'[k].at \in {"idle", "done"} <=> lane'[k].repo = NoRepository
        /\ lane'[k].at \in {"token", "repository", "branch"} => outcome[lane'[k].repo] = "none"
        /\ lane'[k].at \in {"busyToken", "busyRun"} => outcome[lane'[k].repo] = "refused"
  BY <1>1, <1>2, <1>3 DEF LanesInv
<1>9. n \in 0..Len(Candidates)
  BY <1>1, CandidateFacts
<1> QED BY <1>2, <1>4, <1>7, <1>8, <1>9 DEF LanesInv

LEMMA LanesUnchangedKeepInv ==
    ASSUME LanesInv, UNCHANGED <<next, lane, outcome>>
    PROVE  LanesInv'
BY DEF LanesInv, InHand

LEMMA LeaveKeepsInv ==
    ASSUME LanesInv, NEW l \in Lanes, Leave(l)
    PROVE  LanesInv'
<1>1. lane \in [Lanes -> [at : Stages, repo : Repositories \cup {NoRepository}]]
  BY DEF LanesInv
<1>2. /\ lane[l].at = "idle" /\ lane[l].repo = NoRepository /\ UNCHANGED <<next, outcome>>
      /\ lane' \in [Lanes -> [at : Stages, repo : Repositories \cup {NoRepository}]]
      /\ lane'[l].at = "done" /\ lane'[l].repo = NoRepository
      /\ \A k \in Lanes \ {l} : lane'[k] = lane[k]
  BY <1>1 DEF Leave, Moves, LanesInv, Stages
<1>3. \A q : InHand(q)' = InHand(q)
  BY <1>2 DEF InHand
<1> QED BY <1>2, <1>3 DEF LanesInv

\* Every other step of a lane moves it on with its candidate or ends with it.
LEMMA LaneStepKinds ==
    ASSUME LanesInv, NEW l \in Lanes, LaneStep(l)
    PROVE  \/ Take(l) \/ Leave(l)
           \/ \E at, what : LaneMoves(l, at, what)
           \/ \E what : LaneEnds(l, what)
<1>1. /\ lane[l].at \in Stages
      /\ lane[l].at \notin {"idle", "done"} => lane[l].repo \in Repositories /\ lane[l].repo # NoRepository
      /\ lane[l].at \in {"token", "repository", "branch"} => outcome[lane[l].repo] = "none"
      /\ lane[l].at \in {"busyToken", "busyRun"} => outcome[lane[l].repo] = "refused"
      /\ lane[l].repo \in Repositories => outcome = [outcome EXCEPT ![lane[l].repo] = outcome[lane[l].repo]]
  BY DEF LanesInv
<1>2. CASE TokenComes(l)
  <2>1. LaneMoves(l, "repository", "none")
    BY <1>1, <1>2 DEF TokenComes, Moves, LaneMoves, Stages
  <2> QED BY <2>1
<1>3. CASE RepositoryComes(l)
  <2>1. CASE expired
    <3>1. LaneEnds(l, "failed")
      BY <1>1, <1>3, <2>1 DEF RepositoryComes, LaneEnds
    <3> QED BY <3>1
  <2>2. CASE ~expired
    <3>1. LaneMoves(l, "branch", "none")
      BY <1>1, <1>3, <2>2 DEF RepositoryComes, Moves, LaneMoves, Stages
    <3> QED BY <3>1
  <2> QED BY <2>1, <2>2
<1>4. CASE BranchComes(l)
  <2>1. lane[l].at = "branch" /\ next' = next
        /\ \/ Ends(l, lane[l].repo, "accepted")
           \/ Ends(l, lane[l].repo, "refused")
           \/ Moves(l, "busyToken") /\ outcome' = [outcome EXCEPT ![lane[l].repo] = "refused"]
    BY <1>4 DEF BranchComes
  <2>2. ASSUME NEW what \in {"accepted", "refused"}, Ends(l, lane[l].repo, what)
        PROVE  LaneEnds(l, what)
    BY <1>1, <2>1, <2>2 DEF LaneEnds
  <2>3. ASSUME Moves(l, "busyToken") /\ outcome' = [outcome EXCEPT ![lane[l].repo] = "refused"]
        PROVE  LaneMoves(l, "busyToken", "refused")
    BY <1>1, <2>1, <2>3 DEF LaneMoves, Moves, Stages
  <2> QED BY <2>1, <2>2, <2>3
<1>5. CASE BusyTokenComes(l)
  <2>1. LaneMoves(l, "busyRun", "refused")
    BY <1>1, <1>5 DEF BusyTokenComes, Moves, LaneMoves, Stages
  <2> QED BY <2>1
<1>6. CASE BusyRunEnds(l)
  <2>1. LaneEnds(l, "refused")
    BY <1>1, <1>6 DEF BusyRunEnds, LaneEnds
  <2> QED BY <2>1
<1>7. CASE LookupFails(l) \/ GivesUp(l)
  <2>1. LaneEnds(l, "failed")
    BY <1>1, <1>7 DEF LookupFails, GivesUp, LaneEnds
  <2> QED BY <2>1
<1> QED BY <1>2, <1>3, <1>4, <1>5, <1>6, <1>7 DEF LaneStep

LEMMA LanesStart == LanesAssumption /\ LanesInit => LanesInv
<1> SUFFICES ASSUME LanesAssumption, LanesInit PROVE LanesInv
  OBVIOUS
<1>1. /\ next = 0 /\ outcome = [r \in Repositories |-> "none"]
      /\ lane \in [Lanes -> [at : {"idle", "done"}, repo : {NoRepository}]]
  BY DEF LanesInit
<1>2. \A r \in Repositories : InHand(r) = {}
  BY <1>1, CandidateFacts DEF InHand
<1>3. \A i \in DOMAIN Candidates : i > 0 /\ Candidates[i] \in Repositories
  BY CandidateFacts
<1>4. 0 \in 0..Len(Candidates)
  BY CandidateFacts
<1> QED BY <1>1, <1>2, <1>3, <1>4 DEF LanesInv, Stages

LEMMA LanesStep ==
    ASSUME LanesAssumption, LanesInv, [LanesNext]_installationVars
    PROVE  LanesInv'
<1>1. ASSUME NEW l \in Lanes, LaneStep(l) PROVE LanesInv'
  BY <1>1, LaneStepKinds, TakeKeepsInv, LeaveKeepsInv, LaneMovesKeepsInv, LaneEndsKeepsInv
<1>2. ASSUME UNCHANGED <<next, lane, outcome>> PROVE LanesInv'
  BY <1>2, LanesUnchangedKeepInv
<1> QED BY <1>1, <1>2 DEF LanesNext, installationVars, laneVars, Expire, AnswersLate, OtherJob

\* Lanes and other deliveries use the queue's own operations.
LEMMA LanesStepUsesTheQueue ==
    ASSUME LanesAssumption, LanesInv, [LanesNext]_installationVars
    PROVE  [Next]_vars
<1>1. ASSUME NEW l \in Lanes, BranchComes(l) PROVE Next
  <2>1. lane[l].repo \in Repositories
    BY <1>1 DEF LanesInv, BranchComes
  <2>2. JobFor[lane[l].repo] \in Jobs /\ Enqueue(JobFor[lane[l].repo])
    BY <1>1, <2>1, CandidateFacts DEF BranchComes
  <2> QED BY <2>2 DEF Next
<1>2. ASSUME NEW l \in Lanes, LaneStep(l), ~BranchComes(l) PROVE UNCHANGED vars
  BY <1>2 DEF LaneStep, Take, Leave, TokenComes, RepositoryComes, BusyTokenComes, BusyRunEnds,
              LookupFails, GivesUp
<1>3. ASSUME NEW job \in Jobs, OtherJob(job) PROVE Next
  BY <1>3 DEF OtherJob, Next
<1>4. ASSUME NEW e \in running, Settle(e) PROVE Next
  BY <1>4 DEF Next
<1> QED BY <1>1, <1>2, <1>3, <1>4 DEF LanesNext, installationVars, Expire, AnswersLate

LEMMA LanesInvariance == LanesAssumption => (LanesSpec => []LanesInv)
<1> SUFFICES ASSUME LanesAssumption PROVE LanesSpec => []LanesInv
  OBVIOUS
<1>1. LanesInit => LanesInv
  BY LanesStart
<1>2. LanesInv /\ [LanesNext]_installationVars => LanesInv'
  BY LanesStep
<1> QED BY <1>1, <1>2, PTL DEF LanesSpec

\* Whatever the lanes of an installation do, the queue behaves as module
\* JobQueue says.
THEOREM LanesUseTheQueue == LanesAssumption => (LanesSpec => Spec)
<1> SUFFICES ASSUME LanesAssumption PROVE LanesSpec => Spec
  OBVIOUS
<1>1. LanesInit => Init
  BY DEF LanesInit
<1>2. LanesInv /\ [LanesNext]_installationVars => [Next]_vars
  BY LanesStepUsesTheQueue
<1> QED BY <1>1, <1>2, LanesInvariance, PTL DEF LanesSpec, Spec

\* However many lanes share the index, and however their lookups end: no
\* candidate is taken twice or passed over, and next counts those taken
\* (app.ts:284-366).
THEOREM LanesShareTheirIndex == LanesAssumption => (LanesSpec => []EachCandidateOnce)
<1> SUFFICES ASSUME LanesAssumption PROVE LanesSpec => []EachCandidateOnce
  OBVIOUS
<1>1. LanesInv => EachCandidateOnce
  <2> SUFFICES ASSUME LanesInv, NEW i \in DOMAIN Candidates
               PROVE  /\ Cardinality(InHand(Candidates[i])) <= 1
                      /\ i > next <=> (InHand(Candidates[i]) = {} /\ outcome[Candidates[i]] = "none")
    BY DEF EachCandidateOnce
  <2> DEFINE S == InHand(Candidates[i])
  <2>1. \A l, k \in S : l = k
    BY CandidateFacts DEF LanesInv, InHand
  <2>2. S = {} \/ \E l : S = {l}
    BY <2>1
  <2> HIDE DEF S
  <2>3. Cardinality(S) <= 1
    <3>1. S = {} => Cardinality(S) = 0
      BY FS_EmptySet
    <3>2. \A l : S = {l} => Cardinality(S) = 1
      BY FS_Singleton
    <3> QED BY <2>2, <3>1, <3>2
  <2> QED BY <2>3 DEF LanesInv, S
<1> QED BY <1>1, LanesInvariance, PTL

\* A repository has an outcome for good once it has one, and nothing is enqueued
\* for one that was given up: what comes late goes nowhere (app.ts:294-318,
\* rate-limit.ts:82-94).
THEOREM OutcomesAreFinal == LanesAssumption => (LanesSpec => GivenUpIsFinal)
<1> SUFFICES ASSUME LanesAssumption PROVE LanesSpec => GivenUpIsFinal
  OBVIOUS
<1> DEFINE Final == \A r \in Repositories :
              /\ outcome[r] # "none" => outcome'[r] = outcome[r]
              /\ outcome[r] = "failed" =>
                    \A e \in (pending' \cup running') \ (pending \cup running) : e.job # JobFor[r]
<1>1. LanesInv /\ [LanesNext]_installationVars => [Final]_installationVars
  <2> SUFFICES ASSUME LanesInv, [LanesNext]_installationVars PROVE Final
    OBVIOUS
  <2>1. ASSUME NEW r \in Repositories, outcome[r] # "none" PROVE outcome'[r] = outcome[r]
    <3>1. ASSUME NEW l \in Lanes, NEW at, NEW what, LaneMoves(l, at, what)
          PROVE  outcome'[r] = outcome[r]
      BY <2>1, <3>1 DEF LaneMoves, LanesInv
    <3>2. ASSUME NEW l \in Lanes, NEW what, LaneEnds(l, what)
          PROVE  outcome'[r] = outcome[r]
      BY <2>1, <3>2 DEF LaneEnds, Ends, LanesInv
    <3>3. ASSUME NEW l \in Lanes, LaneStep(l) PROVE outcome'[r] = outcome[r]
      BY <3>1, <3>2, <3>3, LaneStepKinds DEF Take, Leave
    <3> QED BY <3>3 DEF LanesNext, installationVars, laneVars, Expire, AnswersLate, OtherJob
  <2>2. ASSUME NEW r \in Repositories, outcome[r] = "failed",
               NEW e \in (pending' \cup running') \ (pending \cup running)
        PROVE  e.job # JobFor[r]
    <3>1. ASSUME NEW l \in Lanes, BranchComes(l) PROVE e.job # JobFor[r]
      <4> DEFINE q == lane[l].repo
      <4>1. q \in Repositories /\ outcome[q] = "none" /\ Enqueue(JobFor[q])
        BY <3>1 DEF BranchComes, LanesInv
      <4>2. JobFor[q].repo = q /\ JobFor[r].repo = r /\ q # r
        BY <2>2, <4>1, CandidateFacts
      <4>3. e.job = JobFor[q]
        BY <4>1, EnqueueAddsOnlyItsJob
      <4> QED BY <4>2, <4>3
    <3>2. ASSUME NEW l \in Lanes, LaneStep(l), ~BranchComes(l) PROVE FALSE
      BY <3>2 DEF LaneStep, Take, Leave, TokenComes, RepositoryComes, BusyTokenComes, BusyRunEnds,
                  LookupFails, GivesUp, vars
    <3>3. ASSUME NEW job \in Jobs, OtherJob(job) PROVE e.job # JobFor[r]
      BY <3>3, EnqueueAddsOnlyItsJob DEF OtherJob
    <3>4. ASSUME NEW f \in running, Settle(f) PROVE FALSE
      BY <3>4, SettleAddsNothing
    <3> QED BY <3>1, <3>2, <3>3, <3>4 DEF LanesNext, installationVars, vars, Expire, AnswersLate
  <2> QED BY <2>1, <2>2
<1> QED BY <1>1, LanesInvariance, PTL DEF LanesSpec, GivenUpIsFinal

-----------------------------------------------------------------------------
(* The client                                                              *)

\* One warning per dip, whatever resources the responses name and in whatever
\* order, and a wait within the retries (rate-limit-log.ts:52-75,
\* rate-limit.ts:37-39).
THEOREM WarningsAndWaits == RateAssumption => (RateSpec => []WarnedOncePerDip)
<1> SUFFICES ASSUME RateAssumption PROVE RateSpec => []WarnedOncePerDip
  OBVIOUS
<1> USE DEF RateAssumption
<1>1. RateInit => RateInv
  BY DEF RateInit, RateInv
<1>2. RateInv /\ [RateNext]_rateVars => RateInv'
  <2> SUFFICES ASSUME RateInv, [RateNext]_rateVars PROVE RateInv'
    OBVIOUS
  <2>1. CASE UNCHANGED rateVars
    BY <2>1 DEF rateVars, RateInv
  <2>2. CASE Respond
    <3>1. PICK h \in Headers : Watch(h)
      BY <2>2 DEF Respond
    <3>2. CASE ~IsReading(h)
      BY <2>2, <3>1, <3>2 DEF Respond, Watch, RateInv
    <3>3. CASE IsReading(h)
      <4> DEFINE r == ResourceOf(h)
      <4>1. r \in Resources
        BY DEF Headers, ResourceOf
      <4>2. /\ warned' = IF IsLow(h) THEN warned \cup {r} ELSE warned \ {r}
            /\ warnings' = [warnings EXCEPT ![r] = IF IsLow(h) /\ r \notin warned THEN @ + 1 ELSE @]
            /\ low' = IF IsLow(h) THEN low \cup {r} ELSE low \ {r}
            /\ dips' = [dips EXCEPT ![r] = IF IsLow(h) /\ r \notin low THEN @ + 1 ELSE @]
        BY <3>1, <3>3 DEF Watch
      <4> HIDE DEF r
      <4>3. warned' = low' /\ warnings' = dips'
        BY <4>2 DEF RateInv
      <4>4. warnings' \in [Resources -> Nat]
        BY <4>1, <4>2 DEF RateInv
      <4> QED BY <2>2, <4>3, <4>4 DEF Respond, RateInv
    <3> QED BY <3>2, <3>3
  <2>3. CASE Exceed
    <3>1. PICK retryAfter \in RetryAfters :
             request' = IF ShouldRetry(retryAfter, request.retries)
                        THEN [retries |-> request.retries + 1, waited |-> request.waited + retryAfter]
                        ELSE [retries |-> 0, waited |-> 0]
      BY <2>3 DEF Exceed
    <3>2. CASE ShouldRetry(retryAfter, request.retries)
      <4> DEFINE n == request.retries
                 w == request.waited
      <4>1. /\ n \in Nat /\ w \in Nat /\ n < MaxRetries /\ w <= n * MaxWait
            /\ retryAfter \in Nat /\ retryAfter <= MaxWait
        BY <3>2 DEF ShouldRetry, RateInv
      <4>2. request'.retries = n + 1 /\ request'.waited = w + retryAfter
            /\ request' \in [retries : Nat, waited : Nat]
        BY <3>1, <3>2, <4>1
      <4> HIDE DEF n, w
      <4>3. w + retryAfter <= (n + 1) * MaxWait
        <5>1. (n + 1) * MaxWait = n * MaxWait + MaxWait /\ n * MaxWait \in Int
          BY <4>1
        <5> QED BY <4>1, <5>1
      <4> QED BY <2>3, <4>1, <4>2, <4>3 DEF Exceed, RateInv
    <3>3. CASE ~ShouldRetry(retryAfter, request.retries)
      BY <2>3, <3>1, <3>3 DEF Exceed, RateInv
    <3> QED BY <3>2, <3>3
  <2> QED BY <2>1, <2>2, <2>3 DEF RateNext
<1>3. RateInv => WarnedOncePerDip
  <2> SUFFICES ASSUME RateInv PROVE request.waited <= MaxRetries * MaxWait
    BY DEF RateInv, WarnedOncePerDip
  <2> DEFINE n == request.retries
             d == MaxRetries - n
  <2>1. n \in Nat /\ d \in Nat /\ request.waited \in Nat /\ request.waited <= n * MaxWait
    BY DEF RateInv
  <2>2. MaxRetries = n + d
    BY <2>1
  <2> HIDE DEF n, d
  <2>3. (n + d) * MaxWait = n * MaxWait + d * MaxWait /\ d * MaxWait \in Nat /\ n * MaxWait \in Nat
    BY <2>1
  <2> QED BY <2>1, <2>2, <2>3
<1> QED BY <1>1, <1>2, <1>3, PTL DEF RateSpec

-----------------------------------------------------------------------------
(* The maintained comment, for every number of scans, edits and remarks.   *)
(* The lock admits one writer at a time because the writers wait for each  *)
(* other in a chain; what a writer read therefore still names the app's    *)
(* one comment when it writes, whatever people do in between.              *)

(* The lock                                                                *)

StagesAreTyped ==
    /\ stage \in [Writers -> Outside \cup Inside]
    /\ tail \in Writers \cup {NoWriter}
    /\ before \in [Writers -> Writers \cup {NoWriter}]
    /\ released \subseteq Writers

\* A writer that comes puts itself behind the last one of the chain.
LEMMA ArriveKeepsLock ==
    ASSUME CommentAssumption, StagesAreTyped, LockInv, NEW p \in Writers, stage[p] = "off",
           stage' = [stage EXCEPT ![p] = "queued"], before' = [before EXCEPT ![p] = tail],
           tail' = p, released' = released
    PROVE  LockInv'
<1>1. /\ stage'[p] = "queued" /\ before'[p] = tail /\ p # NoWriter
      /\ \A q \in Writers \ {p} : stage'[q] = stage[q] /\ before'[q] = before[q]
  BY DEF StagesAreTyped, CommentAssumption, Writers
<1>2. p \notin Here /\ p \notin released
  BY DEF Here, Inside, LockInv
<1>3. Here' = Here \cup {p}
  BY <1>1, <1>2 DEF Here
<1>4. \A q \in Here : before'[q] = before[q] /\ (IsFree(q)' <=> IsFree(q)) /\ before[q] # p
  BY <1>1, <1>2 DEF IsFree, LockInv, Here
<1>5. IsFree(p)' <=> Here = {}
  <2>1. CASE tail \in Here
    <3>1. stage[tail] # "done" /\ tail # NoWriter
      BY <2>1 DEF Here, Inside, CommentAssumption, Writers
    <3>2. tail \notin released
      BY <3>1 DEF LockInv
    <3> QED BY <1>1, <2>1, <3>1, <3>2 DEF IsFree
  <2>2. CASE tail = NoWriter /\ Here = {}
    BY <1>1, <2>2 DEF IsFree
  <2> QED BY <2>1, <2>2 DEF LockInv
<1>6. \A q \in released' : stage'[q] = "done"
  BY <1>1, <1>2 DEF LockInv, StagesAreTyped
<1>7. \A q \in Here' : before'[q] \in Here' \cup released' \cup {NoWriter} /\ before'[q] # p
  BY <1>1, <1>2, <1>3, <1>4 DEF LockInv
<1>8. \A q, r \in Here' :
         (IsFree(q)' /\ IsFree(r)') \/ (before'[q] = before'[r] /\ ~IsFree(q)') => q = r
  BY <1>1, <1>3, <1>4, <1>5 DEF LockInv
<1>9. ASSUME NEW S \in SUBSET (Here'), S # {} PROVE \E q \in S : before'[q] \notin S
  <2>1. CASE S \subseteq {p}
    <3>1. before'[p] # p
      BY <1>1, <1>2 DEF LockInv
    <3> QED BY <1>9, <2>1, <3>1
  <2>2. CASE ~(S \subseteq {p})
    <3>1. S \ {p} \in SUBSET Here /\ S \ {p} # {}
      BY <1>3, <1>9, <2>2
    <3>2. PICK q \in S \ {p} : before[q] \notin S \ {p}
      BY <3>1 DEF LockInv
    <3> QED BY <1>4, <3>1, <3>2
  <2> QED BY <2>1, <2>2
<1>10. \A q \in Writers : stage'[q] \in Inside => IsFree(q)'
  <2>1. stage'[p] \notin Inside
    BY <1>1 DEF Inside
  <2> QED BY <1>1, <1>4, <2>1 DEF LockInv, Here
<1> QED BY <1>3, <1>6, <1>7, <1>8, <1>9, <1>10 DEF LockInv

\* Whoever is in the chain goes on inside the lock only when it waits for nobody.
LEMMA MoveKeepsLock ==
    ASSUME StagesAreTyped, LockInv, NEW p \in Here, IsFree(p), NEW w \in Inside,
           stage' = [stage EXCEPT ![p] = w], UNCHANGED lockVars
    PROVE  LockInv'
<1>1. /\ stage'[p] = w /\ p \in Writers
      /\ \A q \in Writers \ {p} : stage'[q] = stage[q]
      /\ before' = before /\ tail' = tail /\ released' = released
  BY DEF StagesAreTyped, Here, lockVars
<1>2. Here' = Here
  BY <1>1 DEF Here
<1>3. \A q : IsFree(q)' <=> IsFree(q)
  BY <1>1 DEF IsFree
<1>4. \A q \in released : stage'[q] = "done"
  BY <1>1 DEF LockInv, StagesAreTyped, Here, Inside
<1> QED BY <1>1, <1>2, <1>3, <1>4 DEF LockInv

\* A writer that leaves frees the one behind it; if there is none, nobody is here.
LEMMA LeaveKeepsLock ==
    ASSUME CommentAssumption, StagesAreTyped, LockInv, NEW p \in Writers, LeaveLock(p)
    PROVE  LockInv'
<1>1. /\ stage[p] = "leave" /\ stage'[p] = "done" /\ before' = before
      /\ released' = released \cup {p} /\ tail' = IF tail = p THEN NoWriter ELSE tail
      /\ \A q \in Writers \ {p} : stage'[q] = stage[q]
  BY DEF LeaveLock, Goto, StagesAreTyped
<1>2. p \in Here /\ IsFree(p) /\ p # NoWriter
  BY <1>1 DEF Here, Inside, LockInv, CommentAssumption, Writers
<1>3. Here' = Here \ {p}
  BY <1>1 DEF Here, Inside
<1>4. \A q \in Here' : (IsFree(q)' <=> before[q] = p) /\ (before[q] # p => ~IsFree(q)')
  <2>1. \A q \in Here' : ~IsFree(q)
    BY <1>2, <1>3 DEF LockInv
  <2> QED BY <1>1, <2>1 DEF IsFree
<1>5. \A q \in released' : stage'[q] = "done"
  BY <1>1 DEF LockInv, StagesAreTyped
<1>6. tail' \in Here' \/ (tail' = NoWriter /\ Here' = {})
  <2>1. CASE tail # p
    BY <1>1, <1>2, <1>3, <2>1 DEF LockInv
  <2>2. CASE tail = p
    <3>1. ASSUME Here' # {} PROVE FALSE
      <4>1. PICK q \in Here' : before[q] \notin Here'
        BY <1>3, <3>1 DEF LockInv
      <4>2. ~IsFree(q) /\ before[q] \in Here \cup released \cup {NoWriter}
        BY <1>2, <1>3 DEF LockInv
      <4>3. before[q] = p
        BY <1>3, <4>1, <4>2 DEF IsFree
      <4> QED BY <1>3, <2>2, <4>3 DEF LockInv
    <3> QED BY <1>1, <2>2, <3>1
  <2> QED BY <2>1, <2>2
<1>7. \A q \in Here' : before[q] \in Here' \cup released' \cup {NoWriter} /\ before[q] # tail'
  <2>1. \A q \in Here' : before[q] # NoWriter
    BY <1>2, <1>3 DEF LockInv, IsFree
  <2> QED BY <1>1, <1>3, <2>1 DEF LockInv
<1>8. \A q, r \in Here' :
         (IsFree(q)' /\ IsFree(r)') \/ (before[q] = before[r] /\ ~IsFree(q)') => q = r
  <2>1. \A q \in Here' : ~IsFree(q)
    BY <1>2, <1>3 DEF LockInv
  <2> QED BY <1>3, <1>4, <2>1 DEF LockInv
<1>9. \A S \in SUBSET (Here') : S # {} => \E q \in S : before[q] \notin S
  BY <1>3 DEF LockInv
<1>10. \A q \in Writers : stage'[q] \in Inside => IsFree(q)'
  BY <1>1 DEF LockInv, IsFree, Inside
<1> QED BY <1>1, <1>5, <1>6, <1>7, <1>8, <1>9, <1>10 DEF LockInv

\* A delivery that is ignored never joins the chain.
LEMMA IgnoredKeepsLock ==
    ASSUME StagesAreTyped, LockInv, NEW p \in Writers, stage[p] = "off",
           stage' = [stage EXCEPT ![p] = "done"], UNCHANGED lockVars
    PROVE  LockInv'
<1>1. /\ stage'[p] = "done" /\ before' = before /\ tail' = tail /\ released' = released
      /\ \A q \in Writers \ {p} : stage'[q] = stage[q]
  BY DEF StagesAreTyped, lockVars
<1>2. Here' = Here
  BY <1>1 DEF Here, Inside
<1>3. \A q : IsFree(q)' <=> IsFree(q)
  BY <1>1 DEF IsFree
<1>4. \A q \in released : stage'[q] = "done"
  BY <1>1 DEF LockInv, StagesAreTyped
<1>5. \A q \in Writers : stage'[q] \in Inside => IsFree(q)
  BY <1>1 DEF LockInv, Inside
<1> QED BY <1>1, <1>2, <1>3, <1>4, <1>5 DEF LockInv

\* The steps of a writer that is inside, other than its last.
WorkInside(p) ==
    \/ p \in Scans /\ (List(p) \/ Write(p))
    \/ p \in Edits /\ (ReadComment(p) \/ Permission(p) \/ Reread(p) \/ Restore(p))
    \/ Fail(p)

LEMMA WorkStaysInside ==
    ASSUME NEW p \in Writers, WorkInside(p)
    PROVE  /\ stage[p] \in Inside /\ UNCHANGED lockVars
           /\ \E w \in Inside : stage' = [stage EXCEPT ![p] = w]
<1>1. CASE p \in Scans /\ List(p)
  <2>1. PICK w \in {"write", "leave"} : Goto(p, w)
    BY <1>1 DEF List
  <2> QED BY <1>1, <2>1 DEF List, Goto, Inside
<1>2. CASE p \in Scans /\ Write(p)
  BY <1>2 DEF Write, Goto, Inside
<1>3. CASE p \in Edits /\ ReadComment(p)
  BY <1>3 DEF ReadComment, Goto, Inside
<1>4. CASE p \in Edits /\ Permission(p)
  BY <1>4 DEF Permission, Goto, Inside
<1>5. CASE p \in Edits /\ Reread(p)
  BY <1>5 DEF Reread, Goto, Inside
<1>6. CASE p \in Edits /\ Restore(p)
  BY <1>6 DEF Restore, Goto, Inside
<1>7. CASE Fail(p)
  BY <1>7 DEF Fail, Goto, Inside
<1> QED BY <1>1, <1>2, <1>3, <1>4, <1>5, <1>6, <1>7 DEF WorkInside

LEMMA LockIsKept ==
    ASSUME CommentAssumption, StagesAreTyped, LockInv, [CommentNext]_commentVars
    PROVE  LockInv'
<1>1. CASE stage' = stage /\ UNCHANGED lockVars
  BY <1>1 DEF LockInv, Here, IsFree, lockVars
<1>2. CASE Say \/ Close \/ (\E e \in Edits : Edit(e)) \/ UNCHANGED commentVars
  BY <1>1, <1>2 DEF Say, Close, Edit, commentVars
<1>3. ASSUME NEW p \in Writers, Arrive(p) PROVE LockInv'
  <2>1. CASE p \in Edits /\ ~(made[p].from.mark /\ made[p].to.mark)
    BY <1>3, <2>1, IgnoredKeepsLock DEF Arrive, Goto
  <2>2. CASE ~(p \in Edits /\ ~(made[p].from.mark /\ made[p].to.mark))
    BY <1>3, <2>2, ArriveKeepsLock DEF Arrive, Goto
  <2> QED BY <2>1, <2>2
<1>4. ASSUME NEW p \in Writers, Enter(p) PROVE LockInv'
  <2>1. p \in Here /\ IsFree(p)
    BY <1>4 DEF Enter, Here, IsFree
  <2>2. PICK w \in {"list", "read"} : Goto(p, w)
    BY <1>4 DEF Enter
  <2> QED BY <1>4, <2>1, <2>2, MoveKeepsLock DEF Enter, Goto, Inside
<1>5. ASSUME NEW p \in Writers, WorkInside(p) PROVE LockInv'
  <2>1. p \in Here /\ IsFree(p)
    BY <1>5, WorkStaysInside DEF Here, LockInv
  <2> QED BY <1>5, <2>1, WorkStaysInside, MoveKeepsLock
<1>6. ASSUME NEW p \in Writers, LeaveLock(p) PROVE LockInv'
  BY <1>6, LeaveKeepsLock
<1> QED BY <1>2, <1>3, <1>4, <1>5, <1>6 DEF CommentNext, WriterStep, WorkInside

-----------------------------------------------------------------------------
(* The comments                                                            *)

LEMMA RenderIsABody ==
    ASSUME NEW s \in Scans
    PROVE  Render(s) \in Bodies /\ Render(s).mark
BY DEF Render, Bodies, Texts

\* An edit changes no head and never makes a comment the app's.
LEMMA EditedBodies ==
    ASSUME NEW b \in Bodies, NEW d \in Edited(b)
    PROVE  d \in Bodies /\ d.of = b.of
BY DEF Edited, Bodies, Texts

Entries == {Remark} \cup [bot : {TRUE}, body : Bodies]

LEMMA OursHaveBodies ==
    ASSUME comments \in Seq(Entries), NEW i \in DOMAIN comments, comments[i].bot
    PROVE  comments[i] \in [bot : {TRUE}, body : Bodies]
<1>1. comments[i] \in Entries
  OBVIOUS
<1>2. ~Remark.bot
  BY DEF Remark
<1> QED BY <1>1, <1>2 DEF Entries

LEMMA GiveIsTyped ==
    ASSUME comments \in Seq(Entries), NEW i \in DOMAIN comments, comments[i].bot,
           NEW b \in Bodies, Give(i, b)
    PROVE  /\ comments' \in Seq(Entries)
           /\ DOMAIN comments' = DOMAIN comments /\ Len(comments') = Len(comments)
           /\ \A j \in DOMAIN comments : comments'[j].bot = comments[j].bot
           /\ \A j \in DOMAIN comments \ {i} : comments'[j] = comments[j]
           /\ comments'[i].body = b
<1>1. comments[i] \in [bot : {TRUE}, body : Bodies]
  BY OursHaveBodies
<1> DEFINE c == [comments[i] EXCEPT !.body = b]
<1>2. c \in [bot : {TRUE}, body : Bodies] /\ c.bot = comments[i].bot /\ c.body = b
  BY <1>1
<1>3. comments' = [comments EXCEPT ![i] = c]
  BY DEF Give
<1> HIDE DEF c
<1>4. c \in Entries
  BY <1>2 DEF Entries
<1>5. comments' \in Seq(Entries) /\ DOMAIN comments' = DOMAIN comments /\ Len(comments') = Len(comments)
  BY <1>3, <1>4
<1> QED BY <1>2, <1>3, <1>5

LEMMA AppendIsTyped ==
    ASSUME comments \in Seq(Entries), NEW c \in Entries, comments' = Append(comments, c)
    PROVE  /\ comments' \in Seq(Entries)
           /\ DOMAIN comments' = DOMAIN comments \cup {Len(comments) + 1}
           /\ Len(comments') = Len(comments) + 1 /\ Len(comments) \in Nat
           /\ \A j \in DOMAIN comments : comments'[j] = comments[j]
           /\ comments'[Len(comments) + 1] = c
<1>1. comments' \in Seq(Entries) /\ Len(comments') = Len(comments) + 1 /\ Len(comments) \in Nat
  OBVIOUS
<1>2. DOMAIN comments = 1..Len(comments) /\ DOMAIN comments' = 1..Len(comments) + 1
  BY <1>1
<1>3. \A j \in 1..Len(comments) : comments'[j] = comments[j]
  OBVIOUS
<1>4. comments'[Len(comments) + 1] = c
  OBVIOUS
<1> QED BY <1>1, <1>2, <1>3, <1>4

-----------------------------------------------------------------------------
(* What the writers know                                                   *)

DataAreTyped ==
    /\ comments \in Seq(Entries)
    /\ open \in BOOLEAN
    /\ DOMAIN made \subseteq Edits
    /\ \A e \in DOMAIN made : made[e] \in [id : DOMAIN comments, from : Bodies, to : Bodies]
    /\ plan \in [Scans -> 0..Len(comments)]
DataInv == DataAreTyped /\ EditsAreOfOurs /\ WritersKnowTheirComment

LEMMA SyncInvInParts == SyncInv <=> StagesAreTyped /\ LockInv /\ DataInv
BY DEF SyncInv, StagesAreTyped, DataInv, DataAreTyped, CommentTypeOK, Entries

LEMMA StagesStayTyped ==
    ASSUME StagesAreTyped, [CommentNext]_commentVars
    PROVE  StagesAreTyped'
<1>1. CASE Say \/ Close \/ (\E e \in Edits : Edit(e)) \/ UNCHANGED commentVars
  BY <1>1 DEF Say, Close, Edit, commentVars, lockVars, StagesAreTyped
<1>2. ASSUME NEW p \in Writers, Arrive(p) PROVE StagesAreTyped'
  BY <1>2 DEF Arrive, Goto, lockVars, StagesAreTyped, Outside
<1>3. ASSUME NEW p \in Writers, Enter(p) PROVE StagesAreTyped'
  BY <1>3 DEF Enter, Goto, lockVars, StagesAreTyped, Inside
<1>4. ASSUME NEW p \in Writers, WorkInside(p) PROVE StagesAreTyped'
  BY <1>4, WorkStaysInside DEF lockVars, StagesAreTyped
<1>5. ASSUME NEW p \in Writers, LeaveLock(p) PROVE StagesAreTyped'
  BY <1>5 DEF LeaveLock, Goto, StagesAreTyped, Outside
<1> QED BY <1>1, <1>2, <1>3, <1>4, <1>5 DEF CommentNext, WriterStep, WorkInside

\* A step of writer p, or of nobody's: comments are added or rewritten, and p
\* has to know what its next stage presupposes.
LEMMA StepKeepsKnowledge ==
    ASSUME CommentAssumption, StagesAreTyped, DataInv, NEW p \in Writers \cup {NoWriter}, NEW w,
           stage' = [stage EXCEPT ![p] = w], made' = made, open' \in BOOLEAN,
           comments' \in Seq(Entries), Len(comments) <= Len(comments'),
           \A j \in DOMAIN comments : comments'[j].bot = comments[j].bot,
           \A e \in DOMAIN made \ {p} : stage[e] = "restore" =>
              comments'[made[e].id].body.of = comments[made[e].id].body.of,
           plan' \in [Scans -> 0..Len(comments)],
           \A s \in Scans \ {p} : plan'[s] = plan[s],
           p \in Edits => p \in DOMAIN made,
           p \in Edits /\ w \in {"queued"} \cup Inside => made[p].to.mark,
           p \in Edits /\ w = "restore" => comments'[made[p].id].body.of = made[p].from.of,
           p \in Scans /\ w = "write" /\ plan'[p] # 0 => comments[plan'[p]].bot
    PROVE  DataInv'
<1>1. /\ p \in Writers => stage'[p] = w
      /\ \A q \in Writers \ {p} : stage'[q] = stage[q]
  BY DEF StagesAreTyped
<1>2. Len(comments) \in Nat /\ Len(comments') \in Nat /\ DOMAIN comments \subseteq DOMAIN comments'
  BY DEF DataInv, DataAreTyped
<1>3. DataAreTyped'
  <2>1. \A e \in DOMAIN made : made[e] \in [id : DOMAIN comments', from : Bodies, to : Bodies]
    BY <1>2 DEF DataInv, DataAreTyped
  <2>2. plan' \in [Scans -> 0..Len(comments')]
    BY <1>2
  <2> QED BY <2>1, <2>2 DEF DataInv, DataAreTyped
<1>4. EditsAreOfOurs'
  <2> SUFFICES ASSUME NEW e \in DOMAIN made
               PROVE  /\ comments'[made[e].id].bot /\ made[e].from.of = made[e].to.of
                      /\ stage'[e] \in {"queued"} \cup Inside => made[e].to.mark
                      /\ stage'[e] = "restore" => comments'[made[e].id].body.of = made[e].from.of
    BY DEF EditsAreOfOurs
  <2>1. e \in Edits /\ e \in Writers /\ made[e].id \in DOMAIN comments
    BY DEF DataInv, DataAreTyped, Writers
  <2>2. /\ comments[made[e].id].bot /\ made[e].from.of = made[e].to.of
        /\ stage[e] \in {"queued"} \cup Inside => made[e].to.mark
        /\ stage[e] = "restore" => comments[made[e].id].body.of = made[e].from.of
    BY DEF DataInv, EditsAreOfOurs
  <2>3. CASE e = p
    BY <1>1, <2>1, <2>2, <2>3
  <2>4. CASE e # p
    BY <1>1, <2>1, <2>2, <2>4
  <2> QED BY <2>3, <2>4
<1>5. \A s \in Scans : stage'[s] = "write" /\ plan'[s] # 0 =>
         plan'[s] \in DOMAIN comments' /\ comments'[plan'[s]].bot
  <2> SUFFICES ASSUME NEW s \in Scans, stage'[s] = "write", plan'[s] # 0
               PROVE  plan'[s] \in DOMAIN comments /\ comments[plan'[s]].bot
    BY <1>2
  <2>1. plan'[s] \in DOMAIN comments
    BY DEF DataInv, DataAreTyped
  <2>2. CASE s = p
    BY <1>1, <2>1, <2>2 DEF Writers
  <2>3. CASE s # p
    BY <1>1, <2>1, <2>3 DEF DataInv, WritersKnowTheirComment, Writers
  <2> QED BY <2>2, <2>3
<1>6. \A e \in Edits : stage'[e] # "off" => e \in DOMAIN made
  BY <1>1 DEF DataInv, WritersKnowTheirComment, Writers
<1> QED BY <1>3, <1>4, <1>5, <1>6 DEF DataInv, WritersKnowTheirComment

\* The steps that write no comment.
LEMMA MoveKeepsKnowledge ==
    ASSUME CommentAssumption, StagesAreTyped, DataInv, NEW p \in Writers, NEW w,
           stage' = [stage EXCEPT ![p] = w], UNCHANGED <<comments, open, made, plan>>,
           p \in Edits => p \in DOMAIN made,
           p \in Edits /\ w \in {"queued"} \cup Inside => made[p].to.mark,
           p \in Edits /\ w = "restore" => comments[made[p].id].body.of = made[p].from.of,
           w # "write"
    PROVE  DataInv'
<1>1. /\ made' = made /\ open' \in BOOLEAN /\ comments' = comments
      /\ comments' \in Seq(Entries) /\ Len(comments) <= Len(comments')
      /\ plan' \in [Scans -> 0..Len(comments)] /\ plan' = plan
  BY DEF DataInv, DataAreTyped
<1> QED BY <1>1, StepKeepsKnowledge

LEMMA WritersExclude ==
    ASSUME LockInv PROVE OneWriterInside
BY DEF LockInv, OneWriterInside, Here

\* A step that makes no comment the app's.
OursOnlyVanish == \A j \in DOMAIN comments' : Ours(j)' => j \in DOMAIN comments /\ Ours(j)

LEMMA EditKeepsKnowledge ==
    ASSUME CommentAssumption, StagesAreTyped, DataInv, NEW e \in Edits, Edit(e)
    PROVE  /\ DataInv'
           /\ \A j \in DOMAIN comments : comments'[j].body.of = comments[j].body.of
           /\ OursOnlyVanish /\ UNCHANGED <<stage, plan>>
           /\ \A d \in DOMAIN made : d # e /\ made'[d] = made[d]
<1>1. PICK i \in DOMAIN comments : Ours(i) /\ \E b \in Edited(comments[i].body) :
         Give(i, b) /\ made' = [d \in DOMAIN made \cup {e} |->
            IF d = e THEN [id |-> i, from |-> comments[i].body, to |-> b] ELSE made[d]]
  BY DEF Edit
<1>2. PICK b \in Edited(comments[i].body) :
         Give(i, b) /\ made' = [d \in DOMAIN made \cup {e} |->
            IF d = e THEN [id |-> i, from |-> comments[i].body, to |-> b] ELSE made[d]]
  BY <1>1
<1>3. comments[i].bot /\ comments[i].body \in Bodies /\ b \in Bodies /\ b.of = comments[i].body.of
  BY <1>1, OursHaveBodies, EditedBodies DEF Ours, DataInv, DataAreTyped
<1>4. /\ comments' \in Seq(Entries)
      /\ DOMAIN comments' = DOMAIN comments /\ Len(comments') = Len(comments)
      /\ \A j \in DOMAIN comments : comments'[j].bot = comments[j].bot
      /\ \A j \in DOMAIN comments \ {i} : comments'[j] = comments[j]
      /\ comments'[i].body = b
  BY <1>2, <1>3, GiveIsTyped DEF DataInv, DataAreTyped
<1>5. \A j \in DOMAIN comments : comments'[j].body.of = comments[j].body.of
  BY <1>3, <1>4
<1>6. /\ stage' = stage /\ open' = open /\ plan' = plan /\ e \notin DOMAIN made /\ stage[e] = "off"
      /\ DOMAIN made' = DOMAIN made \cup {e}
      /\ made'[e] = [id |-> i, from |-> comments[i].body, to |-> b]
      /\ \A d \in DOMAIN made : made'[d] = made[d]
  BY <1>2 DEF Edit, DataInv, WritersKnowTheirComment
<1>7. DataAreTyped'
  BY <1>3, <1>4, <1>6 DEF DataInv, DataAreTyped
<1>8. EditsAreOfOurs'
  <2> SUFFICES ASSUME NEW d \in DOMAIN made'
               PROVE  /\ comments'[made'[d].id].bot /\ made'[d].from.of = made'[d].to.of
                      /\ stage[d] \in {"queued"} \cup Inside => made'[d].to.mark
                      /\ stage[d] = "restore" => comments'[made'[d].id].body.of = made'[d].from.of
    BY <1>6 DEF EditsAreOfOurs
  <2>1. CASE d = e
    BY <1>3, <1>4, <1>6, <2>1 DEF Inside
  <2>2. CASE d \in DOMAIN made
    BY <1>4, <1>5, <1>6, <2>2 DEF DataInv, DataAreTyped, EditsAreOfOurs
  <2> QED BY <1>6, <2>1, <2>2
<1>9. WritersKnowTheirComment'
  BY <1>4, <1>6 DEF DataInv, WritersKnowTheirComment
<1>10. OursOnlyVanish
  BY <1>1, <1>4 DEF OursOnlyVanish, Ours
<1> QED BY <1>5, <1>6, <1>7, <1>8, <1>9, <1>10 DEF DataInv

LEMMA SayKeepsKnowledge ==
    ASSUME CommentAssumption, StagesAreTyped, DataInv, Say
    PROVE  DataInv'
<1>1. Remark \in Entries /\ comments' = Append(comments, Remark)
      /\ UNCHANGED <<open, made, stage, plan>>
  BY DEF Entries, Say
<1>2. /\ comments' \in Seq(Entries) /\ Len(comments) <= Len(comments')
      /\ \A j \in DOMAIN comments : comments'[j] = comments[j]
  BY <1>1, AppendIsTyped DEF DataInv, DataAreTyped
<1>3. NoWriter \notin Writers /\ NoWriter \notin Edits /\ NoWriter \notin Scans
  BY DEF CommentAssumption, Writers
<1>4. stage' = [stage EXCEPT ![NoWriter] = "done"]
  BY <1>1, <1>3 DEF StagesAreTyped
<1>5. open' \in BOOLEAN /\ plan' = plan /\ plan' \in [Scans -> 0..Len(comments)] /\ made' = made
  BY <1>1 DEF DataInv, DataAreTyped
<1>6. \A e \in DOMAIN made : comments'[made[e].id] = comments[made[e].id]
  BY <1>2 DEF DataInv, DataAreTyped
<1> QED BY <1>2, <1>3, <1>4, <1>5, <1>6, StepKeepsKnowledge

LEMMA ListKeepsKnowledge ==
    ASSUME CommentAssumption, StagesAreTyped, DataInv, NEW s \in Scans, List(s)
    PROVE  DataInv'
<1>1. s \in Writers /\ s \notin Edits
  BY DEF CommentAssumption, Writers
<1>2. /\ comments' = comments /\ made' = made /\ open' \in BOOLEAN
      /\ comments' \in Seq(Entries) /\ Len(comments) <= Len(comments') /\ Len(comments) \in Nat
  BY DEF List, DataInv, DataAreTyped
<1>3. \E w, i : /\ stage' = [stage EXCEPT ![s] = w]
                /\ \/ plan' = [plan EXCEPT ![s] = i] /\ (i = 0 \/ i \in Owned)
                   \/ plan' = plan /\ w = "leave"
  BY DEF List, Goto
<1>4. PICK w, i : /\ stage' = [stage EXCEPT ![s] = w]
                  /\ \/ plan' = [plan EXCEPT ![s] = i] /\ (i = 0 \/ i \in Owned)
                     \/ plan' = plan /\ w = "leave"
  BY <1>3
<1>5. plan' \in [Scans -> 0..Len(comments)] /\ \A r \in Scans \ {s} : plan'[r] = plan[r]
  BY <1>2, <1>4 DEF Owned, DataInv, DataAreTyped
<1>6. w = "write" /\ plan'[s] # 0 => comments[plan'[s]].bot
  BY <1>4 DEF Owned, Ours, DataInv, DataAreTyped
<1> QED BY <1>1, <1>2, <1>4, <1>5, <1>6, StepKeepsKnowledge

LEMMA WriteKeepsKnowledge ==
    ASSUME CommentAssumption, StagesAreTyped, LockInv, DataInv, NEW s \in Scans, Write(s)
    PROVE  DataInv'
<1>1. s \in Writers /\ s \notin Edits
  BY DEF CommentAssumption, Writers
<1>2. /\ made' = made /\ open' \in BOOLEAN /\ stage' = [stage EXCEPT ![s] = "leave"]
      /\ plan' = plan /\ plan' \in [Scans -> 0..Len(comments)] /\ comments \in Seq(Entries)
  BY DEF Write, Goto, DataInv, DataAreTyped
<1>3. /\ comments' \in Seq(Entries) /\ Len(comments) <= Len(comments')
      /\ \A j \in DOMAIN comments : comments'[j].bot = comments[j].bot
  <2>1. CASE plan[s] = 0
    <3>1. [bot |-> TRUE, body |-> Render(s)] \in Entries
      BY RenderIsABody DEF Entries
    <3> QED BY <1>2, <2>1, <3>1, AppendIsTyped DEF Write
  <2>2. CASE plan[s] # 0
    <3>1. plan[s] \in DOMAIN comments /\ comments[plan[s]].bot
      BY <2>2 DEF Write, DataInv, WritersKnowTheirComment
    <3> QED BY <1>2, <2>2, <3>1, RenderIsABody, GiveIsTyped DEF Write
  <2> QED BY <2>1, <2>2
<1>4. \A e \in DOMAIN made : stage[e] # "restore"
  BY <1>1, WritersExclude DEF Write, OneWriterInside, Inside, Writers, DataInv, DataAreTyped
<1> QED BY <1>1, <1>2, <1>3, <1>4, StepKeepsKnowledge

LEMMA RestoreKeepsKnowledge ==
    ASSUME CommentAssumption, StagesAreTyped, LockInv, DataInv, NEW e \in Edits, Restore(e)
    PROVE  /\ DataInv'
           /\ \A j \in DOMAIN comments : comments'[j].body.of = comments[j].body.of
           /\ \A j \in DOMAIN comments \ {made[e].id} : comments'[j] = comments[j]
           /\ DOMAIN comments' = DOMAIN comments
<1>1. /\ e \in Writers /\ e \notin Scans /\ e \in DOMAIN made /\ made[e].id \in DOMAIN comments
      /\ made[e].from \in Bodies /\ made[e].to.mark
      /\ comments[made[e].id].bot /\ comments[made[e].id].body.of = made[e].from.of
  BY DEF CommentAssumption, Writers, DataInv, DataAreTyped, WritersKnowTheirComment, EditsAreOfOurs,
         Restore, Inside
<1>2. /\ made' = made /\ open' \in BOOLEAN /\ stage' = [stage EXCEPT ![e] = "leave"]
      /\ plan' = plan /\ plan' \in [Scans -> 0..Len(comments)] /\ comments \in Seq(Entries)
      /\ Len(comments) \in Nat
  BY DEF Restore, Goto, DataInv, DataAreTyped
<1> DEFINE b == IF OnlyTicks(e) THEN [made[e].from EXCEPT !.notes = @ + 1] ELSE made[e].from
<1>3. b \in Bodies /\ b.of = made[e].from.of
  BY <1>1 DEF Bodies
<1>4. Give(made[e].id, b)
  BY DEF Restore
<1> HIDE DEF b
<1>5. /\ comments' \in Seq(Entries)
      /\ DOMAIN comments' = DOMAIN comments /\ Len(comments') = Len(comments)
      /\ \A j \in DOMAIN comments : comments'[j].bot = comments[j].bot
      /\ \A j \in DOMAIN comments \ {made[e].id} : comments'[j] = comments[j]
      /\ comments'[made[e].id].body = b
  BY <1>1, <1>2, <1>3, <1>4, GiveIsTyped
<1>6. \A j \in DOMAIN comments : comments'[j].body.of = comments[j].body.of
  BY <1>1, <1>3, <1>5
<1>7. \A d \in DOMAIN made : comments'[made[d].id].body.of = comments[made[d].id].body.of
  BY <1>6 DEF DataInv, DataAreTyped
<1>8. DataInv'
  <2>1. Len(comments) <= Len(comments')
    BY <1>2, <1>5
  <2>2. \A s \in Scans \ {e} : plan'[s] = plan[s]
    BY <1>2
  <2> QED BY <1>1, <1>2, <1>5, <1>7, <2>1, <2>2, StepKeepsKnowledge
<1> QED BY <1>5, <1>6, <1>8

LEMMA KnowledgeIsKept ==
    ASSUME CommentAssumption, StagesAreTyped, LockInv, DataInv, [CommentNext]_commentVars
    PROVE  DataInv'
<1>1. CASE UNCHANGED commentVars
  BY <1>1 DEF commentVars, DataInv, DataAreTyped, EditsAreOfOurs, WritersKnowTheirComment
<1>2. CASE Close
  BY <1>2 DEF Close, DataInv, DataAreTyped, EditsAreOfOurs, WritersKnowTheirComment
<1>3. ASSUME NEW p \in Writers, stage[p] \in {"queued"} \cup Inside
      PROVE  p \in Edits => p \in DOMAIN made /\ made[p].to.mark
  BY <1>3 DEF DataInv, WritersKnowTheirComment, EditsAreOfOurs, Inside
<1>4. ASSUME NEW p \in Writers, Arrive(p) PROVE DataInv'
  <2>1. CASE p \in Edits /\ ~(made[p].from.mark /\ made[p].to.mark)
    <3>1. stage' = [stage EXCEPT ![p] = "done"] /\ UNCHANGED <<comments, open, made, plan>>
          /\ p \in DOMAIN made
      BY <1>4, <2>1 DEF Arrive, Goto
    <3> QED BY <3>1, MoveKeepsKnowledge DEF Inside
  <2>2. CASE ~(p \in Edits /\ ~(made[p].from.mark /\ made[p].to.mark))
    <3>1. stage' = [stage EXCEPT ![p] = "queued"] /\ UNCHANGED <<comments, open, made, plan>>
          /\ (p \in Edits => p \in DOMAIN made /\ made[p].to.mark)
      BY <1>4, <2>2 DEF Arrive, Goto
    <3> QED BY <3>1, MoveKeepsKnowledge
  <2> QED BY <2>1, <2>2
<1>5. ASSUME NEW p \in Writers, Enter(p) PROVE DataInv'
  <2>1. PICK w \in {"list", "read"} : stage' = [stage EXCEPT ![p] = w]
    BY <1>5 DEF Enter, Goto
  <2>2. UNCHANGED <<comments, open, made, plan>>
        /\ (p \in Edits => p \in DOMAIN made /\ made[p].to.mark)
    BY <1>3, <1>5 DEF Enter
  <2>3. w # "restore" /\ w # "write"
    BY <2>1
  <2> QED BY <2>1, <2>2, <2>3, MoveKeepsKnowledge
<1>6. ASSUME NEW s \in Scans, List(s) PROVE DataInv'
  BY <1>6, ListKeepsKnowledge
<1>7. ASSUME NEW s \in Scans, Write(s) PROVE DataInv'
  BY <1>7, WriteKeepsKnowledge
<1>8. ASSUME NEW e \in Edits, ReadComment(e) \/ Permission(e) PROVE DataInv'
  <2>1. PICK w \in {"permission", "reread", "leave"} : stage' = [stage EXCEPT ![e] = w]
    BY <1>8 DEF ReadComment, Permission, Goto
  <2>2. e \in Writers /\ UNCHANGED <<comments, open, made, plan>> /\ stage[e] \in Inside
    BY <1>8 DEF ReadComment, Permission, Inside, Writers
  <2>3. w # "restore" /\ w # "write"
    BY <2>1
  <2> QED BY <1>3, <2>1, <2>2, <2>3, MoveKeepsKnowledge
<1>9. ASSUME NEW e \in Edits, Reread(e) PROVE DataInv'
  <2>1. PICK w \in {"restore", "leave"} :
           stage' = [stage EXCEPT ![e] = w] /\ (w = "restore" => Live(e))
    BY <1>9 DEF Reread, Goto
  <2>2. e \in Writers /\ UNCHANGED <<comments, open, made, plan>> /\ stage[e] \in Inside
    BY <1>9 DEF Reread, Inside, Writers
  <2>3. e \in DOMAIN made /\ made[e].to.mark /\ made[e].from.of = made[e].to.of
    BY <1>3, <2>2 DEF DataInv, EditsAreOfOurs
  <2>4. w = "restore" => comments[made[e].id].body.of = made[e].from.of
    BY <2>1, <2>3 DEF Live
  <2>5. w # "write"
    BY <2>1
  <2> QED BY <2>1, <2>2, <2>3, <2>4, <2>5, MoveKeepsKnowledge
<1>10. ASSUME NEW e \in Edits, Restore(e) PROVE DataInv'
  BY <1>10, RestoreKeepsKnowledge
<1>11. ASSUME NEW p \in Writers, Fail(p) PROVE DataInv'
  <2>1. stage' = [stage EXCEPT ![p] = "leave"] /\ UNCHANGED <<comments, open, made, plan>>
        /\ stage[p] \in Inside
    BY <1>11 DEF Fail, Goto, Inside
  <2> QED BY <1>3, <2>1, MoveKeepsKnowledge
<1>12. ASSUME NEW p \in Writers, LeaveLock(p) PROVE DataInv'
  <2>1. stage' = [stage EXCEPT ![p] = "done"] /\ UNCHANGED <<comments, open, made, plan>>
        /\ stage[p] \in Inside
    BY <1>12 DEF LeaveLock, Goto, Inside
  <2> QED BY <1>3, <2>1, MoveKeepsKnowledge
<1> QED BY <1>1, <1>2, <1>4, <1>5, <1>6, <1>7, <1>8, <1>9, <1>10, <1>11, <1>12,
           SayKeepsKnowledge, EditKeepsKnowledge DEF CommentNext, WriterStep

\* The writers' chain and what each of them knows, in every reachable state.
THEOREM CommentInvariance == CommentAssumption => (CommentSpec => []SyncInv)
<1> SUFFICES ASSUME CommentAssumption PROVE CommentSpec => []SyncInv
  OBVIOUS
<1>1. CommentInit => SyncInv
  <2> SUFFICES ASSUME CommentInit PROVE SyncInv
    OBVIOUS
  <2>1. StagesAreTyped
    BY DEF CommentInit, StagesAreTyped, Outside
  <2>2. Here = {}
    BY DEF CommentInit, Here, Inside
  <2>3. LockInv
    BY <2>2 DEF CommentInit, LockInv, Inside
  <2>4. DataInv
    <3>1. comments = <<>> /\ Len(comments) = 0 /\ DOMAIN made = {}
      BY DEF CommentInit
    <3>2. comments \in Seq(Entries)
      BY <3>1
    <3>3. plan \in [Scans -> 0..Len(comments)]
      BY <3>1 DEF CommentInit
    <3>4. \A p \in Writers : stage[p] = "off"
      BY DEF CommentInit
    <3> QED BY <3>1, <3>2, <3>3, <3>4
         DEF CommentInit, DataInv, DataAreTyped, EditsAreOfOurs, WritersKnowTheirComment, Writers
  <2> QED BY <2>1, <2>3, <2>4, SyncInvInParts
<1>2. SyncInv /\ [CommentNext]_commentVars => SyncInv'
  <2> SUFFICES ASSUME SyncInv, [CommentNext]_commentVars PROVE SyncInv'
    OBVIOUS
  <2>1. StagesAreTyped /\ LockInv /\ DataInv
    BY SyncInvInParts
  <2>2. StagesAreTyped' /\ LockInv' /\ DataInv'
    BY <2>1, StagesStayTyped, LockIsKept, KnowledgeIsKept
  <2> QED BY <2>2, SyncInvInParts DEF SyncInv, StagesAreTyped, DataInv, DataAreTyped, CommentTypeOK, Entries
<1> QED BY <1>1, <1>2, PTL DEF CommentSpec

-----------------------------------------------------------------------------
(* What the comment is protected from                                      *)

\* The lock of comments/queue.ts admits one writer at a time, whichever order
\* they come and go in and although the map forgets a queue that ran empty.
THEOREM OneWriterAtATime == CommentAssumption => (CommentSpec => []OneWriterInside)
<1>1. SyncInv => OneWriterInside
  BY WritersExclude DEF SyncInv
<1> QED BY <1>1, CommentInvariance, PTL

\* Only a scan changes the commit a comment reports on: what a delivery restores
\* is of the commit the comment is of at that moment.
THEOREM ScansAloneMoveOn == CommentAssumption => (CommentSpec => OnlyScansMoveOn)
<1> SUFFICES ASSUME CommentAssumption PROVE CommentSpec => OnlyScansMoveOn
  OBVIOUS
<1> DEFINE HeadsStay == \A i \in DOMAIN comments :
              comments[i].bot /\ comments'[i].body.of # comments[i].body.of
                  => \E s \in Scans : Write(s)
<1>1. SyncInv /\ [CommentNext]_commentVars => [HeadsStay]_commentVars
  <2> SUFFICES ASSUME SyncInv, [CommentNext]_commentVars PROVE HeadsStay
    OBVIOUS
  <2>1. StagesAreTyped /\ LockInv /\ DataInv
    BY SyncInvInParts
  <2>2. CASE comments' = comments
    BY <2>2
  <2>3. CASE \E s \in Scans : Write(s)
    BY <2>3
  <2>4. CASE Say
    <3>1. Remark \in Entries /\ comments \in Seq(Entries) /\ comments' = Append(comments, Remark)
      BY <2>1, <2>4 DEF Entries, Say, DataInv, DataAreTyped
    <3>2. \A j \in DOMAIN comments : comments'[j] = comments[j]
      BY <3>1, AppendIsTyped
    <3> QED BY <3>2
  <2>5. CASE \E e \in Edits : Edit(e)
    BY <2>1, <2>5, EditKeepsKnowledge
  <2>6. CASE \E e \in Edits : Restore(e)
    BY <2>1, <2>6, RestoreKeepsKnowledge
  <2> HIDE DEF HeadsStay
  <2> QED BY <2>2, <2>3, <2>4, <2>5, <2>6
       DEF CommentNext, WriterStep, commentVars, Close, Arrive, Enter, List, ReadComment, Permission, Reread, Fail, LeaveLock
<1>2. CommentSpec => []SyncInv
  BY CommentInvariance
<1> QED BY <1>1, <1>2, PTL DEF CommentSpec, OnlyScansMoveOn

\* A step that makes no comment the app's and takes no writer to the point of
\* writing one.
LEMMA OthersKeepOneComment ==
    ASSUME OneMaintained, WritersWriteToOurs, OursOnlyVanish,
           \A s \in Scans : stage'[s] = "write" => stage[s] = "write" /\ plan'[s] = plan[s],
           \A e \in Edits : stage'[e] = "restore" => stage[e] = "restore" /\ made'[e] = made[e]
    PROVE  OneMaintained' /\ WritersWriteToOurs'
BY DEF OneMaintained, WritersWriteToOurs, OursOnlyVanish

\* A writer in the lock writes to the only comment that can be the app's.
LEMMA WriteKeepsOneComment ==
    ASSUME SyncInv, NEW p \in Writers, NEW i,
           stage[p] \in Inside, stage' = [stage EXCEPT ![p] = "leave"],
           \A j \in DOMAIN comments' : Ours(j)' => j = i
    PROVE  OneMaintained' /\ WritersWriteToOurs'
<1>1. \A q \in Writers : stage'[q] # "write" /\ stage'[q] # "restore"
  BY WritersExclude DEF SyncInv, CommentTypeOK, OneWriterInside, Inside
<1> QED BY <1>1 DEF OneMaintained, WritersWriteToOurs, Writers

LEMMA OneCommentIsKept ==
    ASSUME CommentAssumption, SyncInv, InReach, OneMaintained, WritersWriteToOurs, [CommentNext]_commentVars
    PROVE  OneMaintained' /\ WritersWriteToOurs'
<1>1. StagesAreTyped /\ LockInv /\ DataInv
  BY SyncInvInParts
<1>2. comments' = comments => OursOnlyVanish
  BY DEF OursOnlyVanish, Ours
<1>3. CASE UNCHANGED commentVars \/ Close
  BY <1>2, <1>3, OthersKeepOneComment DEF commentVars, Close
<1>4. CASE Say
  <2>1. Remark \in Entries /\ comments \in Seq(Entries) /\ comments' = Append(comments, Remark)
        /\ UNCHANGED <<stage, plan, made>>
    BY <1>1, <1>4 DEF Entries, Say, DataInv, DataAreTyped
  <2>2. /\ \A j \in DOMAIN comments : comments'[j] = comments[j]
        /\ DOMAIN comments' = DOMAIN comments \cup {Len(comments) + 1}
        /\ comments'[Len(comments) + 1] = Remark
    BY <2>1, AppendIsTyped
  <2>3. OursOnlyVanish
    <3>1. ~Remark.bot
      BY DEF Remark
    <3> QED BY <2>2, <3>1 DEF OursOnlyVanish, Ours
  <2> QED BY <2>1, <2>3, OthersKeepOneComment
<1>5. ASSUME NEW e \in Edits, Edit(e) PROVE OneMaintained' /\ WritersWriteToOurs'
  <2>1. OursOnlyVanish /\ UNCHANGED <<stage, plan>>
        /\ \A d \in DOMAIN made : made'[d] = made[d]
    BY <1>1, <1>5, EditKeepsKnowledge
  <2>2. \A d \in Edits : stage[d] = "restore" => d \in DOMAIN made
    BY <1>1 DEF DataInv, WritersKnowTheirComment
  <2> QED BY <2>1, <2>2, OthersKeepOneComment
<1>6. ASSUME NEW p \in Writers, NEW w, stage' = [stage EXCEPT ![p] = w],
             w # "write", w # "restore", UNCHANGED <<comments, made, plan>>
      PROVE  OneMaintained' /\ WritersWriteToOurs'
  <2>1. \A q \in Writers : stage'[q] = w \/ stage'[q] = stage[q]
    BY <1>1, <1>6 DEF StagesAreTyped
  <2> QED BY <1>2, <1>6, <2>1, OthersKeepOneComment DEF Writers
<1>7. ASSUME NEW p \in Writers, Arrive(p) PROVE OneMaintained' /\ WritersWriteToOurs'
  <2>1. PICK w \in {"queued", "done"} : stage' = [stage EXCEPT ![p] = w]
    BY <1>7 DEF Arrive, Goto
  <2> QED BY <1>6, <1>7, <2>1 DEF Arrive
<1>8. ASSUME NEW p \in Writers, Enter(p) \/ Fail(p) \/ LeaveLock(p)
      PROVE  OneMaintained' /\ WritersWriteToOurs'
  <2>1. PICK w \in {"list", "read", "leave", "done"} : stage' = [stage EXCEPT ![p] = w]
    BY <1>8 DEF Enter, Fail, LeaveLock, Goto
  <2> QED BY <1>6, <1>8, <2>1 DEF Enter, Fail, LeaveLock
<1>9. ASSUME NEW e \in Edits, ReadComment(e) \/ Permission(e)
      PROVE  OneMaintained' /\ WritersWriteToOurs'
  <2>1. PICK w \in {"permission", "reread", "leave"} : stage' = [stage EXCEPT ![e] = w]
    BY <1>9 DEF ReadComment, Permission, Goto
  <2> QED BY <1>6, <1>9, <2>1 DEF ReadComment, Permission, Writers
<1>10. ASSUME NEW s \in Scans, List(s) PROVE OneMaintained' /\ WritersWriteToOurs'
  <2>1. UNCHANGED <<comments, made>> /\ s \in Writers /\ s \notin Edits
    BY <1>10 DEF List, CommentAssumption, Writers
  <2>2. \A j \in DOMAIN comments : Ours(j) => j \in Owned
    BY DEF InReach, Owned
  <2>3. stage'[s] = "write" => \A j \in DOMAIN comments : Ours(j) => j = plan'[s]
    <3>1. CASE Owned = {}
      BY <2>2, <3>1
    <3>2. CASE \E i \in Owned : Owned = {i} /\ plan' = [plan EXCEPT ![s] = i]
      BY <1>1, <2>2, <3>2 DEF DataInv, DataAreTyped
    <3>3. CASE Goto(s, "leave")
      BY <1>1, <3>3 DEF Goto, StagesAreTyped, Writers
    <3> QED BY <1>10, <3>1, <3>2, <3>3 DEF List
  <2>4. /\ \A q \in Writers \ {s} : stage'[q] = stage[q]
        /\ \A r \in Scans \ {s} : plan'[r] = plan[r]
    BY <1>1, <1>10 DEF List, Goto, StagesAreTyped, DataInv, DataAreTyped
  <2>5. OneMaintained'
    BY <2>1 DEF OneMaintained, Ours
  <2>6. \A r \in Scans : stage'[r] = "write" => \A i \in DOMAIN comments : Ours(i) => i = plan'[r]
    BY <2>3, <2>4 DEF WritersWriteToOurs, Writers
  <2>7. \A e \in Edits : stage'[e] = "restore" => \A i \in DOMAIN comments : Ours(i) => i = made[e].id
    BY <2>1, <2>4 DEF WritersWriteToOurs, Writers
  <2> QED BY <2>1, <2>5, <2>6, <2>7 DEF WritersWriteToOurs, Ours
<1>11. ASSUME NEW e \in Edits, Reread(e) PROVE OneMaintained' /\ WritersWriteToOurs'
  <2>1. UNCHANGED <<comments, made, plan>> /\ e \in Writers /\ e \notin Scans
    BY <1>11 DEF Reread, CommentAssumption, Writers
  <2>2. CASE ~Live(e)
    BY <1>6, <1>11, <2>1, <2>2 DEF Reread, Goto
  <2>3. CASE Live(e)
    <3>1. Ours(made[e].id) /\ made[e].id \in DOMAIN comments
      <4>1. e \in DOMAIN made /\ stage[e] \in Inside
        BY <1>1, <1>11 DEF Reread, Inside, DataInv, WritersKnowTheirComment
      <4> QED BY <1>1, <2>3, <4>1 DEF Live, Ours, DataInv, DataAreTyped, EditsAreOfOurs
    <3>2. \A i \in DOMAIN comments : Ours(i) => i = made[e].id
      BY <3>1 DEF OneMaintained
    <3>3. \A q \in Writers \ {e} : stage'[q] = stage[q]
      BY <1>1, <1>11 DEF Reread, Goto, StagesAreTyped
    <3>4. \A s \in Scans : stage'[s] = "write" => \A i \in DOMAIN comments : Ours(i) => i = plan[s]
      BY <2>1, <3>3 DEF WritersWriteToOurs, Writers
    <3>5. \A d \in Edits : stage'[d] = "restore" => \A i \in DOMAIN comments : Ours(i) => i = made[d].id
      BY <3>2, <3>3 DEF WritersWriteToOurs, Writers
    <3> QED BY <2>1, <3>4, <3>5 DEF WritersWriteToOurs, OneMaintained, Ours
  <2> QED BY <2>2, <2>3
<1>12. ASSUME NEW s \in Scans, Write(s) PROVE OneMaintained' /\ WritersWriteToOurs'
  <2>1. /\ s \in Writers /\ stage[s] \in Inside /\ stage' = [stage EXCEPT ![s] = "leave"]
        /\ \A i \in DOMAIN comments : Ours(i) => i = plan[s]
    BY <1>12 DEF Write, Goto, Inside, Writers, WritersWriteToOurs
  <2>2. CASE plan[s] = 0
    <3>1. [bot |-> TRUE, body |-> Render(s)] \in Entries /\ comments \in Seq(Entries)
          /\ comments' = Append(comments, [bot |-> TRUE, body |-> Render(s)])
      BY <1>1, <1>12, <2>2, RenderIsABody DEF Entries, Write, DataInv, DataAreTyped
    <3>2. /\ \A j \in DOMAIN comments : comments'[j] = comments[j] /\ j # 0
          /\ DOMAIN comments' = DOMAIN comments \cup {Len(comments) + 1}
      BY <3>1, AppendIsTyped
    <3>3. \A j \in DOMAIN comments' : Ours(j)' => j = Len(comments) + 1
      BY <2>1, <2>2, <3>2 DEF Ours
    <3> QED BY <2>1, <3>3, WriteKeepsOneComment
  <2>3. CASE plan[s] # 0
    <3>1. plan[s] \in DOMAIN comments /\ comments[plan[s]].bot /\ Give(plan[s], Render(s))
          /\ comments \in Seq(Entries) /\ Render(s) \in Bodies
      BY <1>1, <1>12, <2>3, RenderIsABody DEF Write, DataInv, DataAreTyped, WritersKnowTheirComment
    <3>2. /\ DOMAIN comments' = DOMAIN comments
          /\ \A j \in DOMAIN comments \ {plan[s]} : comments'[j] = comments[j]
      BY <3>1, GiveIsTyped
    <3>3. \A j \in DOMAIN comments' : Ours(j)' => j = plan[s]
      BY <2>1, <3>2 DEF Ours
    <3> QED BY <2>1, <3>3, WriteKeepsOneComment
  <2> QED BY <2>2, <2>3
<1>13. ASSUME NEW e \in Edits, Restore(e) PROVE OneMaintained' /\ WritersWriteToOurs'
  <2>1. /\ e \in Writers /\ stage[e] \in Inside /\ stage' = [stage EXCEPT ![e] = "leave"]
        /\ \A i \in DOMAIN comments : Ours(i) => i = made[e].id
    BY <1>13 DEF Restore, Goto, Inside, Writers, WritersWriteToOurs
  <2>2. /\ DOMAIN comments' = DOMAIN comments
        /\ \A j \in DOMAIN comments \ {made[e].id} : comments'[j] = comments[j]
    BY <1>1, <1>13, RestoreKeepsKnowledge
  <2>3. \A j \in DOMAIN comments' : Ours(j)' => j = made[e].id
    BY <2>1, <2>2 DEF Ours
  <2> QED BY <2>1, <2>3, WriteKeepsOneComment
<1> QED BY <1>3, <1>4, <1>5, <1>7, <1>8, <1>9, <1>10, <1>11, <1>12, <1>13 DEF CommentNext, WriterStep

\* Writers take turns and there is "exactly one GhostDeps comment per PR"
\* (comments/state.ts), whatever fails and however scans and edits interleave,
\* in every behaviour in which a listing always reaches the comment.
THEOREM OneCommentStays == CommentAssumption => (CommentSpec /\ []InReach => []OneComment)
<1> SUFFICES ASSUME CommentAssumption PROVE CommentSpec /\ []InReach => []OneComment
  OBVIOUS
<1> DEFINE Inv == OneMaintained /\ WritersWriteToOurs
<1>1. CommentInit => Inv
  BY DEF CommentInit, OneMaintained, WritersWriteToOurs, Ours, Writers
<1>2. SyncInv /\ InReach /\ Inv /\ [CommentNext]_commentVars => Inv'
  BY OneCommentIsKept
<1>3. CommentSpec => []SyncInv
  BY CommentInvariance
<1>4. SyncInv /\ Inv => OneComment
  BY WritersExclude DEF SyncInv, OneComment
<1> QED BY <1>1, <1>2, <1>3, <1>4, PTL DEF CommentSpec
==============================================================================
