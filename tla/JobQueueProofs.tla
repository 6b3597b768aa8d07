--------------------------- MODULE JobQueueProofs ---------------------------
(***************************************************************************)
(* Proofs about the job queue, for every set of jobs and every limit.      *)
(* QueueInv (module JobQueue) is inductive; the invariants that TLC checks *)
(* are its conjuncts, and the action property follows from it.             *)
(***************************************************************************)
EXTENDS JobQueue, FiniteSetTheorems, TLAPS

-----------------------------------------------------------------------------
(* Sets of elements with tickets                                           *)

\* Among finitely many elements with tickets one is the oldest: what
\* "oldest" means for #seen and for the head of #pending.
LEMMA OldestExists ==
    ASSUME NEW S, IsFiniteSet(S), S # {}, \A x \in S : x.ticket \in Int
    PROVE  \E x \in S : \A y \in S : x.ticket <= y.ticket
<1> DEFINE Below(x) == {y \in S : y.ticket < x.ticket}
           T == {Below(x) : x \in S}
<1>1. T \subseteq FiniteSubsetsOf(S) /\ T # {}
  <2>1. \A x \in S : Below(x) \in SUBSET S
    OBVIOUS
  <2>2. \A U \in SUBSET S : IsFiniteSet(U)
    BY FS_Subset
  <2>3. \A x \in S : Below(x) \in FiniteSubsetsOf(S)
    BY <2>1, <2>2 DEF FiniteSubsetsOf
  <2> QED BY <2>3
<1>2. PICK B \in T : \A C \in T : <<C, B>> \notin StrictSubsetOrdering(S)
  <2> HIDE DEF T
  <2> QED BY <1>1, WFMin, FS_StrictSubsetOrderingWellFounded
<1>3. PICK x \in S : B = Below(x)
  OBVIOUS
<1>4. ASSUME NEW y \in S, y.ticket < x.ticket  PROVE FALSE
  <2>1. Below(y) \subseteq B /\ y \in B /\ y \notin Below(y)
    BY <1>3, <1>4
  <2>2. <<Below(y), B>> \in StrictSubsetOrdering(S)
    BY <2>1, <1>3 DEF StrictSubsetOrdering
  <2> QED BY <1>2, <2>2
<1> QED BY <1>4

\* With distinct tickets between m and n, a set has at most n - m + 1 elements.
LEMMA TicketsBoundSize ==
    ASSUME NEW S, IsFiniteSet(S), NEW m \in Int, NEW n \in Int, m <= n,
           \A x \in S : x.ticket \in m..n,
           \A x, y \in S : x.ticket = y.ticket => x = y
    PROVE  Cardinality(S) <= n - m + 1
<1> DEFINE f == [x \in S |-> x.ticket]
<1>1. f \in Injection(S, m..n)
  BY DEF Injection, IsInjective
<1>2. IsFiniteSet(m..n) /\ Cardinality(m..n) = n - m + 1
  BY FS_Interval
<1> QED BY <1>1, <1>2, FS_Injection

\* One more element is at most one more.
LEMMA OneMore ==
    ASSUME NEW S, NEW x, IsFiniteSet(S)
    PROVE  /\ IsFiniteSet(S \cup {x})
           /\ Cardinality(S) \in Nat
           /\ Cardinality(S \cup {x}) \in Nat
           /\ Cardinality(S \cup {x}) <= Cardinality(S) + 1
<1>1. IsFiniteSet(S \cup {x})
  BY FS_AddElement
<1>2. Cardinality(S) \in Nat /\ Cardinality(S \cup {x}) \in Nat
  BY <1>1, FS_CardinalityType
<1>3. \/ Cardinality(S \cup {x}) = Cardinality(S)
      \/ Cardinality(S \cup {x}) = Cardinality(S) + 1
  BY FS_AddElement
<1> QED BY <1>1, <1>2, <1>3

-----------------------------------------------------------------------------
(* drain                                                                   *)

\* A full queue starts nothing.
LEMMA NoFreeSlot ==
    ASSUME NEW waiting, NEW active, IsFiniteSet(waiting),
           Cardinality(active) = Concurrency
    PROVE  Started(waiting, active) = {}
<1>1. \A e \in waiting :
        Cardinality({f \in waiting : f.ticket < e.ticket}) \in Nat
  <2>1. \A e \in waiting : {f \in waiting : f.ticket < e.ticket} \in SUBSET waiting
    OBVIOUS
  <2> QED BY <2>1, FS_Subset, FS_CardinalityType
<1> QED BY <1>1, QueueAssumption DEF Started

\* What starts is ahead of what keeps waiting.
LEMMA StartedAreFirst ==
    ASSUME NEW waiting, NEW active, IsFiniteSet(waiting),
           Cardinality(active) \in Nat,
           \A x \in waiting : x.ticket \in Int,
           NEW e \in Started(waiting, active),
           NEW f \in waiting, f.ticket <= e.ticket
    PROVE  f \in Started(waiting, active)
<1> DEFINE Ahead(x) == {y \in waiting : y.ticket < x.ticket}
<1>1. e \in waiting /\ Cardinality(Ahead(e)) < Concurrency - Cardinality(active)
  BY DEF Started
<1>2. Ahead(f) \in SUBSET Ahead(e)
  BY <1>1
<1>3. IsFiniteSet(Ahead(e))
  BY FS_Subset
<1>4. Cardinality(Ahead(f)) <= Cardinality(Ahead(e))
  BY <1>2, <1>3, FS_Subset
<1>5. Cardinality(Ahead(f)) \in Nat /\ Cardinality(Ahead(e)) \in Nat
  BY <1>2, <1>3, FS_Subset, FS_CardinalityType
<1> QED BY <1>1, <1>4, <1>5, QueueAssumption DEF Started

\* One free slot takes exactly one job, if any waits.
LEMMA OneFreeSlot ==
    ASSUME NEW waiting, NEW active, IsFiniteSet(waiting), waiting # {},
           Cardinality(active) = Concurrency - 1,
           \A x \in waiting : x.ticket \in Int,
           \A x, y \in waiting : x.ticket = y.ticket => x = y
    PROVE  \E e \in waiting : Started(waiting, active) = {e}
<1> DEFINE Ahead(x) == {y \in waiting : y.ticket < x.ticket}
<1>1. \A x \in waiting : IsFiniteSet(Ahead(x)) /\ Cardinality(Ahead(x)) \in Nat
  <2>1. \A x \in waiting : Ahead(x) \in SUBSET waiting
    OBVIOUS
  <2> QED BY <2>1, FS_Subset, FS_CardinalityType
<1>2. \A x \in waiting : x \in Started(waiting, active) <=> Ahead(x) = {}
  <2>1. \A x \in waiting : Cardinality(Ahead(x)) = 0 <=> Ahead(x) = {}
    <3> HIDE DEF Ahead
    <3> QED BY <1>1, FS_EmptySet
  <2>2. Concurrency - Cardinality(active) = 1
    BY QueueAssumption
  <2>3. \A x \in waiting :
          x \in Started(waiting, active) <=> Cardinality(Ahead(x)) < 1
    BY <2>2 DEF Started
  <2> HIDE DEF Ahead
  <2> QED BY <1>1, <2>1, <2>3
<1>3. PICK e \in waiting : \A y \in waiting : e.ticket <= y.ticket
  BY OldestExists
<1>4. \A x \in waiting : x \in Started(waiting, active) <=> x = e
  BY <1>2, <1>3
<1> QED BY <1>4 DEF Started

\* With nothing running, a single waiting job starts at once.
LEMMA SingleStarts ==
    ASSUME NEW e, NEW active, Cardinality(active) \in Nat,
           Cardinality(active) < Concurrency, e.ticket \in Int
    PROVE  Started({e}, active) = {e}
<1>1. {f \in {e} : f.ticket < e.ticket} = {}
  OBVIOUS
<1> QED BY <1>1, FS_EmptySet, QueueAssumption DEF Started

-----------------------------------------------------------------------------
(* enqueue                                                                 *)

\* Facts about the parts of an accepted job's step.
LEMMA DropFacts ==
    ASSUME QueueInv, NEW job \in Jobs
    PROVE  /\ Dropped(job) \subseteq pending
           /\ Remaining(job) \subseteq pending
           /\ IsFiniteSet(Remaining(job))
           /\ IsFiniteSet(Dropped(job))
           /\ Cardinality(Remaining(job)) \in Nat
           /\ Cardinality(Remaining(job)) <= Cardinality(pending)
           /\ Remaining(job) = pending => Dropped(job) = {}
           /\ Cardinality(Remaining(job)) = Cardinality(pending) => Dropped(job) = {}
<1>1. Dropped(job) \in SUBSET pending /\ Remaining(job) \in SUBSET pending
  BY DEF Dropped, Remaining
<1>2. IsFiniteSet(pending)
  BY DEF QueueInv
<1>3. /\ IsFiniteSet(Remaining(job)) /\ IsFiniteSet(Dropped(job))
      /\ Cardinality(Remaining(job)) <= Cardinality(pending)
      /\ Cardinality(Remaining(job)) = Cardinality(pending) => Remaining(job) = pending
  BY <1>1, <1>2, FS_Subset
<1>4. Cardinality(Remaining(job)) \in Nat
  BY <1>3, FS_CardinalityType
<1> QED BY <1>1, <1>3, <1>4 DEF Remaining

\* enqueue drops before it reads the length, so a job that is refused has
\* dropped nothing: a refusal changes nothing at all.
LEMMA RefusalChangesNothing ==
    ASSUME QueueInv, NEW job \in Jobs, EnqueueOverloaded(job)
    PROVE  UNCHANGED vars
<1>1. Cardinality(pending) <= MaxPending /\ Cardinality(pending) \in Nat
  BY FS_CardinalityType DEF QueueInv, Limits
<1>2. Cardinality(Remaining(job)) >= MaxPending
  BY DEF EnqueueOverloaded, IsOverloaded
<1>3. Dropped(job) = {}
  BY <1>1, <1>2, DropFacts, QueueAssumption
<1> QED BY <1>3 DEF EnqueueOverloaded, Remaining, Forgotten, vars

\* The key of a job that stays is forgotten with nobody else's.
LEMMA ForgottenAreDropped ==
    ASSUME QueueInv, NEW job \in Jobs, DedupeWindow >= MaxPending,
           NEW e \in pending \cup running, Remembered(e) \in Forgotten(job)
    PROVE  e \in Dropped(job)
<1>1. PICK d \in Dropped(job) : Key(e.job) = Key(d.job)
  BY DEF Forgotten, Remembered
<1>2. d \in pending /\ Remembered(d) \in seen /\ Remembered(e) \in seen
  BY DropFacts DEF QueueInv, WaitingIsRemembered, Forgotten
<1>3. Remembered(d) = Remembered(e)
  BY <1>1, <1>2 DEF QueueInv, TicketsArePast, Remembered
<1>4. d.ticket = e.ticket
  BY <1>3 DEF Remembered
<1> QED BY <1>1, <1>2, <1>4 DEF QueueInv, TicketsArePast

\* After the drain of enqueue the new job runs or waits behind the others.
LEMMA DrainAfterEnqueue ==
    ASSUME QueueInv, NEW job \in Jobs, NEW entry, entry.ticket \in Int,
           Drain(Remaining(job) \cup {entry}, running)
    PROVE  /\ pending' \cup running' = Remaining(job) \cup {entry} \cup running
           /\ \/ /\ Cardinality(running) = Concurrency
                 /\ pending' = Remaining(job) \cup {entry}
                 /\ running' = running
              \/ /\ Cardinality(running) < Concurrency
                 /\ pending' = {}
                 /\ running' = running \cup {entry}
           /\ waiters' = waiters
<1>1. Cardinality(running) \in Nat /\ Cardinality(running) <= Concurrency
  BY FS_CardinalityType DEF QueueInv, Limits
<1>2. waiters' = waiters
  BY DEF Drain
<1>3. CASE Cardinality(running) = Concurrency
  <2>1. IsFiniteSet(Remaining(job) \cup {entry})
    BY DropFacts, FS_AddElement
  <2>2. Started(Remaining(job) \cup {entry}, running) = {}
    BY <1>3, <2>1, NoFreeSlot
  <2> QED BY <1>2, <1>3, <2>2 DEF Drain
<1>4. CASE Cardinality(running) < Concurrency
  <2>1. Remaining(job) = {}
    BY <1>4, <1>1, DropFacts, QueueAssumption DEF QueueInv, Limits
  <2>2. Started({entry}, running) = {entry}
    BY <1>4, <1>1, SingleStarts
  <2>3. Remaining(job) \cup {entry} = {entry}
    BY <2>1
  <2> QED BY <1>2, <1>4, <2>1, <2>2, <2>3 DEF Drain
<1> QED BY <1>1, <1>3, <1>4, QueueAssumption
-----------------------------------------------------------------------------
(* The invariant                                                           *)

LEMMA InitInv == Init => QueueInv
<1> SUFFICES ASSUME Init PROVE QueueInv
  OBVIOUS
<1>1. Cardinality({}) = 0 /\ IsFiniteSet({})
  BY FS_EmptySet
<1> QED BY <1>1, QueueAssumption
      DEF Init, QueueInv, TypeOK, Limits, StartsInOrder, WaitingIsRemembered,
          DuplicatesAreFarApart, NoWaiterWhenIdle, TicketsArePast,
          SeenEndsWithWaiting, ForgottenIsOld

\* enqueue accepts the job.
LEMMA QueuedKeepsInv ==
    ASSUME QueueInv, NEW job \in Jobs, EnqueueQueued(job)
    PROVE  QueueInv'
<1> DEFINE entry == [job |-> job, ticket |-> arrivals + 1]
           keys == (seen \ Forgotten(job)) \cup {Remembered(entry)}
<1>a. /\ ~IsDuplicate(job) /\ ~IsOverloaded(job)
      /\ arrivals < MaxArrivals /\ arrivals' = arrivals + 1
      /\ seen' = keys \ Evicted(keys)
      /\ Drain(Remaining(job) \cup {entry}, running)
  BY DEF EnqueueQueued
<1>t. /\ entry \in Entry /\ entry.ticket = arrivals + 1 /\ entry.job = job
      /\ Remembered(entry) \in [key : Keys, ticket : 1..MaxArrivals]
      /\ Remembered(entry).ticket = arrivals + 1
      /\ Remembered(entry).key = Key(job)
      /\ arrivals \in Nat /\ arrivals + 1 \in 1..MaxArrivals
  <2>1. arrivals \in Nat /\ arrivals + 1 \in 1..MaxArrivals
    BY <1>a, QueueAssumption DEF QueueInv, TypeOK
  <2>2. entry \in Entry
    BY <2>1 DEF Entry
  <2>3. Key(job) \in Keys
    BY DEF Keys
  <2>4. Remembered(entry) = [key |-> Key(job), ticket |-> arrivals + 1]
    BY DEF Remembered
  <2> QED BY <2>1, <2>2, <2>3, <2>4
<1>r. \A e \in pending \cup running :
        /\ e \in Entry /\ e.ticket \in 1..arrivals
        /\ Remembered(e).ticket = e.ticket /\ Remembered(e).key = Key(e.job)
  <2>1. \A e \in pending \cup running : e \in Entry /\ e.ticket <= arrivals
    BY DEF QueueInv, TypeOK, TicketsArePast
  <2>2. \A e \in Entry : e.ticket \in 1..MaxArrivals
    BY DEF Entry
  <2>3. \A e : Remembered(e).ticket = e.ticket /\ Remembered(e).key = Key(e.job)
    BY DEF Remembered
  <2> HIDE DEF entry
  <2> QED BY <2>1, <2>2, <2>3, <1>t
<1>s. \A s \in seen : s.ticket \in 1..arrivals /\ s \in [key : Keys, ticket : 1..MaxArrivals]
  BY DEF QueueInv, TypeOK, TicketsArePast
<1>d. /\ pending' \cup running' = Remaining(job) \cup {entry} \cup running
      /\ \/ /\ Cardinality(running) = Concurrency
            /\ pending' = Remaining(job) \cup {entry}
            /\ running' = running
         \/ /\ Cardinality(running) < Concurrency
            /\ pending' = {}
            /\ running' = running \cup {entry}
      /\ waiters' = waiters
  <2>1. entry.ticket \in Int
    BY <1>t
  <2> HIDE DEF entry
  <2> QED BY <1>a, <2>1, DrainAfterEnqueue
<1>n. entry \notin pending \cup running /\ Remembered(entry) \notin seen
  BY <1>t, <1>r, <1>s
<1>k. /\ IsFiniteSet(keys)
      /\ \A s \in keys : s.ticket \in 1..(arrivals + 1)
      /\ \A s, t \in keys : s.key = t.key \/ s.ticket = t.ticket => s = t
      /\ Cardinality(keys) <= DedupeWindow + 1
      /\ Cardinality(keys) \in Nat
  <2>1. IsFiniteSet(seen \ Forgotten(job)) /\ Cardinality(seen \ Forgotten(job)) <= Cardinality(seen)
    <3>1. seen \ Forgotten(job) \in SUBSET seen
      OBVIOUS
    <3> QED BY <3>1, FS_Subset DEF QueueInv
  <2>2. Cardinality(seen) \in Nat /\ Cardinality(seen) <= DedupeWindow
    BY FS_CardinalityType DEF QueueInv, Limits
  <2>3. Cardinality(seen \ Forgotten(job)) \in Nat
    BY <2>1, FS_CardinalityType
  <2>4. /\ IsFiniteSet(keys)
        /\ Cardinality(keys) <= Cardinality(seen \ Forgotten(job)) + 1
    BY <2>1, <2>3, FS_AddElement
  <2>5. Cardinality(keys) \in Nat
    BY <2>4, FS_CardinalityType
  <2>6. Cardinality(keys) <= DedupeWindow + 1
    <3> HIDE DEF keys
    <3> QED BY <2>1, <2>2, <2>3, <2>4, <2>5, QueueAssumption
  <2>7. \A s \in keys : s.ticket \in 1..(arrivals + 1)
    BY <1>s, <1>t
  <2>8. \A s \in seen : s.key # Key(job)
    BY <1>a DEF IsDuplicate
  <2>9. \A s, t \in keys : s.key = t.key \/ s.ticket = t.ticket => s = t
    BY <2>8, <1>s, <1>t DEF QueueInv, TicketsArePast
  <2> HIDE DEF keys
  <2> QED BY <2>4, <2>5, <2>6, <2>7, <2>9
\* The evicted key, if any, is one, the oldest, and old.
<1>v. /\ Cardinality(keys) <= DedupeWindow => Evicted(keys) = {}
      /\ Cardinality(keys) > DedupeWindow =>
            \E o \in keys : /\ Evicted(keys) = {o}
                            /\ \A s \in keys : o.ticket <= s.ticket
                            /\ arrivals + 1 - o.ticket >= DedupeWindow
  <2> HIDE DEF keys
  <2>1. ASSUME Cardinality(keys) > DedupeWindow
        PROVE  \E o \in keys : /\ Evicted(keys) = {o}
                               /\ \A s \in keys : o.ticket <= s.ticket
                               /\ arrivals + 1 - o.ticket >= DedupeWindow
    <3>1. keys # {}
      BY <2>1, FS_EmptySet, QueueAssumption
    <3>2. \A s \in keys : s.ticket \in Int
      BY <1>k
    <3>3. PICK o \in keys : \A s \in keys : o.ticket <= s.ticket
      BY <3>1, <3>2, <1>k, OldestExists
    <3>4. Evicted(keys) = {o}
      BY <2>1, <3>3, <1>k DEF Evicted
    <3>5. o.ticket \in 1..(arrivals + 1)
      BY <1>k
    <3>6. \A s \in keys : s.ticket \in o.ticket..(arrivals + 1)
      BY <3>3, <1>k, <3>5
    <3>7. Cardinality(keys) <= (arrivals + 1) - o.ticket + 1
      BY <3>5, <3>6, <1>k, <1>t, TicketsBoundSize
    <3> QED BY <2>1, <3>3, <3>4, <3>5, <3>7, <1>k, <1>t, QueueAssumption
  <2> QED BY <2>1, <1>k, QueueAssumption DEF Evicted
<1>new. Remembered(entry) \in seen'
  <2>1. CASE Cardinality(keys) <= DedupeWindow
    BY <2>1, <1>v, <1>a
  <2>2. CASE Cardinality(keys) > DedupeWindow
    <3>1. PICK o \in keys : /\ Evicted(keys) = {o}
                            /\ \A s \in keys : o.ticket <= s.ticket
      BY <2>2, <1>v
    <3>2. ASSUME o = Remembered(entry) PROVE FALSE
      <4>1. \A s \in keys : s = Remembered(entry)
        BY <3>1, <3>2, <1>s, <1>t
      <4>2. keys = {Remembered(entry)}
        BY <4>1
      <4>3. Cardinality(keys) = 1
        BY <4>2, FS_Singleton
      <4> HIDE DEF keys
      <4> QED BY <4>3, <2>2, QueueAssumption
    <3> QED BY <3>1, <3>2, <1>a
  <2> QED BY <2>1, <2>2, <1>k, QueueAssumption
\* A job that stays keeps its key, unless it is the evicted one.
<1>stay. ASSUME DedupeWindow >= MaxPending,
                NEW e \in Remaining(job) \cup running,
                Remembered(e) \in seen
         PROVE  Remembered(e) \in keys
  <2>1. e \in pending \cup running
    BY DropFacts
  <2>2. e \notin Dropped(job)
    <3>1. CASE e \in Remaining(job)
      BY <3>1 DEF Remaining
    <3>2. CASE e \in running
      BY <3>2, <1>r, DropFacts DEF QueueInv, StartsInOrder
    <3> QED BY <3>1, <3>2
  <2> QED BY <2>1, <2>2, <1>stay, ForgottenAreDropped
<1>1. TypeOK'
  <2>1. pending' \subseteq Entry /\ running' \subseteq Entry
    <3>1. Remaining(job) \subseteq Entry /\ running \subseteq Entry
      BY DropFacts DEF QueueInv, TypeOK
    <3> HIDE DEF entry
    <3> QED BY <1>d, <1>t, <3>1
  <2>2. seen' \subseteq [key : Keys, ticket : 1..MaxArrivals]
    <3>1. seen' \subseteq keys
      BY <1>a
    <3>2. keys \subseteq [key : Keys, ticket : 1..MaxArrivals]
      BY <1>s, <1>t
    <3> HIDE DEF keys
    <3> QED BY <3>1, <3>2
  <2> QED BY <2>1, <2>2, <1>a, <1>d, <1>t DEF QueueInv, TypeOK
<1>2. (IsFiniteSet(pending) /\ IsFiniteSet(running) /\ IsFiniteSet(seen))'
  <2>1. IsFiniteSet(pending') /\ IsFiniteSet(running')
    <3> HIDE DEF entry
    <3>1. IsFiniteSet(Remaining(job) \cup {entry}) /\ IsFiniteSet(running \cup {entry})
      BY DropFacts, OneMore DEF QueueInv
    <3> QED BY <1>d, <3>1, FS_EmptySet DEF QueueInv
  <2>2. IsFiniteSet(seen')
    <3>1. seen' \in SUBSET keys
      BY <1>a
    <3> HIDE DEF keys
    <3> QED BY <3>1, <1>k, FS_Subset
  <2> QED BY <2>1, <2>2
<1>3. Limits'
  <2>1. Cardinality(pending') <= MaxPending
    <3>1. Cardinality(Remaining(job)) < MaxPending
      BY <1>a, DropFacts, QueueAssumption DEF IsOverloaded
    <3>2. /\ Cardinality(Remaining(job) \cup {entry}) <= Cardinality(Remaining(job)) + 1
          /\ Cardinality(Remaining(job) \cup {entry}) \in Nat
      <4> HIDE DEF entry
      <4> QED BY DropFacts, OneMore
    <3>4. Cardinality(pending') = Cardinality(Remaining(job) \cup {entry}) \/ Cardinality(pending') = 0
      BY <1>d, FS_EmptySet
    <3> QED BY <3>1, <3>2, <3>4, DropFacts, QueueAssumption
  <2>2. Cardinality(running') <= Concurrency
    <3> HIDE DEF entry
    <3>1. Cardinality(running) \in Nat /\ IsFiniteSet(running)
      BY FS_CardinalityType DEF QueueInv
    <3>2. CASE Cardinality(running) < Concurrency /\ running' = running \cup {entry}
      <4>1. /\ Cardinality(running \cup {entry}) <= Cardinality(running) + 1
            /\ Cardinality(running \cup {entry}) \in Nat
        BY <3>1, OneMore
      <4> QED BY <3>1, <3>2, <4>1, QueueAssumption
    <3> QED BY <1>d, <3>1, <3>2, QueueAssumption
  <2>3. Cardinality(seen') <= DedupeWindow
    <3>1. CASE Cardinality(keys) <= DedupeWindow
      BY <3>1, <1>v, <1>a
    <3>2. CASE Cardinality(keys) > DedupeWindow
      <4> HIDE DEF keys
      <4>1. PICK o \in keys : Evicted(keys) = {o}
        BY <3>2, <1>v
      <4>2. Cardinality(seen') = Cardinality(keys) - 1
        BY <4>1, <1>a, <1>k, FS_RemoveElement
      <4> QED BY <4>2, <1>k, QueueAssumption
    <3> HIDE DEF keys
    <3> QED BY <3>1, <3>2, <1>k, QueueAssumption
  <2>4. (pending # {} => Cardinality(running) = Concurrency)'
    BY <1>d
  <2> QED BY <2>1, <2>2, <2>3, <2>4 DEF Limits
<1>4. StartsInOrder'
  <2>1. \A r \in running : r.ticket < entry.ticket
    BY <1>r, <1>t
  <2>2. \A r \in running, p \in Remaining(job) : r.ticket < p.ticket
    BY DropFacts DEF QueueInv, StartsInOrder
  <2> HIDE DEF entry
  <2> QED BY <1>d, <2>1, <2>2 DEF StartsInOrder
<1>5. WaitingIsRemembered'
  <2> SUFFICES ASSUME DedupeWindow >= MaxPending, NEW p \in pending'
               PROVE  Remembered(p) \in seen'
    BY DEF WaitingIsRemembered, Remembered, Key
  <2>1. p = entry \/ p \in Remaining(job)
    BY <1>d
  <2>2. CASE p \in Remaining(job)
    <3>1. p \in pending /\ Remembered(p) \in seen
      BY <2>2, DropFacts DEF QueueInv, WaitingIsRemembered
    <3>2. Remembered(p) \in keys
      BY <2>2, <3>1, <1>stay
    <3>3. ASSUME Cardinality(keys) > DedupeWindow, Evicted(keys) = {Remembered(p)},
                 \A s \in keys : Remembered(p).ticket <= s.ticket
          PROVE  FALSE
      <4>1. \A s \in keys : \E q \in Remaining(job) \cup {entry} : Remembered(q) = s
        <5> SUFFICES ASSUME NEW s \in keys, s # Remembered(entry)
                     PROVE  \E q \in Remaining(job) : Remembered(q) = s
          OBVIOUS
        <5>1. s \in seen /\ s \notin Forgotten(job)
          OBVIOUS
        <5>2. p.ticket <= s.ticket
          BY <3>1, <3>3, <1>r
        <5>3. PICK q \in pending : Remembered(q) = s
          BY <3>1, <5>1, <5>2 DEF QueueInv, SeenEndsWithWaiting
        <5>4. q \notin Dropped(job)
          BY <5>1, <5>3 DEF Forgotten, Remembered
        <5> QED BY <5>3, <5>4 DEF Remaining
      <4> DEFINE f == [q \in Remaining(job) \cup {entry} |-> Remembered(q)]
                 T == {Remembered(q) : q \in Remaining(job) \cup {entry}}
      <4>2. f \in Surjection(Remaining(job) \cup {entry}, T)
        BY DEF Surjection
      <4>3. IsFiniteSet(Remaining(job) \cup {entry})
        <5> HIDE DEF entry
        <5> QED BY DropFacts, FS_AddElement
      <4>4. IsFiniteSet(T) /\ Cardinality(T) <= Cardinality(Remaining(job) \cup {entry})
        <5> HIDE DEF T, f
        <5> QED BY <4>2, <4>3, FS_Surjection
      <4>5. keys \in SUBSET T
        <5> HIDE DEF keys, entry
        <5> QED BY <4>1
      <4>6. Cardinality(keys) <= Cardinality(T)
        <5> HIDE DEF keys, T
        <5> QED BY <4>4, <4>5, FS_Subset
      <4>7. Cardinality(Remaining(job) \cup {entry}) <= MaxPending
        <5>1. Cardinality(Remaining(job)) < MaxPending
          BY <1>a, DropFacts, QueueAssumption DEF IsOverloaded
        <5> HIDE DEF entry
        <5>2. /\ Cardinality(Remaining(job) \cup {entry}) <= Cardinality(Remaining(job)) + 1
              /\ Cardinality(Remaining(job) \cup {entry}) \in Nat
          BY DropFacts, OneMore
        <5> QED BY <5>1, <5>2, DropFacts, QueueAssumption
      <4>8. Cardinality(T) \in Nat /\ Cardinality(Remaining(job) \cup {entry}) \in Nat
        BY <4>3, <4>4, FS_CardinalityType
      <4>9. Cardinality(keys) > DedupeWindow /\ Cardinality(keys) \in Nat
        BY <3>3, <1>k
      <4> HIDE DEF keys, T, entry
      <4> QED BY <4>4, <4>6, <4>7, <4>8, <4>9, QueueAssumption
    <3>4. seen' = keys \ Evicted(keys)
      BY <1>a
    <3> HIDE DEF keys, entry
    <3>5. CASE Cardinality(keys) <= DedupeWindow
      BY <3>2, <3>4, <3>5, <1>v
    <3>6. CASE Cardinality(keys) > DedupeWindow
      <4>1. PICK o \in keys : Evicted(keys) = {o} /\ \A s \in keys : o.ticket <= s.ticket
        BY <3>6, <1>v
      <4> QED BY <3>2, <3>3, <3>4, <3>6, <4>1
    <3> QED BY <3>5, <3>6, <1>k, QueueAssumption
  <2> QED BY <2>1, <2>2, <1>new
<1>6. ForgottenIsOld'
  <2> SUFFICES ASSUME DedupeWindow >= MaxPending, NEW e \in pending' \cup running'
               PROVE  Remembered(e) \in seen' \/ arrivals' - e.ticket >= DedupeWindow
    BY DEF ForgottenIsOld, Remembered, Key
  <2>1. e = entry \/ e \in Remaining(job) \cup running
    BY <1>d
  <2>2. CASE e \in Remaining(job) \cup running
    <3>1. e \in pending \cup running
      BY <2>2, DropFacts
    <3>2. Remembered(e) \in seen \/ arrivals - e.ticket >= DedupeWindow
      BY <3>1 DEF QueueInv, ForgottenIsOld
    <3>3. CASE arrivals - e.ticket >= DedupeWindow
      BY <3>1, <3>3, <1>a, <1>r, <1>t, QueueAssumption
    <3>4. CASE Remembered(e) \in seen
      <4>1. Remembered(e) \in keys
        BY <2>2, <3>4, <1>stay
      <4>2. Remembered(e).ticket = e.ticket
        BY <3>1, <1>r
      <4>3. \/ Remembered(e) \in seen'
            \/ arrivals + 1 - Remembered(e).ticket >= DedupeWindow
        <5> HIDE DEF keys
        <5>1. CASE Cardinality(keys) <= DedupeWindow
          BY <5>1, <4>1, <1>v, <1>a
        <5>2. CASE Cardinality(keys) > DedupeWindow
          <6>1. PICK o \in keys : /\ Evicted(keys) = {o}
                                  /\ arrivals + 1 - o.ticket >= DedupeWindow
            BY <5>2, <1>v
          <6> QED BY <6>1, <4>1, <1>a
        <5> QED BY <5>1, <5>2, <1>k, QueueAssumption
      <4>4. arrivals' = arrivals + 1 /\ arrivals \in Int /\ e.ticket \in Int
        BY <1>a, <1>t, <1>r, <3>1
      <4> HIDE DEF keys, entry
      <4> QED BY <4>2, <4>3, <4>4
    <3> QED BY <3>2, <3>3, <3>4
  <2> QED BY <2>1, <2>2, <1>new
<1>7. DuplicatesAreFarApart'
  <2> SUFFICES ASSUME DedupeWindow >= MaxPending,
                      NEW e \in pending' \cup running', NEW f \in pending' \cup running',
                      Key(e.job) = Key(f.job), e.ticket < f.ticket
               PROVE  f.ticket - e.ticket > DedupeWindow
    BY DEF DuplicatesAreFarApart, Key
  <2>1. \A x \in pending' \cup running' : x = entry \/ x \in pending \cup running
    BY <1>d, DropFacts
  <2>2. CASE e = entry
    BY <2>1, <2>2, <1>r, <1>t
  <2>3. CASE e \in pending \cup running /\ f \in pending \cup running
    BY <2>3 DEF QueueInv, DuplicatesAreFarApart
  <2>4. CASE e \in pending \cup running /\ f = entry
    <3>1. Remembered(e) \notin seen
      BY <2>4, <1>a, <1>r, <1>t DEF IsDuplicate
    <3>2. arrivals - e.ticket >= DedupeWindow
      BY <2>4, <3>1 DEF QueueInv, ForgottenIsOld
    <3>3. e.ticket \in Int /\ arrivals \in Int /\ f.ticket = arrivals + 1
      BY <2>4, <1>r, <1>t
    <3> QED BY <3>2, <3>3, QueueAssumption
  <2> QED BY <2>1, <2>2, <2>3, <2>4
<1>8. NoWaiterWhenIdle'
  BY <1>d DEF NoWaiterWhenIdle
<1>9. TicketsArePast'
  <2>1. \A e \in pending' \cup running' : e.ticket <= arrivals'
    <3>1. \A e \in pending' \cup running' : e = entry \/ e \in pending \cup running
      BY <1>d, DropFacts
    <3> QED BY <3>1, <1>r, <1>t, <1>a
  <2>2. \A e, f \in pending' \cup running' : e.ticket = f.ticket => e = f
    <3>1. \A e \in pending' \cup running' : e = entry \/ e \in pending \cup running
      BY <1>d, DropFacts
    <3> QED BY <3>1, <1>r, <1>t DEF QueueInv, TicketsArePast
  <2>3. \A s \in seen' : s \in keys
    BY <1>a
  <2> HIDE DEF keys
  <2> QED BY <2>1, <2>2, <2>3, <1>k, <1>a, <1>t DEF TicketsArePast
<1>10. SeenEndsWithWaiting'
  <2> SUFFICES ASSUME NEW p \in pending', NEW s \in seen', p.ticket <= s.ticket
               PROVE  \E q \in pending' : Remembered(q) = s
    BY DEF SeenEndsWithWaiting, Remembered, Key
  <2>1. pending' = Remaining(job) \cup {entry}
    BY <1>d
  <2>2. s = Remembered(entry) \/ (s \in seen /\ s \notin Forgotten(job))
    BY <1>a
  <2>3. CASE s \in seen /\ s \notin Forgotten(job)
    <3>1. p \in pending
      BY <2>1, <2>3, <1>s, <1>t, DropFacts
    <3>2. PICK q \in pending : Remembered(q) = s
      BY <3>1, <2>3 DEF QueueInv, SeenEndsWithWaiting
    <3>3. q \notin Dropped(job)
      BY <2>3, <3>2 DEF Forgotten, Remembered
    <3> QED BY <2>1, <3>2, <3>3 DEF Remaining
  <2> QED BY <2>1, <2>2, <2>3
<1> QED BY <1>1, <1>2, <1>3, <1>4, <1>5, <1>6, <1>7, <1>8, <1>9, <1>10 DEF QueueInv
\* A job ends and, if any job waits, the oldest takes its slot.
LEMMA DrainAfterSettle ==
    ASSUME QueueInv, NEW e \in running, Settle(e)
    PROVE  \/ /\ pending = {} /\ pending' = {}
              /\ running' = running \ {e}
              /\ waiters' = IF running' = {} THEN {} ELSE waiters
           \/ /\ Cardinality(running) = Concurrency
              /\ waiters' = waiters
              /\ \E n \in pending :
                    /\ \A p \in pending : n.ticket <= p.ticket
                    /\ pending' = pending \ {n}
                    /\ running' = (running \ {e}) \cup {n}
<1>1. CASE pending = {}
  <2>1. Started({}, running \ {e}) = {}
    BY DEF Started
  <2>2. /\ pending' = {}
        /\ running' = running \ {e}
        /\ waiters' = IF running \ {e} = {} THEN {} ELSE waiters
    BY <1>1, <2>1 DEF Settle, Drain
  <2> QED BY <1>1, <2>2
<1>2. CASE pending # {}
  <2>1. /\ IsFiniteSet(running) /\ IsFiniteSet(pending)
        /\ Cardinality(running) = Concurrency
    BY <1>2 DEF QueueInv, Limits
  <2>2. Cardinality(running \ {e}) = Concurrency - 1
    BY <2>1, FS_RemoveElement
  <2>3. \A x \in pending : x.ticket \in Int
    BY DEF QueueInv, TypeOK, Entry
  <2>4. \A x, y \in pending : x.ticket = y.ticket => x = y
    BY DEF QueueInv, TicketsArePast
  <2>5. PICK n \in pending : Started(pending, running \ {e}) = {n}
    BY <1>2, <2>1, <2>2, <2>3, <2>4, OneFreeSlot
  <2>6. \A p \in pending : p.ticket <= n.ticket => p = n
    <3>1. Cardinality(running \ {e}) \in Nat
      BY <2>2, QueueAssumption
    <3>2. n \in Started(pending, running \ {e})
      BY <2>5
    <3>3. \A p \in pending : p.ticket <= n.ticket => p \in Started(pending, running \ {e})
      BY <2>1, <2>3, <3>1, <3>2, StartedAreFirst
    <3> QED BY <2>5, <3>3
  <2>7. \A p \in pending : n.ticket <= p.ticket
    BY <2>3, <2>6
  <2>8. /\ pending' = pending \ {n}
        /\ running' = (running \ {e}) \cup {n}
        /\ waiters' = waiters
    BY <1>2, <2>5 DEF Settle, Drain
  <2> QED BY <2>1, <2>7, <2>8
<1> QED BY <1>1, <1>2

\* A settled job leaves the invariant as it was: nothing else changes places
\* but the oldest waiting job.
LEMMA SettleKeepsInv ==
    ASSUME QueueInv, NEW e \in running, Settle(e)
    PROVE  QueueInv'
<1>1. /\ seen' = seen /\ arrivals' = arrivals
      /\ pending' \subseteq pending
      /\ running' \subseteq running \cup pending
      /\ waiters' \subseteq waiters
  BY DrainAfterSettle DEF Settle
<1>2. \A r \in running', p \in pending' : r.ticket < p.ticket
  <2>1. \A r \in running, p \in pending : r.ticket < p.ticket
    BY DEF QueueInv, StartsInOrder
  <2>2. ASSUME NEW n \in pending, \A p \in pending : n.ticket <= p.ticket,
               pending' = pending \ {n}, running' = (running \ {e}) \cup {n}
        PROVE  \A r \in running', p \in pending' : r.ticket < p.ticket
    <3>1. \A p \in pending : p.ticket \in Int /\ (p.ticket = n.ticket => p = n)
      BY DEF QueueInv, TypeOK, Entry, TicketsArePast
    <3> QED BY <2>1, <2>2, <3>1
  <2> QED BY <2>1, <2>2, DrainAfterSettle
<1>3. TypeOK'
  <2>1. pending' \subseteq Entry /\ running' \subseteq Entry
    BY <1>1 DEF QueueInv, TypeOK
  <2> QED BY <1>1, <2>1 DEF QueueInv, TypeOK
<1>4. (IsFiniteSet(pending) /\ IsFiniteSet(running) /\ IsFiniteSet(seen))'
  <2>1. IsFiniteSet(running \cup pending)
    BY FS_Union DEF QueueInv
  <2>2. IsFiniteSet(pending') /\ IsFiniteSet(running')
    BY <1>1, <2>1, FS_Subset DEF QueueInv
  <2> QED BY <1>1, <2>2 DEF QueueInv
<1>5. Limits'
  <2>1. /\ IsFiniteSet(pending) /\ IsFiniteSet(running)
        /\ Cardinality(pending) \in Nat /\ Cardinality(running) \in Nat
        /\ Cardinality(pending) <= MaxPending /\ Cardinality(running) <= Concurrency
    BY FS_CardinalityType DEF QueueInv, Limits
  <2>2. Cardinality(pending') <= MaxPending
    <3>1. Cardinality(pending') <= Cardinality(pending) /\ IsFiniteSet(pending')
      BY <1>1, <2>1, FS_Subset
    <3>2. Cardinality(pending') \in Nat
      BY <3>1, FS_CardinalityType
    <3> QED BY <2>1, <3>1, <3>2, QueueAssumption
  <2>3. IsFiniteSet(running \ {e}) /\ Cardinality(running \ {e}) = Cardinality(running) - 1
    BY <2>1, FS_RemoveElement
  <2>4. /\ Cardinality(running') <= Concurrency
        /\ pending' # {} => Cardinality(running') = Concurrency
    <3>1. CASE pending' = {} /\ running' = running \ {e}
      BY <3>1, <2>1, <2>3, QueueAssumption
    <3>2. ASSUME NEW n \in pending, running' = (running \ {e}) \cup {n},
                 Cardinality(running) = Concurrency
          PROVE  Cardinality(running') = Concurrency
      <4>1. n \notin running
        BY DEF QueueInv, StartsInOrder, TypeOK, Entry
      <4>2. Cardinality(running') = Cardinality(running \ {e}) + 1
        BY <4>1, <3>2, <2>3, FS_AddElement
      <4> QED BY <4>2, <2>3, <3>2, QueueAssumption
    <3> QED BY <3>1, <3>2, DrainAfterSettle, QueueAssumption
  <2>5. Cardinality(seen') <= DedupeWindow
    BY <1>1 DEF QueueInv, Limits
  <2> QED BY <2>2, <2>4, <2>5 DEF Limits
<1>6. StartsInOrder'
  BY <1>2 DEF StartsInOrder
<1>7. WaitingIsRemembered'
  BY <1>1 DEF QueueInv, WaitingIsRemembered, Remembered, Key
<1>8. DuplicatesAreFarApart'
  BY <1>1 DEF QueueInv, DuplicatesAreFarApart, Key
<1>9. NoWaiterWhenIdle'
  BY DrainAfterSettle, QueueAssumption DEF QueueInv, NoWaiterWhenIdle
<1>10. TicketsArePast'
  BY <1>1 DEF QueueInv, TicketsArePast
<1>11. SeenEndsWithWaiting'
  <2> SUFFICES ASSUME NEW p \in pending', NEW s \in seen', p.ticket <= s.ticket
               PROVE  \E q \in pending' : Remembered(q) = s
    BY DEF SeenEndsWithWaiting, Remembered, Key
  <2>1. p \in pending /\ s \in seen
    BY <1>1
  <2>2. PICK q \in pending : Remembered(q) = s
    BY <2>1 DEF QueueInv, SeenEndsWithWaiting
  <2>3. q.ticket = s.ticket
    BY <2>2 DEF Remembered
  <2>4. q \in pending' \/ q \in running'
    BY <2>2, DrainAfterSettle
  <2>5. ASSUME q \in running' PROVE FALSE
    <3>1. q.ticket < p.ticket
      BY <2>5, <1>2
    <3>2. q.ticket \in Int /\ p.ticket \in Int
      BY <2>1, <2>2 DEF QueueInv, TypeOK, Entry
    <3> QED BY <3>1, <3>2, <2>3
  <2> QED BY <2>2, <2>4, <2>5
<1>12. ForgottenIsOld'
  BY <1>1 DEF QueueInv, ForgottenIsOld, Remembered, Key
<1> QED BY <1>3, <1>4, <1>5, <1>6, <1>7, <1>8, <1>9, <1>10, <1>11, <1>12
        DEF QueueInv

\* A caller joins the waiters of a queue that is not idle.
LEMMA OnIdleKeepsInv ==
    ASSUME QueueInv, NEW w \in Waiters, OnIdle(w)
    PROVE  QueueInv'
<1>1. /\ UNCHANGED <<pending, running, seen, arrivals>>
      /\ waiters' = waiters \cup {w} /\ pending \cup running # {}
  BY DEF OnIdle
<1>2. TypeOK'
  BY <1>1 DEF QueueInv, TypeOK
<1>3. Limits' /\ StartsInOrder' /\ NoWaiterWhenIdle' /\ TicketsArePast'
  BY <1>1 DEF QueueInv, Limits, StartsInOrder, NoWaiterWhenIdle, TicketsArePast
<1>4. /\ WaitingIsRemembered' /\ DuplicatesAreFarApart'
      /\ SeenEndsWithWaiting' /\ ForgottenIsOld'
  BY <1>1 DEF QueueInv, WaitingIsRemembered, DuplicatesAreFarApart,
              SeenEndsWithWaiting, ForgottenIsOld, Remembered, Key
<1>5. (IsFiniteSet(pending) /\ IsFiniteSet(running) /\ IsFiniteSet(seen))'
  BY <1>1 DEF QueueInv
<1> QED BY <1>2, <1>3, <1>4, <1>5 DEF QueueInv

LEMMA StutterKeepsInv ==
    ASSUME QueueInv, UNCHANGED vars
    PROVE  QueueInv'
<1> QED BY DEF vars, QueueInv, TypeOK, Limits, StartsInOrder, WaitingIsRemembered,
               DuplicatesAreFarApart, NoWaiterWhenIdle, TicketsArePast,
               SeenEndsWithWaiting, ForgottenIsOld, Remembered, Key

LEMMA NextKeepsInv ==
    ASSUME QueueInv, [Next]_vars
    PROVE  QueueInv'
<1>1. ASSUME NEW job \in Jobs, Enqueue(job) PROVE QueueInv'
  <2>1. CASE EnqueueDuplicate(job)
    BY <2>1, StutterKeepsInv DEF EnqueueDuplicate
  <2>2. CASE EnqueueOverloaded(job)
    BY <2>2, RefusalChangesNothing, StutterKeepsInv
  <2>3. CASE EnqueueQueued(job)
    BY <2>3, QueuedKeepsInv
  <2> QED BY <1>1, <2>1, <2>2, <2>3 DEF Enqueue
<1>2. ASSUME NEW w \in Waiters, OnIdle(w) PROVE QueueInv'
  BY <1>2, OnIdleKeepsInv
<1>3. ASSUME NEW e \in running, Settle(e) PROVE QueueInv'
  BY <1>3, SettleKeepsInv
<1>4. CASE UNCHANGED vars
  BY <1>4, StutterKeepsInv
<1> QED BY <1>1, <1>2, <1>3, <1>4 DEF Next

-----------------------------------------------------------------------------
(* The theorems                                                            *)

\* Every reachable state of the queue satisfies the inductive invariant.
THEOREM Invariance == Spec => []QueueInv
<1>1. Init => QueueInv
  BY InitInv
<1>2. QueueInv /\ [Next]_vars => QueueInv'
  BY NextKeepsInv
<1> QED BY <1>1, <1>2, PTL DEF Spec

\* enqueue, drain and the end of #run keep every collection of its type.
THEOREM TypeCorrect == Spec => []TypeOK
<1>1. QueueInv => TypeOK
  BY DEF QueueInv
<1> QED BY <1>1, Invariance, PTL

\* The queue respects maxPending, concurrency and dedupeWindow, and no job
\* waits beside a free slot.
THEOREM LimitsHold == Spec => []Limits
<1>1. QueueInv => Limits
  BY DEF QueueInv
<1> QED BY <1>1, Invariance, PTL

\* Jobs start in the order in which they were accepted.
THEOREM FirstComeFirstServed == Spec => []StartsInOrder
<1>1. QueueInv => StartsInOrder
  BY DEF QueueInv
<1> QED BY <1>1, Invariance, PTL

\* With dedupeWindow at least maxPending, the key of a waiting job is never
\* evicted.
THEOREM WaitingKeysSurvive == Spec => []WaitingIsRemembered
<1>1. QueueInv => WaitingIsRemembered
  BY DEF QueueInv
<1> QED BY <1>1, Invariance, PTL

\* What duplicate collapse promises: two jobs with one key are in the queue
\* together only when more than dedupeWindow jobs lie between them.
THEOREM DuplicateCollapse == Spec => []DuplicatesAreFarApart
<1>1. QueueInv => DuplicatesAreFarApart
  BY DEF QueueInv
<1> QED BY <1>1, Invariance, PTL

\* onIdle never leaves a caller waiting on an idle queue.
THEOREM WaitersAreReleased == Spec => []NoWaiterWhenIdle
<1>1. QueueInv => NoWaiterWhenIdle
  BY DEF QueueInv
<1> QED BY <1>1, Invariance, PTL

\* A waiting job is dropped only in the step that accepts its successor, and
\* only if it is a pull_request job.
THEOREM SupersedeOnlyForSuccessor == Spec => DroppedOnlyForSuccessor
<1> DEFINE A == \A e \in pending :
                  e \notin pending' \cup running' =>
                      /\ e.job.kind = "pull_request"
                      /\ \E f \in (pending' \cup running') \ (pending \cup running) :
                            Supersedes(f.job, e.job)
<1>1. QueueInv /\ [Next]_vars => [A]_vars
  <2> SUFFICES ASSUME QueueInv, Next, NEW e \in pending, e \notin pending' \cup running'
               PROVE  \/ /\ e.job.kind = "pull_request"
                         /\ \E f \in (pending' \cup running') \ (pending \cup running) :
                               Supersedes(f.job, e.job)
                      \/ UNCHANGED vars
    OBVIOUS
  <2>1. ASSUME NEW job \in Jobs, EnqueueQueued(job)
        PROVE  /\ e.job.kind = "pull_request"
               /\ \E f \in (pending' \cup running') \ (pending \cup running) :
                     Supersedes(f.job, e.job)
    <3> DEFINE entry == [job |-> job, ticket |-> arrivals + 1]
    <3>1. entry.job = job /\ entry.ticket = arrivals + 1 /\ arrivals \in Nat
      BY QueueAssumption DEF QueueInv, TypeOK
    <3>2. Drain(Remaining(job) \cup {entry}, running)
      BY <2>1 DEF EnqueueQueued
    <3> HIDE DEF entry
    <3>3. pending' \cup running' = Remaining(job) \cup {entry} \cup running
      BY <3>1, <3>2, DrainAfterEnqueue
    <3>4. e \in Dropped(job)
      BY <3>3 DEF Remaining
    <3>5. Supersedes(job, e.job)
      BY <3>4 DEF Dropped
    <3>6. entry \notin pending \cup running
      BY <3>1 DEF QueueInv, TicketsArePast
    <3> QED BY <3>1, <3>3, <3>5, <3>6 DEF Supersedes
  <2>2. ASSUME NEW job \in Jobs, EnqueueOverloaded(job)  PROVE UNCHANGED vars
    BY <2>2, RefusalChangesNothing
  <2>3. ASSUME NEW job \in Jobs, EnqueueDuplicate(job)  PROVE UNCHANGED vars
    BY <2>3 DEF EnqueueDuplicate
  <2>4. ASSUME NEW w \in Waiters, OnIdle(w)  PROVE FALSE
    BY <2>4 DEF OnIdle
  <2>5. ASSUME NEW d \in running, Settle(d)  PROVE FALSE
    BY <2>5, DrainAfterSettle
  <2> QED BY <2>1, <2>2, <2>3, <2>4, <2>5 DEF Next, Enqueue
<1> QED BY <1>1, Invariance, PTL DEF Spec, DroppedOnlyForSuccessor
=============================================================================
