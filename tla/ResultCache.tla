---------------------------- MODULE ResultCache ----------------------------
(***************************************************************************)
(* The cache of finished check outputs for re-runs of the same commit:     *)
(* ResultCache in packages/github-app/src/worker/result-cache.ts.          *)
(*                                                                         *)
(* The code keeps a Map in recency order and, beside it, two counters that *)
(* every change of the map has to update: the bytes in all, and the        *)
(* entries of each repository.  Here an entry carries the number of its    *)
(* last use, and "first of the map" is "used longest ago".                 *)
(***************************************************************************)
EXTENDS Integers, FiniteSets

CONSTANTS
    Repositories,
    CacheKeys,          \* the cache keys of one repository
    Values,             \* check outputs
    Size,               \* their serialised sizes
    MaxBytes,           \* the budget                   (code: 16 MiB)
    MaxPerRepository,   \* entries of one repository    (code: 4)
    MaxUses             \* bound of the model: insertions and hits

ASSUME CacheAssumption ==
    /\ Size \in [Values -> Nat \ {0}]
    /\ MaxBytes \in Nat
    /\ MaxPerRepository \in Nat \ {0}
    /\ MaxUses \in Nat

VARIABLES
    entries,         \* the map: [id, value, used]
    totalBytes,
    perRepository,   \* entries per repository that has any
    uses             \* insertions and hits so far

cacheVars == <<entries, totalBytes, perRepository, uses>>

Ids == [repo : Repositories, key : CacheKeys]

CacheInit ==
    /\ entries = {}
    /\ totalBytes = 0
    /\ perRepository = [r \in {} |-> 0]
    /\ uses = 0

-----------------------------------------------------------------------------
(* The three fields change together: a state of the cache is a record here. *)

Cache == [entries |-> entries, bytes |-> totalBytes, count |-> perRepository]

\* The bytes of the entries of S, each one counted.
Bytes(e) == {e} \X (1..Size[e.value])
BytesOf(S) == Cardinality(UNION {Bytes(e) : e \in S})
Of(S, r) == {e \in S : e.id.repo = r}

\* Slip: the counter of a repository is not given back.
SlipWithout(c, gone) ==
    [entries |-> c.entries \ gone, bytes |-> c.bytes - BytesOf(gone), count |-> c.count]

\* remove(id), once for each entry of gone.
Without(c, gone) ==
    LET left == [r \in DOMAIN c.count |-> c.count[r] - Cardinality(Of(gone, r))]
    IN  [entries |-> c.entries \ gone,
         bytes   |-> c.bytes - BytesOf(gone),
         count   |-> [r \in {s \in DOMAIN left : left[s] > 0} |-> left[r]]]

\* The insertion of an entry.
With(c, e) ==
    LET r == e.id.repo
    IN  [entries |-> c.entries \cup {e},
         bytes   |-> c.bytes + Size[e.value],
         count   |-> [s \in DOMAIN c.count \cup {r} |->
                        IF s # r THEN c.count[s]
                        ELSE IF r \in DOMAIN c.count THEN c.count[r] + 1 ELSE 1]]

\* Slip: the limit is passed by one.
SlipOverRepository(c, r) ==
    IF c.count[r] > MaxPerRepository + 1
    THEN {e \in Of(c.entries, r) : \A f \in Of(c.entries, r) : e.used <= f.used}
    ELSE {}

\* The entry a repository above its limit loses.
OverRepository(c, r) ==
    IF c.count[r] > MaxPerRepository
    THEN {e \in Of(c.entries, r) : \A f \in Of(c.entries, r) : e.used <= f.used}
    ELSE {}

\* Slip: the largest entries are dropped first.
SlipOverBudget(c) ==
    {e \in c.entries :
        c.bytes - BytesOf({f \in c.entries : Size[f.value] > Size[e.value]}) > MaxBytes}

\* The entries dropped from the old end while the bytes exceed the budget.
OverBudget(c) ==
    {e \in c.entries : c.bytes - BytesOf({f \in c.entries : f.used < e.used}) > MaxBytes}

Become(c) ==
    /\ entries' = c.entries
    /\ totalBytes' = c.bytes
    /\ perRepository' = c.count

-----------------------------------------------------------------------------

Same(id) == {e \in entries : e.id = id}

\* A hit makes the entry the one used last; a miss changes nothing.
Get(id) ==
    /\ Same(id) # {}
    /\ uses < MaxUses
    /\ uses' = uses + 1
    /\ entries' = (entries \ Same(id)) \cup {[e EXCEPT !.used = uses + 1] : e \in Same(id)}
    /\ UNCHANGED <<totalBytes, perRepository>>

\* Slip: the old entry is not removed first.
SlipSet(id, value) ==
    LET new  == [id |-> id, value |-> value, used |-> uses + 1]
        put  == With(Cache, new)
        kept == Without(put, OverRepository(put, id.repo))
    IN  /\ Size[value] <= MaxBytes
        /\ uses < MaxUses
        /\ uses' = uses + 1
        /\ Become(Without(kept, OverBudget(kept)))

\* set of a value that fits: the old entry goes, the new one comes, and then
\* the limits take what is too much.
Set(id, value) ==
    LET new  == [id |-> id, value |-> value, used |-> uses + 1]
        put  == With(Without(Cache, Same(id)), new)
        kept == Without(put, OverRepository(put, id.repo))
    IN  /\ Size[value] <= MaxBytes
        /\ uses < MaxUses
        /\ uses' = uses + 1
        /\ Become(Without(kept, OverBudget(kept)))

\* set of a value larger than the whole budget.
SetTooLarge(id, value) ==
    /\ Size[value] > MaxBytes
    /\ Become(Without(Cache, Same(id)))
    /\ UNCHANGED uses

CacheNext ==
    \E id \in Ids :
        \/ Get(id)
        \/ \E v \in Values : Set(id, v) \/ SetTooLarge(id, v)

CacheSpec == CacheInit /\ [][CacheNext]_cacheVars

-----------------------------------------------------------------------------
(* Properties                                                              *)

CacheTypeOK ==
    /\ entries \subseteq [id : Ids, value : Values, used : 1..MaxUses]
    /\ totalBytes \in Nat
    /\ DOMAIN perRepository \subseteq Repositories
    /\ \A r \in DOMAIN perRepository : perRepository[r] \in Nat
    /\ uses \in 0..MaxUses

\* The counters never drift from the map, over any sequence of hits,
\* replacements, refusals and evictions.  If the bytes could only grow, the
\* loop that drops entries "while totalBytes > maxBytes" would empty the map
\* and then spin; if a repository's count could, its entries would shrink.
CountersAgree ==
    /\ totalBytes = BytesOf(entries)
    /\ DOMAIN perRepository = {e.id.repo : e \in entries}
    /\ \A r \in DOMAIN perRepository : perRepository[r] = Cardinality(Of(entries, r))

\* Both limits hold after every call.
WithinLimits ==
    /\ totalBytes <= MaxBytes
    /\ \A r \in Repositories : Cardinality(Of(entries, r)) <= MaxPerRepository

\* The counters of the cache never drift from its entries and both limits hold
\* after every call, over any sequence of hits, replacements, refusals and
\* evictions (result-cache.ts).
CacheIsCounted == CountersAgree /\ WithinLimits

\* An id has one entry, and no two entries were used last at once.
OneEntryEach ==
    \A e, f \in entries : e.id = f.id \/ e.used = f.used => e = f

\* What a repository loses to a limit was used before everything it keeps.
LosesLeastRecentlyUsed ==
    [][\A e, f \in entries :
          /\ e.id.repo = f.id.repo
          /\ e.id \notin {g.id : g \in entries'}
          /\ f \in entries'
          /\ \E g \in entries' : g.used > uses
          => e.used < f.used]_cacheVars

\* The cache does what its users may rely on.
Fits(v) == Size[v] <= MaxBytes
Abstract ==
    INSTANCE ForgetfulCache
        WITH Names <- Ids, stored <- {[name |-> e.id, value |-> e.value] : e \in entries}
Forgetful == Abstract!Spec

\* The cache answers a lookup with what was stored last under the id or not at
\* all, and what a repository loses to a limit was used before all it keeps.
CacheOnlyForgets == Forgetful /\ LosesLeastRecentlyUsed

\* The inductive invariant.
CacheInv ==
    /\ CacheTypeOK
    /\ IsFiniteSet(entries)
    /\ CountersAgree
    /\ WithinLimits
    /\ OneEntryEach
    /\ \A e \in entries : e.used <= uses
=============================================================================
