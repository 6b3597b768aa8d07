------------------------ MODULE ProcessMemoryProofs ------------------------
(***************************************************************************)
(* Proofs about what a process of the app remembers beside its queue: the  *)
(* busy limiter, for every set of repositories, every clock and every size *)
(* of its map, and the result cache, for every set of repositories, keys   *)
(* and values, every size and both limits.  LimiterInv (module             *)
(* BusyLimiter) and CacheInv (module ResultCache) are inductive, and every *)
(* step of the cache is one the abstract cache of module ForgetfulCache    *)
(* allows.  And about the frame it collects of an analysis child, for      *)
(* every stream, every cut of it into chunks, every width of the header    *)
(* and every limit: CollectorInv (module FrameCollector) is inductive.     *)
(***************************************************************************)
EXTENDS BusyLimiter, ResultCache, FrameCollector, FiniteSetTheorems, SequenceTheorems, TLAPS

-----------------------------------------------------------------------------
(* The limiter: sets of permissions                                        *)

\* Among finitely many permissions one is the oldest: what the eviction of
\* the first key of the map takes.
LEMMA OldestPermission ==
    ASSUME NEW S, IsFiniteSet(S), S # {}, \A x \in S : x.number \in Int
    PROVE  \E x \in S : \A y \in S : x.number <= y.number
<1> DEFINE Below(x) == {y \in S : y.number < x.number}
           T == {Below(x) : x \in S}
<1>1. T \subseteq FiniteSubsetsOf(S) /\ T # {}
  <2>1. \A x \in S : Below(x) \in SUBSET S
    OBVIOUS
  <2>2. \A U \in SUBSET S : IsFiniteSet(U)
    BY FS_Subset
  <2>3. \A x \in S : Below(x) \in FiniteSubsetsOf(S)
    BY <2>1, <2>2 DEF FiniteSubsetsOf
  <2> QED BY <2>3
<1>2. PICK B \in T : \A C \in T : <<C, B>> \notin StrictSubsetOrdering(S)
  <2> HIDE DEF T
  <2> QED BY <1>1, WFMin, FS_StrictSubsetOrderingWellFounded
<1>3. PICK x \in S : B = Below(x)
  OBVIOUS
<1>4. ASSUME NEW y \in S, y.number < x.number  PROVE FALSE
  <2>1. Below(y) \subseteq B /\ y \in B /\ y \notin Below(y)
    BY <1>3, <1>4
  <2>2. <<Below(y), B>> \in StrictSubsetOrdering(S)
    BY <2>1, <1>3 DEF StrictSubsetOrdering
  <2> QED BY <1>2, <2>2
<1> QED BY <1>4

\* The repositories of finitely many permissions are finitely many.
LEMMA ReposFinite ==
    ASSUME NEW S, IsFiniteSet(S)
    PROVE  IsFiniteSet({g.repo : g \in S})
<1> DEFINE T == {g.repo : g \in S}
           f == [g \in S |-> g.repo]
<1>1. f \in Surjection(S, T)
  BY DEF Surjection
<1> QED BY <1>1, FS_Surjection

\* Permissions of distinct repositories are no more than the repositories of
\* a set that holds theirs.
LEMMA DistinctRepos ==
    ASSUME NEW S, NEW T, IsFiniteSet(T), \A g \in S : g.repo \in T,
           \A g, h \in S : g.repo = h.repo => g = h
    PROVE  IsFiniteSet(S) /\ Cardinality(S) <= Cardinality(T)
<1> DEFINE f == [g \in S |-> g.repo]
<1>1. f \in Injection(S, T)
  BY DEF Injection, IsInjective
<1> QED BY <1>1, FS_Injection

\* One more element, and one fewer.
LEMMA PlusOne ==
    ASSUME NEW S, NEW x, IsFiniteSet(S)
    PROVE  /\ IsFiniteSet(S \cup {x})
           /\ Cardinality(S) \in Nat /\ Cardinality(S \cup {x}) \in Nat
           /\ Cardinality(S \cup {x}) <= Cardinality(S) + 1
           /\ x \notin S => Cardinality(S \cup {x}) = Cardinality(S) + 1
<1>1. IsFiniteSet(S \cup {x})
  BY FS_AddElement
<1>2. Cardinality(S) \in Nat /\ Cardinality(S \cup {x}) \in Nat
  BY <1>1, FS_CardinalityType
<1>3. CASE x \in S
  <2>1. S \cup {x} = S
    BY <1>3
  <2>2. Cardinality(S \cup {x}) = Cardinality(S)
    BY <2>1, Zenon
  <2> DEFINE a == Cardinality(S)
             b == Cardinality(S \cup {x})
  <2>3. a \in Nat /\ b = a
    BY <1>2, <2>2
  <2>4. b <= a + 1
    <3> HIDE DEF a, b
    <3> QED BY <2>3
  <2> QED BY <1>1, <1>2, <1>3, <2>4
<1>4. CASE x \notin S
  <2>1. Cardinality(S \cup {x}) = Cardinality(S) + 1
    BY <1>4, FS_AddElement
  <2> QED BY <1>1, <1>2, <2>1
<1> QED BY <1>3, <1>4

LEMMA MinusOne ==
    ASSUME NEW S, NEW x \in S, IsFiniteSet(S)
    PROVE  /\ IsFiniteSet(S \ {x})
           /\ Cardinality(S) \in Nat /\ Cardinality(S \ {x}) \in Nat
           /\ Cardinality(S \ {x}) = Cardinality(S) - 1
<1>1. IsFiniteSet(S \ {x}) /\ Cardinality(S \ {x}) = Cardinality(S) - 1
  BY FS_RemoveElement
<1> QED BY <1>1, FS_CardinalityType

-----------------------------------------------------------------------------
(* The inductive invariant                                                 *)

LEMMA LimiterInitHasInv == LimiterInit => LimiterInv
<1> SUFFICES ASSUME LimiterInit PROVE LimiterInv
  OBVIOUS
<1>1. IsFiniteSet(granted) /\ Cardinality(last) = 0 /\ Cardinality(granted) = 0
  BY FS_EmptySet DEF LimiterInit
<1> QED BY <1>1, LimiterAssumption
     DEF LimiterInit, LimiterInv, LimiterTypeOK, NumbersCount, RememberedIsNewest,
         ForgottenIsFar, OnePerWindow, IsNewest

\* A permission keeps the invariant.
LEMMA AllowKeepsInv ==
    ASSUME LimiterInv, NEW r \in RepositoryIds, NEW now \in Times, Allow(r, now)
    PROVE  LimiterInv'
<1> DEFINE n == Permission(r, now)
           Rest == {q \in last : q.repo # r}
           S == Rest \cup {n}
<1> USE LimiterAssumption
<1>1. /\ last \subseteq granted /\ IsFiniteSet(granted)
      /\ granted \subseteq [repo : RepositoryIds, at : Times, number : 1 .. MaxPermissions]
      /\ Cardinality(granted) \in Nat /\ Cardinality(granted) < MaxPermissions
      /\ \A p \in granted : p.number \in Nat /\ p.number >= 1 /\ p.number <= Cardinality(granted)
      /\ \A p, q \in granted : p.number = q.number => p = q
  BY FS_CardinalityType DEF LimiterInv, LimiterTypeOK, NumbersCount, Allow
<1>2. /\ n.repo = r /\ n.at = now /\ n.number = Cardinality(granted) + 1
      /\ n \in [repo : RepositoryIds, at : Times, number : 1 .. MaxPermissions]
      /\ n \notin granted
  BY <1>1 DEF Permission
<1>3. granted' = granted \cup {n} /\ last' = S \ Outgrown(S) /\ ~IsLimited(r, now)
  BY DEF Allow
<1> HIDE DEF n
<1>4. /\ IsFiniteSet(granted') /\ Cardinality(granted') = Cardinality(granted) + 1
  BY <1>1, <1>2, <1>3, PlusOne
<1>5. NumbersCount'
  <2>1. ASSUME NEW p \in granted'  PROVE p.number <= Cardinality(granted')
    <3>1. CASE p \in granted
      <4>1. p.number \in Nat /\ p.number <= Cardinality(granted)
        BY <1>1, <3>1
      <4> QED BY <1>1, <1>4, <4>1
    <3>2. CASE p = n
      BY <1>2, <1>4, <3>2
    <3> QED BY <1>3, <3>1, <3>2
  <2>2. ASSUME NEW p \in granted', NEW q \in granted', p.number = q.number  PROVE p = q
    <3>1. \A g \in granted : g.number # n.number
      BY <1>1, <1>2
    <3>2. CASE p \in granted /\ q \in granted
      BY <1>1, <2>2, <3>2
    <3>3. CASE p = n \/ q = n
      BY <1>3, <2>2, <3>1, <3>3
    <3> QED BY <1>3, <3>2, <3>3
  <2> QED BY <1>4, <2>1, <2>2 DEF NumbersCount
<1>6. /\ S \subseteq granted' /\ IsFiniteSet(S) /\ Cardinality(S) \in Nat
      /\ Cardinality(S) <= MaxRepositories + 1
      /\ \A p, q \in S : p.repo = q.repo => p = q
      /\ \A p \in S : p.number \in Int
  <2>1. IsFiniteSet(last) /\ Cardinality(last) <= MaxRepositories
    BY <1>1, FS_Subset DEF LimiterInv, LimiterTypeOK
  <2>2. IsFiniteSet(Rest) /\ Cardinality(Rest) <= Cardinality(last)
    BY <2>1, FS_Subset
  <2>3. IsFiniteSet(S) /\ Cardinality(S) \in Nat /\ Cardinality(S) <= Cardinality(Rest) + 1
        /\ Cardinality(Rest) \in Nat
    BY <2>2, PlusOne
  <2>4. Cardinality(last) \in Nat
    BY <2>1, FS_CardinalityType
  <2>5. Cardinality(S) <= MaxRepositories + 1
    <3> HIDE DEF S, Rest
    <3> QED BY <2>1, <2>2, <2>3, <2>4
  <2>6. \A p, q \in S : p.repo = q.repo => p = q
    BY <1>2 DEF LimiterInv, LimiterTypeOK
  <2> QED BY <1>1, <1>2, <1>3, <2>3, <2>5, <2>6
<1>7. LimiterTypeOK'
  <2>1. Cardinality(last') <= MaxRepositories
    <3>1. CASE Cardinality(S) <= MaxRepositories
      <4>1. last' = S
        <5> HIDE DEF S
        <5> QED BY <1>3, <1>6, <3>1 DEF Outgrown
      <4> QED BY <3>1, <4>1
    <3>2. CASE Cardinality(S) > MaxRepositories
      <4>1. S # {}
        OBVIOUS
      <4> HIDE DEF S
      <4>2. PICK m \in S : \A y \in S : m.number <= y.number
        BY <1>6, <4>1, OldestPermission
      <4>3. m \in Outgrown(S)
        BY <3>2, <4>2 DEF Outgrown
      <4>4. last' \in SUBSET (S \ {m})
        BY <1>3, <4>3
      <4>5. IsFiniteSet(S \ {m}) /\ Cardinality(S \ {m}) = Cardinality(S) - 1
        BY <1>6, MinusOne
      <4>6. Cardinality(last') <= Cardinality(S) - 1 /\ Cardinality(last') \in Nat
        BY <4>4, <4>5, FS_Subset, FS_CardinalityType
      <4> QED BY <1>6, <4>6
    <3> HIDE DEF S
    <3> QED BY <1>6, <3>1, <3>2
  <2>2. last' \subseteq S
    BY <1>3
  <2>3. granted' \subseteq [repo : RepositoryIds, at : Times, number : 1 .. MaxPermissions]
    BY <1>1, <1>2, <1>3
  <2> HIDE DEF S
  <2> QED BY <1>6, <2>1, <2>2, <2>3 DEF LimiterTypeOK
<1>8. RememberedIsNewest'
  <2> SUFFICES ASSUME NEW p \in last', NEW q \in granted', q.repo = p.repo
               PROVE  q.number <= p.number
    BY DEF RememberedIsNewest, IsNewest
  <2>1. p \in S
    BY <1>3
  <2>2. CASE p = n
    BY <1>1, <1>2, <1>3, <2>2
  <2>3. CASE p \in Rest
    <3>1. q \in granted
      BY <1>2, <1>3, <2>3
    <3> QED BY <2>3, <3>1 DEF LimiterInv, RememberedIsNewest, IsNewest
  <2> QED BY <2>1, <2>2, <2>3
<1>9. ForgottenIsFar'
  <2> SUFFICES ASSUME NEW p \in granted', p \notin last', IsNewest(p)'
               PROVE  MaxRepositories <= Cardinality(After(p)')
    BY DEF ForgottenIsFar
  <2>1. IsFiniteSet(After(p)')
    <3>1. {h \in granted' : p.number < h.number} \in SUBSET granted'
      OBVIOUS
    <3>2. IsFiniteSet({h \in granted' : p.number < h.number})
      BY <1>4, <3>1, FS_Subset
    <3> QED BY <3>2, ReposFinite DEF After
  <2>2. Cardinality(After(p)') \in Nat
    BY <2>1, FS_CardinalityType
  <2>3. CASE p \in S
    <3>1. p \in Outgrown(S)
      BY <1>3, <2>3
    <3>2. Cardinality(S) > MaxRepositories /\ \A q \in S : p.number <= q.number
      <4> HIDE DEF S
      <4> QED BY <3>1 DEF Outgrown
    <3>3. \A q \in S \ {p} : q.repo \in After(p)'
      <4> SUFFICES ASSUME NEW q \in S \ {p} PROVE q.repo \in After(p)'
        OBVIOUS
      <4>1. q \in granted' /\ p.number \in Nat /\ q.number \in Nat
        BY <1>1, <1>2, <1>3
      <4>2. p.number # q.number
        BY <1>5, <4>1 DEF NumbersCount
      <4>3. p.number < q.number
        <5> HIDE DEF S
        <5> QED BY <3>2, <4>1, <4>2
      <4> QED BY <4>1, <4>3 DEF After
    <3> HIDE DEF S
    <3>4. Cardinality(S \ {p}) <= Cardinality(After(p)')
      BY <1>6, <2>1, <3>3, DistinctRepos
    <3>5. Cardinality(S \ {p}) = Cardinality(S) - 1
      BY <1>6, <2>3, MinusOne
    <3> QED BY <1>6, <2>2, <3>2, <3>4, <3>5
  <2>4. CASE p \notin S
    <3>1. p \in granted /\ p # n
      BY <1>3, <2>4
    <3>2. IsNewest(p) /\ p.repo # r
      <4>1. IsNewest(p)
        BY <1>3 DEF IsNewest
      <4>2. p.repo # r
        BY <1>1, <1>2, <1>3, <3>1 DEF IsNewest
      <4> QED BY <4>1, <4>2
    <3>3. p \notin last
      BY <2>4, <3>2
    <3>4. MaxRepositories <= Cardinality(After(p))
      BY <3>1, <3>2, <3>3 DEF LimiterInv, ForgottenIsFar
    <3>5. After(p) \in SUBSET After(p)'
      BY <1>3 DEF After
    <3>6. Cardinality(After(p)) <= Cardinality(After(p)') /\ Cardinality(After(p)) \in Nat
      BY <2>1, <3>5, FS_Subset, FS_CardinalityType
    <3> QED BY <2>2, <3>4, <3>6
  <2> QED BY <2>3, <2>4
<1>10. OnePerWindow'
  <2> SUFFICES ASSUME NEW p \in granted', NEW q \in granted',
                      p.repo = q.repo, p.number < q.number,
                      p.repo \notin Between(p, q)',
                      Cardinality(Between(p, q)') < MaxRepositories
               PROVE  q.at - p.at >= Window
    BY DEF OnePerWindow
  <2>1. p \in granted
    BY <1>1, <1>2, <1>3
  <2>2. CASE q \in granted
    <3>1. Between(p, q)' = Between(p, q)
      BY <1>1, <1>2, <1>3, <2>2 DEF Between
    <3> QED BY <2>1, <2>2, <3>1 DEF LimiterInv, OnePerWindow
  <2>3. CASE q = n
    <3>1. Between(p, q)' = After(p)
      BY <1>1, <1>2, <1>3, <2>3 DEF Between, After
    <3>2. IsNewest(p)
      <4> SUFFICES ASSUME NEW g \in granted, g.repo = p.repo, ~(g.number <= p.number)
                   PROVE  FALSE
        BY DEF IsNewest
      <4>1. p.number < g.number
        BY <1>1, <2>1
      <4>2. g.repo \in After(p)
        BY <4>1 DEF After
      <4> QED BY <3>1, <4>2
    <3>3. p \in last
      <4> SUFFICES ASSUME p \notin last PROVE FALSE
        OBVIOUS
      <4>1. MaxRepositories <= Cardinality(After(p))
        BY <2>1, <3>2 DEF LimiterInv, ForgottenIsFar
      <4>2. {h \in granted : p.number < h.number} \in SUBSET granted
        OBVIOUS
      <4>3. IsFiniteSet({h \in granted : p.number < h.number})
        BY <1>1, <4>2, FS_Subset
      <4>4. Cardinality(After(p)) \in Nat
        BY <4>3, ReposFinite, FS_CardinalityType DEF After
      <4> QED BY <3>1, <4>1, <4>4
    <3>4. ~(now - p.at < Window)
      BY <1>2, <1>3, <2>3, <3>3 DEF IsLimited
    <3>5. p.at \in Nat /\ now \in Nat /\ Window \in Nat /\ q.at = now
      BY <1>1, <1>2, <2>1, <2>3
    <3> QED BY <3>4, <3>5
  <2> QED BY <1>3, <2>2, <2>3
<1> QED BY <1>5, <1>7, <1>8, <1>9, <1>10 DEF LimiterInv

LEMMA LimiterStepKeepsInv == LimiterInv /\ [LimiterNext]_limiterVars => LimiterInv'
<1> SUFFICES ASSUME LimiterInv, [LimiterNext]_limiterVars PROVE LimiterInv'
  OBVIOUS
<1>1. ASSUME NEW r \in RepositoryIds, NEW now \in Times, Allow(r, now) PROVE LimiterInv'
  BY <1>1, AllowKeepsInv
<1>2. CASE UNCHANGED limiterVars
  BY <1>2 DEF limiterVars, LimiterInv, LimiterTypeOK, NumbersCount, RememberedIsNewest,
       ForgottenIsFar, OnePerWindow, IsNewest, After, Between
<1>3. ASSUME NEW r \in RepositoryIds, NEW now \in Times, Deny(r, now) PROVE LimiterInv'
  BY <1>2, <1>3 DEF Deny
<1> QED BY <1>1, <1>2, <1>3 DEF LimiterNext

\* The invariant holds of the limiter (busy-limiter.ts).
THEOREM LimiterInvariant == LimiterSpec => []LimiterInv
<1> QED BY LimiterInitHasInv, LimiterStepKeepsInv, PTL DEF LimiterSpec

\* The map of the limiter is bounded, and remembers a repository once
\* (busy-limiter.ts:34-38).
THEOREM LimiterTypeCorrect == LimiterSpec => []LimiterTypeOK
<1>1. LimiterInv => LimiterTypeOK
  BY DEF LimiterInv
<1> QED BY <1>1, LimiterInvariant, PTL

\* A repository gets one busy run per window, whatever the clock does, unless
\* as many others as the map holds come between (busy-limiter.ts:27-40).
THEOREM OneRunPerWindow == LimiterSpec => []OnePerWindow
<1>1. LimiterInv => OnePerWindow
  BY DEF LimiterInv
<1> QED BY <1>1, LimiterInvariant, PTL

-----------------------------------------------------------------------------
(* The cache                                                               *)

Entries == [id : Ids, value : Values, used : 1..MaxUses]

\* A record of the cache whose counters are those of its entries.
Counted(c) ==
    /\ IsFiniteSet(c.entries)
    /\ c.entries \subseteq Entries
    /\ c.bytes = BytesOf(c.entries)
    /\ DOMAIN c.count = {e.id.repo : e \in c.entries}
    /\ \A r \in DOMAIN c.count : c.count[r] = Cardinality(Of(c.entries, r))

\* No two entries of S have one id, or were used last at once.
Told(S) == \A e, f \in S : e.id = f.id \/ e.used = f.used => e = f

-----------------------------------------------------------------------------
(* Bytes                                                                   *)

\* The bytes of finitely many entries are finitely many.
LEMMA BytesFinite ==
    ASSUME NEW S, IsFiniteSet(S), S \subseteq Entries
    PROVE  /\ IsFiniteSet(UNION {Bytes(e) : e \in S})
           /\ BytesOf(S) \in Nat
<1> DEFINE T == {Bytes(e) : e \in S}
           f == [e \in S |-> Bytes(e)]
<1>1. IsFiniteSet(T)
  <2>1. f \in Surjection(S, T)
    BY DEF Surjection
  <2> QED BY <2>1, FS_Surjection
<1>2. ASSUME NEW e \in S  PROVE IsFiniteSet(Bytes(e))
  <2>1. Size[e.value] \in Nat
    BY CacheAssumption DEF Entries
  <2>2. IsFiniteSet(1..Size[e.value])
    BY <2>1, FS_Interval
  <2>3. IsFiniteSet({e})
    BY FS_Singleton
  <2> QED BY <2>2, <2>3, FS_Product DEF Bytes
<1>3. IsFiniteSet(UNION T)
  <2>1. \A B \in T : IsFiniteSet(B)
    BY <1>2
  <2> HIDE DEF T
  <2> QED BY <1>1, <2>1, FS_UNION
<1> QED BY <1>3, FS_CardinalityType DEF BytesOf

\* The bytes of some entries are those of all less those of the others.
LEMMA BytesOfRest ==
    ASSUME NEW S, IsFiniteSet(S), S \subseteq Entries, NEW T \in SUBSET S
    PROVE  BytesOf(S \ T) = BytesOf(S) - BytesOf(T)
<1> DEFINE All(U) == UNION {Bytes(e) : e \in U}
<1>1. All(S \ T) = All(S) \ All(T) /\ All(S) \cap All(T) = All(T)
  <2>1. \A e, f : (e # f => Bytes(e) \cap Bytes(f) = {})
    BY DEF Bytes
  <2> QED BY <2>1
<1>2. IsFiniteSet(All(S))
  BY BytesFinite
<1>3. Cardinality(All(S) \ All(T)) = Cardinality(All(S)) - Cardinality(All(T))
  <2> DEFINE A == All(S)
             B == All(T)
  <2>1. IsFiniteSet(A) /\ A \cap B = B
    BY <1>1, <1>2
  <2> HIDE DEF A, B
  <2>2. Cardinality(A \ B) = Cardinality(A) - Cardinality(A \cap B)
    BY <2>1, FS_Difference
  <2>3. Cardinality(A \ B) = Cardinality(A) - Cardinality(B)
    BY <2>1, <2>2
  <2> QED BY <2>3 DEF A, B
<1>4. All(S \ T) = All(S) \ All(T)
  BY <1>1
<1> QED BY <1>3, <1>4 DEF BytesOf

\* Fewer entries have no more bytes.
LEMMA BytesGrow ==
    ASSUME NEW S, IsFiniteSet(S), S \subseteq Entries, NEW T \in SUBSET S
    PROVE  BytesOf(T) <= BytesOf(S)
<1>1. IsFiniteSet(S \ T) /\ IsFiniteSet(T)
  BY FS_Subset
<1>2. BytesOf(S \ T) \in Nat /\ BytesOf(T) \in Nat /\ BytesOf(S) \in Nat
  BY <1>1, BytesFinite
<1> QED BY <1>2, BytesOfRest

\* One more entry adds its size.
LEMMA BytesOfMore ==
    ASSUME NEW S, IsFiniteSet(S), S \subseteq Entries, NEW e \in Entries, e \notin S
    PROVE  BytesOf(S \cup {e}) = BytesOf(S) + Size[e.value]
<1> DEFINE U == S \cup {e}
<1>1. IsFiniteSet(U) /\ U \subseteq Entries /\ U \ {e} = S /\ {e} \in SUBSET U
  BY FS_AddElement
<1>2. BytesOf({e}) = Size[e.value]
  <2> DEFINE n == Size[e.value]
             One == {e}
             Ones == 1..n
  <2>1. n \in Nat /\ n > 0
    BY CacheAssumption DEF Entries
  <2>2. UNION {Bytes(x) : x \in {e}} = One \X Ones
    BY DEF Bytes
  <2>3. IsFiniteSet(One) /\ Cardinality(One) = 1
    BY FS_Singleton
  <2>4. IsFiniteSet(Ones) /\ Cardinality(Ones) = n
    <3> HIDE DEF n
    <3> QED BY <2>1, FS_Interval
  <2> HIDE DEF n, One, Ones
  <2>5. Cardinality(One \X Ones) = 1 * n
    BY <2>3, <2>4, FS_Product
  <2>6. Cardinality(One \X Ones) = n
    BY <2>1, <2>5
  <2> QED BY <2>2, <2>6 DEF BytesOf, n
<1>3. BytesOf(U \ {e}) = BytesOf(U) - BytesOf({e})
  BY <1>1, BytesOfRest
<1>4. BytesOf(U) \in Nat /\ Size[e.value] \in Nat
  BY <1>1, BytesFinite, CacheAssumption DEF Entries
<1> DEFINE b == BytesOf(U)
           d == BytesOf(S)
           n == Size[e.value]
<1>5. d = b - n /\ b \in Nat /\ n \in Nat
  BY <1>1, <1>2, <1>3, <1>4
<1>6. b = d + n
  <2> HIDE DEF b, d, n
  <2> QED BY <1>5
<1> QED BY <1>6

-----------------------------------------------------------------------------
(* Entries of a repository                                                 *)

LEMMA OfIsFinite ==
    ASSUME NEW S, IsFiniteSet(S), NEW r
    PROVE  /\ IsFiniteSet(Of(S, r)) /\ Cardinality(Of(S, r)) \in Nat
           /\ Cardinality(Of(S, r)) = 0 <=> Of(S, r) = {}
<1>1. Of(S, r) \in SUBSET S
  BY DEF Of
<1>2. IsFiniteSet(Of(S, r))
  BY <1>1, FS_Subset
<1> QED BY <1>2, FS_CardinalityType, FS_EmptySet

\* What remains of a repository when some entries are gone.
LEMMA OfRest ==
    ASSUME NEW S, IsFiniteSet(S), NEW T \in SUBSET S, NEW r
    PROVE  Cardinality(Of(S \ T, r)) = Cardinality(Of(S, r)) - Cardinality(Of(T, r))
<1> DEFINE A == Of(S, r)
           B == Of(T, r)
<1>1. IsFiniteSet(A) /\ A \cap B = B /\ Of(S \ T, r) = A \ B
  BY OfIsFinite DEF Of
<1> HIDE DEF A, B
<1>2. Cardinality(A \ B) = Cardinality(A) - Cardinality(A \cap B)
  BY <1>1, FS_Difference
<1>3. Cardinality(A \ B) = Cardinality(A) - Cardinality(B)
  BY <1>1, <1>2
<1> QED BY <1>1, <1>3 DEF A, B

\* remove gives the counters back what the entries took.
LEMMA WithoutCounts ==
    ASSUME NEW c, Counted(c), NEW gone \in SUBSET c.entries
    PROVE  /\ Counted(Without(c, gone))
           /\ Without(c, gone).entries = c.entries \ gone
<1> DEFINE d == Without(c, gone)
           left == [r \in DOMAIN c.count |-> c.count[r] - Cardinality(Of(gone, r))]
           rest == c.entries \ gone
<1>1. /\ IsFiniteSet(c.entries) /\ c.entries \subseteq Entries
      /\ c.bytes = BytesOf(c.entries)
      /\ DOMAIN c.count = {e.id.repo : e \in c.entries}
      /\ \A r \in DOMAIN c.count : c.count[r] = Cardinality(Of(c.entries, r))
  BY DEF Counted
<1>2. /\ d.entries = rest /\ d.bytes = c.bytes - BytesOf(gone)
      /\ d.count = [r \in {s \in DOMAIN left : left[s] > 0} |-> left[r]]
  BY DEF Without
<1>3. IsFiniteSet(rest) /\ rest \subseteq Entries
  BY <1>1, FS_Difference
<1>4. d.bytes = BytesOf(rest)
  BY <1>1, <1>2, BytesOfRest
<1>5. \A r \in DOMAIN c.count : left[r] = Cardinality(Of(rest, r))
  BY <1>1, OfRest
<1>6. ASSUME NEW r  PROVE (r \in DOMAIN c.count /\ left[r] > 0) <=> r \in {e.id.repo : e \in rest}
  <2>1. Cardinality(Of(rest, r)) \in Nat /\ (Cardinality(Of(rest, r)) = 0 <=> Of(rest, r) = {})
    BY <1>3, OfIsFinite
  <2>2. r \in {e.id.repo : e \in rest} <=> Of(rest, r) # {}
    BY DEF Of
  <2>3. r \in {e.id.repo : e \in rest} => r \in DOMAIN c.count
    BY <1>1
  <2>4. CASE r \in DOMAIN c.count
    <3>1. left[r] = Cardinality(Of(rest, r))
      BY <1>5, <2>4
    <3>2. left[r] > 0 <=> Cardinality(Of(rest, r)) # 0
      BY <2>1, <3>1
    <3> QED BY <2>1, <2>2, <2>4, <3>2
  <2> QED BY <2>3, <2>4
<1> HIDE DEF d, rest
<1>7. DOMAIN d.count = {e.id.repo : e \in rest}
  BY <1>2, <1>6
<1>8. \A r \in DOMAIN d.count : d.count[r] = Cardinality(Of(rest, r))
  BY <1>2, <1>5
<1> QED BY <1>2, <1>3, <1>4, <1>7, <1>8 DEF Counted, d, rest

\* So does the insertion with what the new entry takes.
LEMMA WithCounts ==
    ASSUME NEW c, Counted(c), NEW e \in Entries, e \notin c.entries
    PROVE  /\ Counted(With(c, e))
           /\ With(c, e).entries = c.entries \cup {e}
<1> DEFINE d == With(c, e)
           r == e.id.repo
           more == c.entries \cup {e}
<1>1. /\ IsFiniteSet(c.entries) /\ c.entries \subseteq Entries
      /\ c.bytes = BytesOf(c.entries)
      /\ DOMAIN c.count = {f.id.repo : f \in c.entries}
      /\ \A s \in DOMAIN c.count : c.count[s] = Cardinality(Of(c.entries, s))
  BY DEF Counted
<1>2. /\ d.entries = more /\ d.bytes = c.bytes + Size[e.value]
      /\ d.count = [s \in DOMAIN c.count \cup {r} |->
                       IF s # r THEN c.count[s]
                       ELSE IF r \in DOMAIN c.count THEN c.count[r] + 1 ELSE 1]
  BY DEF With
<1>3. IsFiniteSet(more) /\ more \subseteq Entries
  BY <1>1, FS_AddElement
<1>4. d.bytes = BytesOf(more)
  BY <1>1, <1>2, BytesOfMore
<1>5. DOMAIN d.count = {f.id.repo : f \in more}
  BY <1>1, <1>2
<1>6. ASSUME NEW s \in DOMAIN d.count  PROVE d.count[s] = Cardinality(Of(more, s))
  <2>1. CASE s # r
    <3>1. Of(more, s) = Of(c.entries, s)
      BY <2>1 DEF Of
    <3>2. s \in DOMAIN c.count /\ d.count[s] = c.count[s]
      BY <1>2, <2>1
    <3> QED BY <1>1, <3>1, <3>2
  <2>2. CASE s = r
    <3>1. Of(more, r) = Of(c.entries, r) \cup {e} /\ e \notin Of(c.entries, r)
      BY DEF Of
    <3>2. /\ IsFiniteSet(Of(c.entries, r)) /\ Cardinality(Of(c.entries, r)) \in Nat
          /\ Cardinality(Of(c.entries, r)) = 0 <=> Of(c.entries, r) = {}
      BY <1>1, OfIsFinite
    <3>3. Cardinality(Of(more, r)) = Cardinality(Of(c.entries, r)) + 1
      BY <3>1, <3>2, FS_AddElement
    <3>4. CASE r \in DOMAIN c.count
      BY <1>1, <1>2, <2>2, <3>3, <3>4
    <3>5. CASE r \notin DOMAIN c.count
      <4>1. Of(c.entries, r) = {}
        BY <1>1, <3>5 DEF Of
      <4>2. Cardinality(Of(more, r)) = 1
        BY <3>2, <3>3, <4>1
      <4>3. d.count[s] = 1
        BY <1>2, <2>2, <3>5
      <4> QED BY <2>2, <4>2, <4>3
    <3> QED BY <3>4, <3>5
  <2> QED BY <2>1, <2>2
<1> HIDE DEF d, more
<1> QED BY <1>2, <1>3, <1>4, <1>5, <1>6 DEF Counted, d, more

-----------------------------------------------------------------------------
(* What the limits take                                                    *)

\* Among finitely many entries one was used longest ago.
LEMMA OldestEntry ==
    ASSUME NEW S, IsFiniteSet(S), S # {}, \A x \in S : x.used \in Int
    PROVE  \E x \in S : \A y \in S : x.used <= y.used
<1> DEFINE Older(x) == {y \in S : y.used < x.used}
           T == {Older(x) : x \in S}
<1>1. T \subseteq FiniteSubsetsOf(S) /\ T # {}
  <2>1. \A x \in S : Older(x) \in SUBSET S
    OBVIOUS
  <2>2. \A U \in SUBSET S : IsFiniteSet(U)
    BY FS_Subset
  <2>3. \A x \in S : Older(x) \in FiniteSubsetsOf(S)
    BY <2>1, <2>2 DEF FiniteSubsetsOf
  <2> QED BY <2>3
<1>2. PICK B \in T : \A C \in T : <<C, B>> \notin StrictSubsetOrdering(S)
  <2> HIDE DEF T
  <2> QED BY <1>1, WFMin, FS_StrictSubsetOrderingWellFounded
<1>3. PICK x \in S : B = Older(x)
  OBVIOUS
<1>4. ASSUME NEW y \in S, y.used < x.used  PROVE FALSE
  <2>1. Older(y) \subseteq B /\ y \in B /\ y \notin Older(y)
    BY <1>3, <1>4
  <2>2. <<Older(y), B>> \in StrictSubsetOrdering(S)
    BY <2>1, <1>3 DEF StrictSubsetOrdering
  <2> QED BY <1>2, <2>2
<1> QED BY <1>4

\* A repository one above its limit loses one entry, the one used before its
\* others, and is at its limit then.
LEMMA RepositoryWithinLimit ==
    ASSUME NEW c, Counted(c), Told(c.entries), NEW r \in DOMAIN c.count,
           Cardinality(Of(c.entries, r)) <= MaxPerRepository + 1
    PROVE  /\ OverRepository(c, r) \in SUBSET Of(c.entries, r)
           /\ Cardinality(Of(c.entries \ OverRepository(c, r), r)) <= MaxPerRepository
           /\ \A e \in OverRepository(c, r), f \in Of(c.entries, r) :
                 f # e => e.used < f.used
           /\ \A e \in OverRepository(c, r) : \E f \in Of(c.entries, r) : f # e
<1> DEFINE S == Of(c.entries, r)
           n == Cardinality(S)
           gone == OverRepository(c, r)
<1>1. /\ IsFiniteSet(c.entries) /\ c.entries \subseteq Entries
      /\ c.count[r] = n
  BY DEF Counted
<1>2. IsFiniteSet(S) /\ n \in Nat /\ S \subseteq c.entries
  BY <1>1, OfIsFinite DEF Of
<1>3. MaxPerRepository \in Nat /\ MaxPerRepository >= 1
  BY CacheAssumption
<1>4. gone \in SUBSET S
  BY DEF OverRepository
<1>5. ASSUME NEW e \in gone, NEW f \in S, f # e  PROVE e.used < f.used
  <2>1. e \in S /\ e.used <= f.used
    BY <1>4, <1>5 DEF OverRepository
  <2>2. e.used # f.used
    BY <1>2, <1>5, <2>1 DEF Told
  <2>3. e.used \in Int /\ f.used \in Int
    BY <1>1, <1>2, <2>1 DEF Entries
  <2> QED BY <2>1, <2>2, <2>3
<1>6. CASE n <= MaxPerRepository
  <2>1. gone = {}
    BY <1>1, <1>2, <1>3, <1>6 DEF OverRepository
  <2>2. Of(c.entries \ gone, r) = S
    BY <2>1
  <2> QED BY <1>4, <1>5, <1>6, <2>1, <2>2
<1>7. CASE ~(n <= MaxPerRepository)
  <2>1. n = MaxPerRepository + 1
    BY <1>2, <1>3, <1>7
  <2>2. gone = {e \in S : \A f \in S : e.used <= f.used}
    BY <1>1, <1>2, <1>3, <1>7 DEF OverRepository
  <2>3. PICK e \in S : \A f \in S : e.used <= f.used
    <3>1. \A x \in S : x.used \in Int
      BY <1>1, <1>2 DEF Entries
    <3>2. S # {}
      BY <1>2, <1>3, <2>1, OfIsFinite, <1>1
    <3> HIDE DEF S
    <3> QED BY <1>2, <3>1, <3>2, OldestEntry
  <2>4. e \in gone
    BY <2>2, <2>3
  <2>5. Of(c.entries \ gone, r) \subseteq S \ {e}
    BY <2>4 DEF Of
  <2>6. IsFiniteSet(S \ {e}) /\ Cardinality(S \ {e}) = n - 1
    <3> HIDE DEF S
    <3> QED BY <1>2, <2>3, FS_RemoveElement
  <2>7. Cardinality(S \ {e}) = MaxPerRepository
    <3> HIDE DEF n
    <3> QED BY <1>2, <1>3, <2>1, <2>6
  <2>8. Cardinality(Of(c.entries \ gone, r)) <= Cardinality(S \ {e})
    <3> DEFINE A == Of(c.entries \ gone, r)
               B == S \ {e}
    <3>1. IsFiniteSet(B) /\ A \in SUBSET B
      BY <2>5, <2>6
    <3> HIDE DEF A, B
    <3>2. Cardinality(A) <= Cardinality(B)
      BY <3>1, FS_Subset
    <3> QED BY <3>2 DEF A, B
  <2>9. \A g \in gone : \E f \in S : f # g
    <3>1. SUFFICES ASSUME NEW g \in gone, \A f \in S : f = g  PROVE FALSE
      OBVIOUS
    <3>2. S = {g}
      BY <1>4, <3>1
    <3>3. Cardinality({g}) = 1
      BY FS_Singleton
    <3> QED BY <1>3, <2>1, <3>2, <3>3
  <2>10. Cardinality(Of(c.entries \ gone, r)) <= MaxPerRepository
    BY <2>7, <2>8
  <2> HIDE DEF S, gone
  <2> QED BY <1>4, <1>5, <2>9, <2>10 DEF S, gone
<1> QED BY <1>6, <1>7

\* Dropping from the old end stops within the budget, and what is dropped was
\* used before what is kept; a newest entry that fits stays.
LEMMA BudgetIsMet ==
    ASSUME NEW c, Counted(c), Told(c.entries)
    PROVE  /\ OverBudget(c) \in SUBSET c.entries
           /\ BytesOf(c.entries \ OverBudget(c)) <= MaxBytes
           /\ \A e \in OverBudget(c), f \in c.entries \ OverBudget(c) : e.used < f.used
           /\ \A e \in c.entries :
                 /\ Size[e.value] <= MaxBytes
                 /\ \A f \in c.entries : f # e => f.used < e.used
                 => e \notin OverBudget(c)
<1> DEFINE S == c.entries
           gone == OverBudget(c)
           Older(e) == {f \in S : f.used < e.used}
<1>1. /\ IsFiniteSet(S) /\ S \subseteq Entries
      /\ c.bytes = BytesOf(S) /\ BytesOf(S) \in Nat
  BY BytesFinite DEF Counted
<1>2. gone = {e \in S : BytesOf(S) - BytesOf(Older(e)) > MaxBytes} /\ gone \in SUBSET S
  BY <1>1 DEF OverBudget
<1>3. MaxBytes \in Nat
  BY CacheAssumption
<1>4. ASSUME NEW e \in S  PROVE e.used \in Int /\ Size[e.value] \in Nat
  BY <1>1, CacheAssumption DEF Entries
<1>5. ASSUME NEW T \in SUBSET S
      PROVE  /\ IsFiniteSet(T) /\ T \subseteq Entries /\ BytesOf(T) \in Nat
             /\ BytesOf(S \ T) = BytesOf(S) - BytesOf(T)
  <2>1. IsFiniteSet(T) /\ T \subseteq Entries
    BY <1>1, FS_Subset
  <2> QED BY <1>1, <2>1, BytesFinite, BytesOfRest
<1> HIDE DEF S, gone
<1>6. ASSUME NEW e \in gone, NEW f \in S \ gone  PROVE e.used < f.used
  <2>1. SUFFICES ASSUME ~(e.used < f.used) PROVE FALSE
    OBVIOUS
  <2>2. e \in S /\ f \in S /\ f.used <= e.used
    BY <1>2, <1>4, <2>1
  <2>3. Older(f) \in SUBSET Older(e) /\ Older(e) \in SUBSET S /\ Older(f) \in SUBSET S
    <3>1. ASSUME NEW g \in S, g.used < f.used PROVE g.used < e.used
      BY <1>4, <2>2, <3>1
    <3> QED BY <3>1
  <2>4. BytesOf(Older(f)) <= BytesOf(Older(e))
    BY <1>5, <2>3, BytesGrow
  <2>5. BytesOf(Older(f)) \in Nat /\ BytesOf(Older(e)) \in Nat
    BY <1>5, <2>3
  <2>6. /\ BytesOf(S) - BytesOf(Older(e)) > MaxBytes
        /\ ~(BytesOf(S) - BytesOf(Older(f)) > MaxBytes)
    BY <1>2, <1>6
  <2> HIDE DEF Older
  <2> QED BY <1>1, <1>3, <2>4, <2>5, <2>6
<1>7. BytesOf(S \ gone) <= MaxBytes
  <2> DEFINE T == S \ gone
  <2>1. T \in SUBSET S
    OBVIOUS
  <2>2. CASE T = {}
    <3>1. BytesOf(T) = 0
      <4>1. UNION {Bytes(x) : x \in T} = {}
        BY <2>2
      <4> QED BY <4>1, FS_EmptySet DEF BytesOf
    <3> QED BY <1>3, <3>1
  <2>3. CASE T # {}
    <3>1. PICK e \in T : \A f \in T : e.used <= f.used
      <4>1. IsFiniteSet(T) /\ \A x \in T : x.used \in Int
        BY <1>4, <1>5
      <4> HIDE DEF T
      <4> QED BY <2>3, <4>1, OldestEntry
    <3>2. Older(e) \in SUBSET S /\ T \in SUBSET (S \ Older(e))
      <4>1. ASSUME NEW f \in T, f.used < e.used  PROVE FALSE
        <5>1. e.used <= f.used /\ e.used \in Int /\ f.used \in Int
          BY <1>4, <3>1
        <5> QED BY <4>1, <5>1
      <4> QED BY <4>1
    <3>3. BytesOf(S \ Older(e)) = BytesOf(S) - BytesOf(Older(e)) /\ BytesOf(Older(e)) \in Nat
      BY <1>5, <3>2
    <3>4. ~(BytesOf(S) - BytesOf(Older(e)) > MaxBytes)
      BY <1>2
    <3>5. BytesOf(T) <= BytesOf(S \ Older(e)) /\ BytesOf(T) \in Nat
      <4>1. IsFiniteSet(S \ Older(e)) /\ S \ Older(e) \subseteq Entries
        BY <1>5
      <4> HIDE DEF T, Older
      <4> QED BY <1>5, <2>1, <3>2, <4>1, BytesGrow
    <3> HIDE DEF T, Older
    <3> QED BY <1>1, <1>3, <3>3, <3>4, <3>5 DEF T
  <2> QED BY <2>2, <2>3
<1>8. ASSUME NEW e \in S, Size[e.value] <= MaxBytes, \A f \in S : f # e => f.used < e.used
      PROVE  e \notin gone
  <2>1. Older(e) = S \ {e}
    BY <1>4, <1>8
  <2>2. {e} \in SUBSET S /\ S \ {e} \in SUBSET S /\ IsFiniteSet(S \ {e}) /\ (S \ {e}) \subseteq Entries
    BY <1>1, <1>5
  <2>3. (S \ {e}) \cup {e} = S /\ e \in Entries /\ e \notin S \ {e}
    BY <1>1
  <2>4. BytesOf(S) = BytesOf(S \ {e}) + Size[e.value]
    <3>1. BytesOf((S \ {e}) \cup {e}) = BytesOf(S \ {e}) + Size[e.value]
      BY <2>2, <2>3, BytesOfMore
    <3> QED BY <2>3, <3>1
  <2>5. BytesOf(S \ {e}) \in Nat /\ Size[e.value] \in Nat
    BY <1>4, <1>5, <2>2
  <2>6. BytesOf(S) - BytesOf(Older(e)) = Size[e.value]
    <3> DEFINE b == BytesOf(S)
               d == BytesOf(S \ {e})
               n == Size[e.value]
    <3>1. b = d + n /\ d \in Nat /\ n \in Nat
      BY <2>4, <2>5
    <3>2. b - d = n
      <4> HIDE DEF b, d, n
      <4> QED BY <3>1
    <3> QED BY <2>1, <3>2
  <2> QED BY <1>2, <1>3, <1>8, <2>5, <2>6
<1> QED BY <1>2, <1>6, <1>7, <1>8 DEF S, gone

-----------------------------------------------------------------------------
(* The inductive invariant                                                 *)

LEMMA InitHasInv == CacheInit => CacheInv
<1> SUFFICES ASSUME CacheInit PROVE CacheInv
  OBVIOUS
<1>1. /\ entries = {} /\ totalBytes = 0 /\ uses = 0
      /\ DOMAIN perRepository = {}
  BY DEF CacheInit
<1>2. IsFiniteSet(entries) /\ BytesOf(entries) = 0
  <2>1. UNION {Bytes(x) : x \in entries} = {}
    BY <1>1
  <2> QED BY <1>1, <2>1, FS_EmptySet DEF BytesOf
<1>3. \A r : Cardinality(Of(entries, r)) = 0
  <2>1. \A r : Of(entries, r) = {}
    BY <1>1 DEF Of
  <2> QED BY <2>1, FS_EmptySet
<1> QED BY <1>1, <1>2, <1>3, CacheAssumption
     DEF CacheInv, CacheTypeOK, CountersAgree, WithinLimits, OneEntryEach

\* The fields of the cache and a record of it.
LEMMA CacheIsCountedRecord ==
    ASSUME CacheInv
    PROVE  Counted(Cache) /\ Cache.entries = entries /\ Told(entries)
BY DEF CacheInv, CacheTypeOK, CountersAgree, OneEntryEach, Counted, Cache, Entries, Told

\* Old entries dropped, none added: what remains has the invariant.
LEMMA BecomeHasInv ==
    ASSUME NEW c, Counted(c), Told(c.entries), Become(c),
           uses' \in 0..MaxUses, \A e \in c.entries : e.used <= uses',
           BytesOf(c.entries) <= MaxBytes,
           \A r \in Repositories : Cardinality(Of(c.entries, r)) <= MaxPerRepository
    PROVE  CacheInv'
<1>1. entries' = c.entries /\ totalBytes' = c.bytes /\ perRepository' = c.count
  BY DEF Become
<1>2. /\ IsFiniteSet(c.entries) /\ c.entries \subseteq Entries
      /\ c.bytes = BytesOf(c.entries)
      /\ DOMAIN c.count = {e.id.repo : e \in c.entries}
      /\ \A r \in DOMAIN c.count : c.count[r] = Cardinality(Of(c.entries, r))
  BY DEF Counted
<1>3. CacheTypeOK'
  <2>1. c.bytes \in Nat
    BY <1>2, BytesFinite
  <2>2. DOMAIN c.count \subseteq Repositories
    BY <1>2 DEF Entries, Ids
  <2>3. \A r \in DOMAIN c.count : c.count[r] \in Nat
    BY <1>2, OfIsFinite
  <2> QED BY <1>1, <1>2, <2>1, <2>2, <2>3 DEF CacheTypeOK, Entries
<1>4. CountersAgree'
  BY <1>1, <1>2 DEF CountersAgree
<1>5. WithinLimits'
  BY <1>1, <1>2 DEF WithinLimits
<1>6. OneEntryEach'
  BY <1>1 DEF OneEntryEach, Told
<1> QED BY <1>1, <1>2, <1>3, <1>4, <1>5, <1>6 DEF CacheInv

\* Whatever set evicts, it evicts the entries used first, never the new one.
LEMMA SetEvicts ==
    ASSUME CacheInv, NEW id \in Ids, NEW value \in Values, Set(id, value)
    PROVE  /\ CacheInv'
           /\ entries' \subseteq (entries \ Same(id)) \cup
                                  {[id |-> id, value |-> value, used |-> uses + 1]}
           /\ [id |-> id, value |-> value, used |-> uses + 1] \in entries'
           /\ \A e \in entries \ Same(id), f \in entries :
                 e \notin entries' /\ f \in entries' /\ e.id.repo = f.id.repo => e.used < f.used
<1> DEFINE new  == [id |-> id, value |-> value, used |-> uses + 1]
           base == Without(Cache, Same(id))
           put  == With(base, new)
           r    == id.repo
           lost == OverRepository(put, r)
           kept == Without(put, lost)
           gone == OverBudget(kept)
           final == Without(kept, gone)
<1>1. /\ Size[value] <= MaxBytes /\ uses < MaxUses /\ uses' = uses + 1
      /\ Become(final)
  BY DEF Set
<1>2. /\ uses \in Nat /\ MaxUses \in Nat /\ IsFiniteSet(entries) /\ Told(entries)
      /\ entries \subseteq Entries /\ \A e \in entries : e.used <= uses
      /\ \A s \in Repositories : Cardinality(Of(entries, s)) <= MaxPerRepository
  BY CacheAssumption, CacheIsCountedRecord DEF CacheInv, CacheTypeOK, Entries, WithinLimits
<1>3. new \in Entries /\ new.id = id /\ new.value = value /\ new.used = uses + 1
  BY <1>1, <1>2 DEF Entries
<1>4. Counted(base) /\ base.entries = entries \ Same(id)
  BY CacheIsCountedRecord, WithoutCounts DEF Same
<1>5. \A e \in base.entries : e.id # id /\ e.used < new.used /\ e.used \in Int
  BY <1>2, <1>3, <1>4 DEF Same, Entries
<1>6. new \notin base.entries
  BY <1>3, <1>5
<1> HIDE DEF new, base
<1>7. Counted(put) /\ put.entries = base.entries \cup {new}
  BY <1>3, <1>4, <1>6, WithCounts
<1>8. Told(put.entries)
  <2>1. Told(base.entries)
    BY <1>2, <1>4 DEF Told
  <2> QED BY <1>3, <1>5, <1>7, <2>1 DEF Told
<1>9. r \in DOMAIN put.count
  BY <1>3, <1>7 DEF Counted
<1>10. /\ Cardinality(Of(put.entries, r)) <= MaxPerRepository + 1
       /\ \A s \in Repositories : s # r => Cardinality(Of(put.entries, s)) <= MaxPerRepository
  <2>1. ASSUME NEW s \in Repositories
        PROVE  /\ IsFiniteSet(Of(base.entries, s)) /\ Cardinality(Of(base.entries, s)) \in Nat
               /\ Cardinality(Of(base.entries, s)) <= MaxPerRepository
    <3> DEFINE A == Of(base.entries, s)
               B == Of(entries, s)
    <3>1. IsFiniteSet(B) /\ A \in SUBSET B /\ Cardinality(B) <= MaxPerRepository
      BY <1>2, <1>4, OfIsFinite DEF Of
    <3> HIDE DEF A, B
    <3>2. IsFiniteSet(A) /\ Cardinality(A) <= Cardinality(B)
      BY <3>1, FS_Subset
    <3>3. Cardinality(A) \in Nat /\ Cardinality(B) \in Nat
      BY <3>1, <3>2, FS_CardinalityType
    <3>4. Cardinality(A) <= MaxPerRepository
      BY <3>1, <3>2, <3>3, CacheAssumption
    <3> QED BY <3>2, <3>3, <3>4 DEF A
  <2>2. r \in Repositories
    BY DEF Ids
  <2>3. /\ Of(put.entries, r) = Of(base.entries, r) \cup {new}
        /\ \A s \in Repositories : s # r => Of(put.entries, s) = Of(base.entries, s)
    BY <1>3, <1>7 DEF Of
  <2>4. Cardinality(Of(base.entries, r) \cup {new}) = Cardinality(Of(base.entries, r)) + 1
    <3>1. new \notin Of(base.entries, r)
      BY <1>6 DEF Of
    <3> QED BY <2>1, <2>2, <3>1, FS_AddElement
  <2>5. Cardinality(Of(put.entries, r)) <= MaxPerRepository + 1
    BY <2>1, <2>2, <2>3, <2>4, CacheAssumption
  <2> QED BY <2>1, <2>3, <2>5
<1> HIDE DEF put
<1>11. /\ lost \in SUBSET Of(put.entries, r)
       /\ Cardinality(Of(put.entries \ lost, r)) <= MaxPerRepository
       /\ \A e \in lost, f \in Of(put.entries, r) : f # e => e.used < f.used
       /\ \A e \in lost : \E f \in Of(put.entries, r) : f # e
  <2>1. Cardinality(Of(put.entries, r)) <= MaxPerRepository + 1
    BY <1>10
  <2> HIDE DEF r
  <2>2. Counted(put) /\ Told(put.entries)
    BY <1>7, <1>8
  <2>3. r \in DOMAIN put.count
    BY <1>9
  <2> QED BY <2>1, <2>2, <2>3, RepositoryWithinLimit
<1>12. new \notin lost
  <2>1. SUFFICES ASSUME new \in lost  PROVE FALSE
    OBVIOUS
  <2>2. PICK f \in Of(put.entries, r) : f # new
    BY <1>11, <2>1
  <2>3. new.used < f.used
    BY <1>11, <2>1, <2>2
  <2>4. f \in base.entries
    BY <1>7, <2>2 DEF Of
  <2> QED BY <1>2, <1>3, <1>5, <2>3, <2>4
<1> HIDE DEF lost
<1>13. Counted(kept) /\ kept.entries = put.entries \ lost
  BY <1>7, <1>11, WithoutCounts DEF Of
<1>14. Told(kept.entries)
  BY <1>8, <1>13 DEF Told
<1> HIDE DEF kept
<1>15. /\ gone \in SUBSET kept.entries
       /\ BytesOf(kept.entries \ gone) <= MaxBytes
       /\ \A e \in gone, f \in kept.entries \ gone : e.used < f.used
       /\ \A e \in kept.entries :
             /\ Size[e.value] <= MaxBytes
             /\ \A f \in kept.entries : f # e => f.used < e.used
             => e \notin gone
  BY <1>13, <1>14, BudgetIsMet
<1>16. new \in kept.entries /\ new \notin gone
  <2>1. new \in kept.entries
    BY <1>7, <1>12, <1>13
  <2>2. \A f \in kept.entries : f # new => f.used < new.used
    BY <1>5, <1>7, <1>13
  <2> QED BY <1>1, <1>3, <1>15, <2>1, <2>2
<1> HIDE DEF gone
<1>17. Counted(final) /\ final.entries = kept.entries \ gone
  BY <1>13, <1>15, WithoutCounts
<1> HIDE DEF final
<1>18. CacheInv'
  <2>1. Told(final.entries)
    BY <1>14, <1>17 DEF Told
  <2>2. uses' \in 0..MaxUses /\ \A e \in final.entries : e.used <= uses'
    BY <1>1, <1>2, <1>3, <1>5, <1>7, <1>13, <1>17
  <2>3. BytesOf(final.entries) <= MaxBytes
    BY <1>15, <1>17
  <2>4. ASSUME NEW s \in Repositories  PROVE Cardinality(Of(final.entries, s)) <= MaxPerRepository
    <3> DEFINE A == Of(final.entries, s)
               B == Of(put.entries \ lost, s)
    <3>1. IsFiniteSet(B) /\ A \in SUBSET B
      <4>1. IsFiniteSet(kept.entries)
        BY <1>13 DEF Counted
      <4> QED BY <1>13, <1>17, <4>1, OfIsFinite DEF Of
    <3>2. Cardinality(B) <= MaxPerRepository
      <4>1. CASE s = r
        BY <1>11, <4>1
      <4>2. CASE s # r
        <5>1. B = Of(put.entries, s)
          BY <1>11, <4>2 DEF Of
        <5> HIDE DEF B
        <5> QED BY <1>10, <4>2, <5>1
      <4> QED BY <4>1, <4>2
    <3> HIDE DEF A, B
    <3>3. IsFiniteSet(A) /\ Cardinality(A) <= Cardinality(B)
      BY <3>1, FS_Subset
    <3>4. Cardinality(A) \in Nat /\ Cardinality(B) \in Nat
      BY <3>1, <3>3, FS_CardinalityType
    <3>5. Cardinality(A) <= MaxPerRepository
      BY <3>2, <3>3, <3>4, CacheAssumption
    <3> QED BY <3>5 DEF A
  <2> QED BY <1>1, <1>17, <2>1, <2>2, <2>3, <2>4, BecomeHasInv
<1>19. entries' = ((base.entries \cup {new}) \ lost) \ gone
  BY <1>1, <1>7, <1>13, <1>17 DEF Become
<1>20. ASSUME NEW e \in entries \ Same(id), NEW f \in entries,
              e \notin entries', f \in entries', e.id.repo = f.id.repo
       PROVE  e.used < f.used
  <2>1. f # e /\ e \in put.entries /\ f \in put.entries /\ f \notin lost /\ f \notin gone
    BY <1>4, <1>7, <1>19, <1>20
  <2>2. CASE e \in lost
    <3>1. f \in Of(put.entries, r)
      BY <1>11, <1>20, <2>1, <2>2 DEF Of
    <3> QED BY <1>11, <2>1, <2>2, <3>1
  <2>3. CASE e \notin lost
    BY <1>4, <1>7, <1>13, <1>15, <1>19, <1>20, <2>1, <2>3
  <2> QED BY <2>2, <2>3
<1> QED BY <1>4, <1>12, <1>16, <1>18, <1>19, <1>20, <1>7, <1>13 DEF new

\* Every step of the cache keeps the invariant.
LEMMA StepKeepsInv == CacheInv /\ [CacheNext]_cacheVars => CacheInv'
<1> SUFFICES ASSUME CacheInv, [CacheNext]_cacheVars PROVE CacheInv'
  OBVIOUS
<1>1. ASSUME NEW id \in Ids, Get(id)  PROVE CacheInv'
  <2> DEFINE old(e) == e.id = id
             used(e) == [e EXCEPT !.used = uses + 1]
  <2>1. PICK e \in entries : e.id = id
    BY <1>1 DEF Get, Same
  <2>2. /\ uses \in Nat /\ MaxUses \in Nat /\ uses < MaxUses /\ uses' = uses + 1
        /\ IsFiniteSet(entries) /\ entries \subseteq Entries /\ Told(entries)
        /\ \A f \in entries : f.used <= uses
    BY <1>1, CacheAssumption, CacheIsCountedRecord DEF Get, CacheInv, CacheTypeOK, Entries
  <2> DEFINE base == Without(Cache, {e})
             new == used(e)
             put == With(base, new)
  <2>3. Same(id) = {e}
    BY <2>1, <2>2 DEF Same, Told
  <2>4. Counted(base) /\ base.entries = entries \ {e}
    BY <2>1, CacheIsCountedRecord, WithoutCounts
  <2>5. /\ new \in Entries /\ new.id = id /\ new.value = e.value /\ new.used = uses + 1
    BY <2>1, <2>2 DEF Entries
  <2>6. ASSUME NEW f \in base.entries  PROVE f.id # id /\ f.used # new.used /\ f # new
    <3>1. f \in entries /\ f # e
      BY <2>4
    <3>2. f.id # id
      BY <2>1, <2>2, <3>1 DEF Told
    <3>3. f.used \in Int /\ f.used <= uses
      BY <2>2, <3>1 DEF Entries
    <3> HIDE DEF new
    <3> QED BY <2>2, <2>5, <3>2, <3>3
  <2> HIDE DEF new, base
  <2>7. Counted(put) /\ put.entries = base.entries \cup {new}
    BY <2>4, <2>5, <2>6, WithCounts
  <2>8. Told(put.entries)
    BY <2>2, <2>4, <2>5, <2>6, <2>7 DEF Told
  <2>9. entries' = put.entries
    <3>1. entries' = (entries \ Same(id)) \cup {used(f) : f \in Same(id)}
      BY <1>1 DEF Get
    <3> QED BY <2>3, <2>4, <2>7, <3>1 DEF new
  <2>10. ASSUME NEW r  PROVE Cardinality(Of(put.entries, r)) = Cardinality(Of(entries, r))
    <3>1. CASE r # id.repo
      <4>1. Of(put.entries, r) = Of(entries, r)
        BY <2>1, <2>4, <2>5, <2>7, <3>1 DEF Of
      <4> QED BY <4>1
    <3>2. CASE r = id.repo
      <4> DEFINE A == Of(entries, r)
                 B == Of(base.entries, r)
      <4>1. B = A \ {e} /\ e \in A /\ new \notin B /\ Of(put.entries, r) = B \cup {new}
        BY <2>1, <2>4, <2>5, <2>6, <2>7, <3>2 DEF Of
      <4>2. IsFiniteSet(A) /\ Cardinality(A) \in Nat
        BY <2>2, OfIsFinite
      <4> HIDE DEF A, B
      <4>3. IsFiniteSet(B) /\ Cardinality(B) = Cardinality(A) - 1
        BY <4>1, <4>2, FS_RemoveElement
      <4>4. Cardinality(B \cup {new}) = Cardinality(B) + 1
        BY <4>1, <4>3, FS_AddElement
      <4>5. Cardinality(B \cup {new}) = Cardinality(A)
        BY <4>2, <4>3, <4>4
      <4> QED BY <4>1, <4>5 DEF A
    <3> QED BY <3>1, <3>2
  <2>11. BytesOf(put.entries) = BytesOf(entries)
    <3> DEFINE b == BytesOf(entries)
               d == BytesOf(base.entries)
               n == Size[e.value]
    <3>1. b = d + n
      <4>1. base.entries \cup {e} = entries /\ e \in Entries /\ e \notin base.entries
        BY <2>1, <2>2, <2>4
      <4>2. IsFiniteSet(base.entries) /\ base.entries \subseteq Entries
        BY <2>4 DEF Counted
      <4>3. BytesOf(base.entries \cup {e}) = d + n
        BY <4>1, <4>2, BytesOfMore
      <4> QED BY <4>1, <4>3
    <3>2. BytesOf(base.entries \cup {new}) = d + n
      <4>1. IsFiniteSet(base.entries) /\ base.entries \subseteq Entries /\ new \notin base.entries
        BY <2>4, <2>6 DEF Counted
      <4> QED BY <2>5, <4>1, BytesOfMore
    <3> QED BY <2>7, <3>1, <3>2
  <2>12. totalBytes' = totalBytes /\ perRepository' = perRepository
    BY <1>1 DEF Get
  <2> HIDE DEF put
  <2>13. CacheTypeOK'
    BY <1>1, <2>2, <2>7, <2>9, <2>12 DEF CacheInv, CacheTypeOK, Counted, Entries
  <2>14. CountersAgree'
    <3>1. {f.id.repo : f \in put.entries} = {f.id.repo : f \in entries}
      BY <2>1, <2>4, <2>5, <2>7
    <3> QED BY <2>9, <2>10, <2>11, <2>12, <3>1 DEF CacheInv, CountersAgree
  <2>15. WithinLimits'
    BY <2>9, <2>10, <2>12 DEF CacheInv, WithinLimits
  <2>16. OneEntryEach' /\ IsFiniteSet(entries')
    BY <2>7, <2>8, <2>9 DEF OneEntryEach, Told, Counted
  <2>17. \A f \in entries' : f.used <= uses'
    BY <2>2, <2>4, <2>5, <2>7, <2>9 DEF Entries
  <2> QED BY <2>13, <2>14, <2>15, <2>16, <2>17 DEF CacheInv
<1>2. ASSUME NEW id \in Ids, NEW v \in Values, Set(id, v)  PROVE CacheInv'
  BY <1>2, SetEvicts
<1>3. ASSUME NEW id \in Ids, NEW v \in Values, SetTooLarge(id, v)  PROVE CacheInv'
  <2> DEFINE rest == Without(Cache, Same(id))
  <2>1. Counted(rest) /\ rest.entries = entries \ Same(id)
    BY CacheIsCountedRecord, WithoutCounts DEF Same
  <2>2. /\ IsFiniteSet(entries) /\ entries \subseteq Entries /\ Told(entries)
        /\ \A e \in entries : e.used <= uses
        /\ uses \in 0..MaxUses /\ uses' = uses /\ Become(rest)
        /\ totalBytes = BytesOf(entries) /\ totalBytes <= MaxBytes
        /\ \A s \in Repositories : Cardinality(Of(entries, s)) <= MaxPerRepository
    BY <1>3, CacheIsCountedRecord
       DEF SetTooLarge, CacheInv, CacheTypeOK, Entries, CountersAgree, WithinLimits
  <2> HIDE DEF rest
  <2>3. Told(rest.entries)
    BY <2>1, <2>2 DEF Told
  <2>4. BytesOf(rest.entries) <= MaxBytes
    <3>1. rest.entries \in SUBSET entries
      BY <2>1
    <3>2. BytesOf(rest.entries) <= BytesOf(entries)
      BY <2>2, <3>1, BytesGrow
    <3>3. BytesOf(rest.entries) \in Nat /\ BytesOf(entries) \in Nat
      BY <2>1, <2>2, BytesFinite DEF Counted
    <3> QED BY <2>2, <3>2, <3>3, CacheAssumption
  <2>5. ASSUME NEW s \in Repositories  PROVE Cardinality(Of(rest.entries, s)) <= MaxPerRepository
    <3> DEFINE A == Of(rest.entries, s)
               B == Of(entries, s)
    <3>1. IsFiniteSet(B) /\ A \in SUBSET B /\ Cardinality(B) <= MaxPerRepository
      BY <2>1, <2>2, OfIsFinite DEF Of
    <3> HIDE DEF A, B
    <3>2. IsFiniteSet(A) /\ Cardinality(A) <= Cardinality(B)
      BY <3>1, FS_Subset
    <3>3. Cardinality(A) \in Nat /\ Cardinality(B) \in Nat
      BY <3>1, <3>2, FS_CardinalityType
    <3>4. Cardinality(A) <= MaxPerRepository
      BY <3>1, <3>2, <3>3, CacheAssumption
    <3> QED BY <3>4 DEF A
  <2> QED BY <2>1, <2>2, <2>3, <2>4, <2>5, BecomeHasInv
<1>4. CASE UNCHANGED cacheVars
  BY <1>4 DEF cacheVars, CacheInv, CacheTypeOK, CountersAgree, WithinLimits, OneEntryEach
<1> QED BY <1>1, <1>2, <1>3, <1>4 DEF CacheNext

\* The invariant holds in every reachable state.
THEOREM CacheInvariance == CacheSpec => []CacheInv
BY InitHasInv, StepKeepsInv, PTL DEF CacheSpec

-----------------------------------------------------------------------------
(* The theorems                                                            *)

\* The state of the cache has its types.
THEOREM CacheTyping == CacheSpec => []CacheTypeOK
<1>1. CacheInv => CacheTypeOK
  BY DEF CacheInv
<1> QED BY <1>1, CacheInvariance, PTL

\* The counters are those of the entries and both limits hold, always.
THEOREM CountersNeverDrift == CacheSpec => []CacheIsCounted
<1>1. CacheInv => CacheIsCounted
  BY DEF CacheInv, CacheIsCounted
<1> QED BY <1>1, CacheInvariance, PTL

\* What a repository loses to a limit was used before everything it keeps.
THEOREM OldestIsLost == CacheSpec => LosesLeastRecentlyUsed
<1> DEFINE Loss == \A e, f \in entries :
                      /\ e.id.repo = f.id.repo
                      /\ e.id \notin {g.id : g \in entries'}
                      /\ f \in entries'
                      /\ \E g \in entries' : g.used > uses
                      => e.used < f.used
<1>1. CacheInv /\ [CacheNext]_cacheVars => [Loss]_cacheVars
  <2> SUFFICES ASSUME CacheInv, CacheNext,
                      NEW e \in entries, NEW f \in entries,
                      e.id.repo = f.id.repo,
                      e.id \notin {g.id : g \in entries'},
                      f \in entries',
                      NEW h \in entries', h.used > uses
               PROVE  e.used < f.used
    OBVIOUS
  <2>1. ASSUME NEW id \in Ids, Get(id)  PROVE FALSE
    <3>1. entries' = (entries \ Same(id)) \cup {[g EXCEPT !.used = uses + 1] : g \in Same(id)}
      BY <2>1 DEF Get
    <3>2. entries \subseteq Entries
      BY DEF CacheInv, CacheTypeOK, Entries
    <3>3. CASE e \in Same(id)
      <4>1. [e EXCEPT !.used = uses + 1] \in entries'
        BY <3>1, <3>3
      <4>2. [e EXCEPT !.used = uses + 1].id = e.id
        BY <3>2 DEF Entries
      <4> QED BY <4>1, <4>2
    <3>4. CASE e \notin Same(id)
      BY <3>1, <3>4
    <3> QED BY <3>3, <3>4
  <2>2. ASSUME NEW id \in Ids, NEW v \in Values, Set(id, v)  PROVE e.used < f.used
    <3>1. e \notin Same(id)
      <4>1. [id |-> id, value |-> v, used |-> uses + 1] \in entries'
        BY <2>2, SetEvicts
      <4> QED BY <4>1 DEF Same
    <3>2. e \notin entries'
      OBVIOUS
    <3> QED BY <2>2, <3>1, <3>2, SetEvicts
  <2>3. ASSUME NEW id \in Ids, NEW v \in Values, SetTooLarge(id, v)  PROVE FALSE
    <3>1. entries' \subseteq entries
      BY <2>3, CacheIsCountedRecord, WithoutCounts DEF SetTooLarge, Become, Same
    <3>2. h.used <= uses /\ h.used \in Int /\ uses \in Int
      BY <3>1 DEF CacheInv, CacheTypeOK
    <3> QED BY <3>2
  <2> QED BY <2>1, <2>2, <2>3 DEF CacheNext
<1> QED BY <1>1, CacheInvariance, PTL DEF CacheSpec, LosesLeastRecentlyUsed

\* The cache implements the abstract cache: set is Put of its id, which keeps
\* some of the others; a hit changes nothing a user sees.
THEOREM CacheImplementsForgetful == CacheSpec => Forgetful
<1> DEFINE Stored(S) == {[name |-> e.id, value |-> e.value] : e \in S}
<1>1. CacheInit => Abstract!Init
  BY DEF CacheInit, Abstract!Init
<1>2. CacheInv /\ [CacheNext]_cacheVars => [Abstract!Next]_(Stored(entries))
  <2> SUFFICES ASSUME CacheInv, [CacheNext]_cacheVars
               PROVE  Abstract!Next \/ Stored(entries') = Stored(entries)
    OBVIOUS
  <2>0. entries \subseteq Entries
    BY DEF CacheInv, CacheTypeOK, Entries
  <2>1. ASSUME NEW id \in Ids, Get(id)  PROVE Stored(entries') = Stored(entries)
    <3> DEFINE used(e) == [e EXCEPT !.used = uses + 1]
    <3>1. entries' = (entries \ Same(id)) \cup {used(e) : e \in Same(id)}
      BY <2>1 DEF Get
    <3>2. \A e \in entries : used(e).id = e.id /\ used(e).value = e.value
      BY <2>0 DEF Entries
    <3> HIDE DEF used
    <3>3. Same(id) \subseteq entries
      BY DEF Same
    <3>4. ASSUME NEW e \in entries  PROVE [name |-> e.id, value |-> e.value] \in Stored(entries')
      <4>1. CASE e \in Same(id)
        <5>1. used(e) \in entries'
          BY <3>1, <4>1
        <5>2. [name |-> used(e).id, value |-> used(e).value] \in Stored(entries')
          BY <5>1
        <5> QED BY <3>2, <5>2
      <4>2. CASE e \notin Same(id)
        BY <3>1, <4>2
      <4> QED BY <4>1, <4>2
    <3>5. ASSUME NEW e \in entries'  PROVE [name |-> e.id, value |-> e.value] \in Stored(entries)
      <4>1. CASE e \in entries
        BY <4>1
      <4>2. CASE e \notin entries
        <5>1. PICK f \in Same(id) : e = used(f)
          BY <3>1, <4>2
        <5>2. f \in entries /\ e.id = f.id /\ e.value = f.value
          BY <3>2, <3>3, <5>1
        <5> QED BY <5>2
      <4> QED BY <4>1, <4>2
    <3> QED BY <3>4, <3>5
  <2>2. ASSUME NEW id \in Ids, NEW v \in Values, Set(id, v)  PROVE Abstract!Put(id, v)
    <3> DEFINE new == [id |-> id, value |-> v, used |-> uses + 1]
               others == {s \in Stored(entries) : s.name # id}
               kept == Stored(entries' \ {new})
    <3>1. new \in entries' /\ entries' \subseteq (entries \ Same(id)) \cup {new}
      BY <2>2, SetEvicts
    <3>2. kept \in SUBSET others
      <4>1. \A e \in entries' \ {new} : e \in entries /\ e.id # id
        BY <3>1 DEF Same
      <4> HIDE DEF new
      <4> QED BY <4>1
    <3>3. Stored(entries') = kept \cup {[name |-> id, value |-> v]}
      <4>1. new.id = id /\ new.value = v
        OBVIOUS
      <4> HIDE DEF new
      <4> QED BY <3>1, <4>1
    <3>4. Fits(v)
      BY <2>2 DEF Set, Fits
    <3> HIDE DEF kept
    <3> QED BY <3>2, <3>3, <3>4 DEF Abstract!Put, Abstract!Others
  <2>3. ASSUME NEW id \in Ids, NEW v \in Values, SetTooLarge(id, v)  PROVE Abstract!Put(id, v)
    <3>1. entries' = entries \ Same(id) /\ ~Fits(v)
      <4>1. Size[v] \in Nat /\ MaxBytes \in Nat
        BY CacheAssumption
      <4> QED BY <2>3, <4>1, CacheIsCountedRecord, WithoutCounts
           DEF SetTooLarge, Become, Same, Fits
    <3>2. Stored(entries \ Same(id)) = {s \in Stored(entries) : s.name # id}
      BY DEF Same
    <3> QED BY <3>1, <3>2 DEF Abstract!Put, Abstract!Others
  <2>4. CASE UNCHANGED cacheVars
    BY <2>4 DEF cacheVars
  <2> QED BY <2>1, <2>2, <2>3, <2>4 DEF CacheNext, Abstract!Next
<1> QED BY <1>1, <1>2, CacheInvariance, PTL DEF CacheSpec, Forgetful, Abstract!Spec

\* Both promises of the cache at once.
THEOREM CacheKeepsItsPromises == CacheSpec => CacheOnlyForgets
BY OldestIsLost, CacheImplementsForgetful DEF CacheOnlyForgets

-----------------------------------------------------------------------------
(* The collector: a frame in chunks                                        *)

\* A string of bytes is a sequence of them, and one of any length within the
\* bound is in the set.
LEMMA ByteStringsAreSequences ==
    ASSUME NEW n \in Int
    PROVE  /\ \A s \in ByteStrings(n) : s \in Seq(0..Base - 1) /\ Len(s) <= n
           /\ \A s \in Seq(0..Base - 1) : Len(s) <= n => s \in ByteStrings(n)
<1>1. ASSUME NEW s \in ByteStrings(n)  PROVE s \in Seq(0..Base - 1) /\ Len(s) <= n
  <2>1. PICK k \in 0..n : s \in [1..k -> 0..Base - 1]
    BY <1>1 DEF ByteStrings
  <2>2. k \in Nat /\ k <= n
    BY <2>1
  <2>3. s \in Seq(0..Base - 1)
    <3> DEFINE Byte == 0..Base - 1
    <3>1. s \in [1..k -> Byte]
      BY <2>1
    <3> HIDE DEF Byte
    <3>2. s \in Seq(Byte)
      BY <2>2, <3>1, SeqDef
    <3> QED BY <3>2 DEF Byte
  <2>4. Len(s) = k
    BY <2>1, <2>2, <2>3, LenProperties
  <2> QED BY <2>2, <2>3, <2>4
<1>2. ASSUME NEW s \in Seq(0..Base - 1), Len(s) <= n  PROVE s \in ByteStrings(n)
  <2> DEFINE Byte == 0..Base - 1
  <2>1. s \in Seq(Byte)
    BY <1>2
  <2>2. s \in [1..Len(s) -> Byte] /\ Len(s) \in Nat
    <3> HIDE DEF Byte
    <3> QED BY <2>1, LenProperties
  <2>3. Len(s) \in 0..n
    BY <1>2, <2>2
  <2>4. [1..Len(s) -> Byte] \in {[1..k -> Byte] : k \in 0..n}
    BY <2>3
  <2>5. s \in UNION {[1..k -> Byte] : k \in 0..n}
    <3> HIDE DEF Byte
    <3> QED BY <2>2, <2>4
  <2> QED BY <2>5 DEF ByteStrings
<1> QED BY <1>1, <1>2

\* What follows a header does not change the length in it.
LEMMA HeaderStays ==
    ASSUME NEW s \in Seq(0..Base - 1), NEW t \in Seq(0..Base - 1), Len(s) >= HeaderBytes
    PROVE  SubSeq(s \o t, 1, HeaderBytes) = SubSeq(s, 1, HeaderBytes)
<1>1. HeaderBytes \in 1..Len(s)
  BY CollectorAssumption, LenProperties
<1> QED BY <1>1, SubSeqOfConcat1

\* The lengths of what a chunk is cut into.
LEMMA ChunkIsCut ==
    ASSUME NEW S, NEW s \in Seq(S), NEW chunk \in Seq(S), NEW take \in 0..Len(chunk)
    PROVE  /\ s \o SubSeq(chunk, 1, take) \in Seq(S) /\ SubSeq(chunk, take + 1, Len(chunk)) \in Seq(S)
           /\ Len(s \o SubSeq(chunk, 1, take)) = Len(s) + take
           /\ Len(SubSeq(chunk, take + 1, Len(chunk))) = Len(chunk) - take
<1> DEFINE head == SubSeq(chunk, 1, take)
           rest == SubSeq(chunk, take + 1, Len(chunk))
<1>1. Len(chunk) \in Nat /\ take \in Nat /\ take <= Len(chunk)
  BY LenProperties
<1>2. head \in Seq(S) /\ Len(head) = take
  <2>1. 1 \in 1..Len(chunk) + 1 /\ take \in 0..Len(chunk)
    BY <1>1
  <2> QED BY <1>1, <2>1, SubSeqProperties
<1>3. rest \in Seq(S) /\ Len(rest) = Len(chunk) - take
  <2>1. take + 1 \in 1..Len(chunk) + 1 /\ Len(chunk) \in take..Len(chunk)
    BY <1>1
  <2>2. rest \in Seq(S) /\ Len(rest) = IF take + 1 <= Len(chunk) THEN Len(chunk) - (take + 1) + 1 ELSE 0
    BY <1>1, <2>1, SubSeqProperties
  <2> QED BY <1>1, <2>2
<1> HIDE DEF head, rest
<1>5. s \o head \in Seq(S) /\ Len(s \o head) = Len(s) + take
  BY <1>2, ConcatProperties
<1> QED BY <1>2, <1>3, <1>5 DEF head, rest

\* One chunk keeps the invariant, wherever it cuts the header.
LEMMA ReceiveKeepsInv ==
    ASSUME NEW n \in Int, NEW chunk \in ByteStrings(n), CollectorInv, Receive(chunk)
    PROVE  CollectorInv'
<1> DEFINE take == ForHeader(chunk)
           headed == frame \o SubSeq(chunk, 1, take)
           rest == SubSeq(chunk, take + 1, Len(chunk))
           length == IF take = 0 THEN expected ELSE LengthIn(headed)
           declared == LengthIn(SubSeq(sent', 1, HeaderBytes))
<1>1. /\ collection = "collecting" /\ frame = sent /\ sent' = sent \o chunk
      /\ frame \in Seq(0..Base - 1) /\ chunk \in Seq(0..Base - 1)
      /\ expected \in 0..MaxFrameBytes /\ HeaderBytes \in Nat \ {0} /\ MaxFrameBytes \in Nat
  BY ByteStringsAreSequences, CollectorAssumption DEF CollectorInv, Receive
<1>2. Len(frame) \in Nat /\ Len(chunk) \in Nat
  BY <1>1, LenProperties
<1>3. take \in 0..Len(chunk) /\ (Len(frame) >= HeaderBytes => take = 0)
      /\ (Len(frame) < HeaderBytes => Len(frame) + take <= HeaderBytes
                                      /\ (Len(frame) + take < HeaderBytes => take = Len(chunk)))
  BY <1>1, <1>2 DEF ForHeader
<1>4. /\ headed \in Seq(0..Base - 1) /\ rest \in Seq(0..Base - 1)
      /\ Len(headed) = Len(frame) + take /\ Len(rest) = Len(chunk) - take
      /\ headed \o rest = sent'
  <2> DEFINE Byte == 0..Base - 1
  <2>1. frame \in Seq(Byte) /\ chunk \in Seq(Byte) /\ take \in 0..Len(chunk) /\ sent' = frame \o chunk
    BY <1>1, <1>3
  <2>2. /\ headed \in Seq(Byte) /\ rest \in Seq(Byte)
        /\ Len(headed) = Len(frame) + take /\ Len(rest) = Len(chunk) - take
        /\ headed \o rest = frame \o chunk
    <3> HIDE DEF take, Byte
    <3>1. /\ frame \o SubSeq(chunk, 1, take) \in Seq(Byte)
          /\ SubSeq(chunk, take + 1, Len(chunk)) \in Seq(Byte)
      BY <2>1, ChunkIsCut
    <3>2. /\ Len(frame \o SubSeq(chunk, 1, take)) = Len(frame) + take
          /\ Len(SubSeq(chunk, take + 1, Len(chunk))) = Len(chunk) - take
      BY <2>1, ChunkIsCut
    <3> DEFINE head == SubSeq(chunk, 1, take)
    <3>3. head \in Seq(Byte) /\ head \o rest = chunk
      <4>1. Len(chunk) \in Nat /\ take \in Nat /\ take <= Len(chunk)
        BY <1>2, <2>1
      <4>2. 1 \in 1..Len(chunk) + 1 /\ take \in 1 - 1..Len(chunk) /\ Len(chunk) \in take..Len(chunk)
        BY <4>1
      <4>3. head \o rest = SubSeq(chunk, 1, Len(chunk))
        BY <2>1, <4>2, ConcatAdjacentSubSeq
      <4>4. head \in Seq(Byte)
        BY <2>1, <4>1, <4>2, SubSeqProperties
      <4> QED BY <2>1, <4>3, <4>4, SubSeqFull
    <3>4. (frame \o head) \o rest = frame \o (head \o rest)
      <4>1. frame \in Seq(Byte) /\ head \in Seq(Byte) /\ rest \in Seq(Byte)
        BY <2>1, <3>1, <3>3
      <4> HIDE DEF head, rest
      <4> QED BY ONLY <4>1, ConcatAssociative
    <3>5. headed = frame \o head
      OBVIOUS
    <3> QED BY ONLY <3>1, <3>2, <3>3, <3>4, <3>5 DEF headed, rest
  <2> HIDE DEF take, headed, rest
  <2> QED BY <2>1, <2>2
<1>5. sent' \in Seq(0..Base - 1) /\ Len(sent') = Len(headed) + Len(rest) /\ Len(headed) \in Nat /\ Len(rest) \in Nat
  <2> HIDE DEF headed, rest
  <2> QED BY <1>4, ConcatProperties, LenProperties
<1>6. Len(headed) >= HeaderBytes => length = declared
  <2>1. CASE take = 0 /\ Len(headed) >= HeaderBytes
    <3>1. Len(frame) >= HeaderBytes
      BY <1>2, <1>4, <2>1
    <3>2. expected = LengthIn(SubSeq(sent, 1, HeaderBytes))
      BY <1>1, <1>2, <3>1 DEF CollectorInv
    <3>3. SubSeq(sent', 1, HeaderBytes) = SubSeq(sent, 1, HeaderBytes)
      BY <1>1, <3>1, HeaderStays
    <3> QED BY <2>1, <3>2, <3>3
  <2>2. CASE take # 0 /\ Len(headed) >= HeaderBytes
    <3>1. Len(headed) = HeaderBytes
      BY <1>1, <1>2, <1>3, <1>4, <2>2
    <3>2. SubSeq(headed \o rest, 1, HeaderBytes) = headed
      <4> HIDE DEF headed, rest
      <4> QED BY <1>4, <3>1, HeaderStays, SubSeqFull
    <3> QED BY <1>4, <2>2, <3>2
  <2> QED BY <2>1, <2>2
<1> HIDE DEF take, headed, rest, length
<1>7. CASE Len(headed) < HeaderBytes /\ frame' = headed /\ UNCHANGED <<expected, collection>>
  <2>1. rest = <<>> /\ frame' = sent' /\ Len(sent') < HeaderBytes /\ expected = 0 /\ Len(frame) < HeaderBytes
    <3>1. Len(rest) = 0 /\ Len(frame) < HeaderBytes
      BY <1>1, <1>2, <1>3, <1>4, <1>7
    <3>2. rest = <<>>
      BY <1>4, <3>1, EmptySeq
    <3>3. headed \o rest = headed
      BY <1>4, <3>2, ConcatEmptySeq
    <3>4. expected = 0
      BY <1>1, <1>2, <3>1 DEF CollectorInv
    <3> QED BY <1>4, <1>5, <1>7, <3>1, <3>2, <3>3, <3>4
  <2> QED BY <1>1, <1>5, <1>7, <2>1 DEF CollectorInv
<1>8. CASE Len(headed) >= HeaderBytes /\ length \notin 1..MaxFrameBytes /\ Refuse("FRAME_LENGTH")
  <2>1. declared \notin 1..MaxFrameBytes /\ Len(sent') - HeaderBytes >= 0
    BY <1>1, <1>5, <1>6, <1>8
  <2> QED BY <1>1, <1>5, <1>8, <2>1 DEF CollectorInv, Refuse
<1>9. CASE /\ Len(headed) >= HeaderBytes /\ length \in 1..MaxFrameBytes
           /\ Len(headed) - HeaderBytes + Len(rest) > length /\ Refuse("FRAME_TRAILING")
  <2>1. declared \in 1..MaxFrameBytes /\ Len(sent') - HeaderBytes > declared
    BY <1>1, <1>5, <1>6, <1>9
  <2> QED BY <1>1, <1>5, <1>9, <2>1 DEF CollectorInv, Refuse
<1>10. CASE /\ Len(headed) >= HeaderBytes /\ length \in 1..MaxFrameBytes
            /\ Len(headed) - HeaderBytes + Len(rest) <= length
            /\ frame' = headed \o rest /\ expected' = length /\ UNCHANGED collection
  <2>1. /\ declared \in 1..MaxFrameBytes /\ Len(sent') - HeaderBytes <= declared /\ Len(sent') - HeaderBytes >= 0
        /\ frame' = sent' /\ expected' = declared
    BY <1>1, <1>4, <1>5, <1>6, <1>10
  <2> QED BY <1>1, <1>5, <1>10, <2>1 DEF CollectorInv
<1> QED BY <1>7, <1>8, <1>9, <1>10 DEF Receive, take, headed, rest, length

\* The collector's invariant holds in every behaviour, for every width of the
\* header, every base and every limit: what is kept is what was sent, and the
\* declared length is the one in its first bytes (analysis-frame-stream.ts:14-47).
THEOREM CollectorInvariance == CollectorSpec => []CollectorInv
<1>1. CollectorInit => CollectorInv
  <2> SUFFICES ASSUME CollectorInit PROVE CollectorInv
    OBVIOUS
  <2>1. sent \in Seq(0..Base - 1) /\ Len(sent) = 0 /\ frame = sent
    BY EmptySeq DEF CollectorInit
  <2> QED BY <2>1, CollectorAssumption DEF CollectorInit, CollectorInv
<1>2. CollectorInv /\ [CollectorNext]_collectorVars => CollectorInv'
  <2> SUFFICES ASSUME CollectorInv, [CollectorNext]_collectorVars  PROVE CollectorInv'
    OBVIOUS
  <2>1. ASSUME NEW chunk \in ByteStrings(MaxStreamBytes - Len(sent)), Receive(chunk)  PROVE CollectorInv'
    <3>1. MaxStreamBytes - Len(sent) \in Int
      BY CollectorAssumption, LenProperties DEF CollectorInv
    <3> QED BY <2>1, <3>1, ReceiveKeepsInv
  <2>2. ASSUME NEW code \in {"FRAME_CHUNK", "SOURCE"}, Break(code)  PROVE CollectorInv'
    <3>1. collection' \in {"FRAME_CHUNK", "SOURCE"} /\ UNCHANGED <<sent, frame, expected>>
      BY <2>2 DEF Break, Refuse
    <3> QED BY <3>1 DEF CollectorInv
  <2>3. CASE End
    <3>1. Len(sent) \in Nat /\ HeaderBytes \in Nat /\ frame = sent /\ UNCHANGED <<sent, frame, expected>>
      BY <2>3, CollectorAssumption, LenProperties DEF CollectorInv, End
    <3>2. CASE collection' = "FRAME_TRUNCATED"
      BY <2>3, <3>1, <3>2 DEF CollectorInv, End
    <3>3. CASE collection' = "collected"
      BY <2>3, <3>1, <3>3 DEF CollectorInv, End
    <3> QED BY <2>3, <3>2, <3>3 DEF End
  <2>4. CASE DecodeHeader
    <3>1. /\ Len(sent) \in Nat /\ HeaderBytes \in Nat /\ MaxFrameBytes \in Nat /\ frame = sent
          /\ UNCHANGED <<sent, frame, expected>> /\ expected \in 1..MaxFrameBytes
          /\ Len(sent) = HeaderBytes + expected /\ expected = LengthIn(SubSeq(sent, 1, HeaderBytes))
      BY <2>4, CollectorAssumption, LenProperties DEF CollectorInv, DecodeHeader
    <3>2. collection' = "decoded"
      BY <2>4, <3>1 DEF DecodeHeader
    <3> QED BY <2>4, <3>1, <3>2 DEF CollectorInv, DecodeHeader
  <2>5. CASE UNCHANGED collectorVars
    BY <2>5 DEF CollectorInv, collectorVars
  <2> QED BY <2>1, <2>2, <2>3, <2>4, <2>5 DEF CollectorNext
<1> QED BY <1>1, <1>2, PTL DEF CollectorSpec

\* Bytes after what is there make a frame of it exactly if they are as many as
\* the header has declared and it has not got.
LEMMA BeginningsOfFrames ==
    ASSUME NEW s \in Seq(0..Base - 1), Len(s) >= HeaderBytes
    PROVE  LET declared == LengthIn(SubSeq(s, 1, HeaderBytes))
           IN  BeginsFrame(s) <=> declared \in 1..MaxFrameBytes /\ Len(s) - HeaderBytes <= declared
<1> DEFINE declared == LengthIn(SubSeq(s, 1, HeaderBytes))
<1>1. Len(s) \in Nat /\ HeaderBytes \in Nat \ {0} /\ MaxFrameBytes \in Nat /\ Base \in Nat \ {0}
  BY CollectorAssumption, LenProperties
<1>2. ASSUME NEW more \in Seq(0..Base - 1)
      PROVE  /\ LengthIn(SubSeq(s \o more, 1, HeaderBytes)) = declared
             /\ Len(s \o more) = Len(s) + Len(more) /\ Len(more) \in Nat
  BY HeaderStays, ConcatProperties, LenProperties
<1> HIDE DEF declared
<1>3. ASSUME BeginsFrame(s)  PROVE declared \in 1..MaxFrameBytes /\ Len(s) - HeaderBytes <= declared
  <2>1. PICK more \in ByteStrings(MaxFrameBytes) : IsFrame(s \o more)
    BY <1>3 DEF BeginsFrame
  <2>2. more \in Seq(0..Base - 1)
    BY <1>1, <2>1, ByteStringsAreSequences
  <2> QED BY <1>1, <1>2, <2>1, <2>2 DEF IsFrame
<1>4. ASSUME declared \in 1..MaxFrameBytes, Len(s) - HeaderBytes <= declared  PROVE BeginsFrame(s)
  <2> DEFINE n == declared - (Len(s) - HeaderBytes)
             more == [i \in 1..n |-> 0]
  <2>1. n \in Nat /\ n <= MaxFrameBytes /\ 0 \in 0..Base - 1
    BY <1>1, <1>4
  <2>2. more \in [1..n -> 0..Base - 1]
    BY <2>1
  <2>3. more \in ByteStrings(MaxFrameBytes)
    <3> DEFINE Byte == 0..Base - 1
    <3>1. n \in 0..MaxFrameBytes
      BY <1>1, <2>1
    <3>2. [1..n -> Byte] \in {[1..k -> Byte] : k \in 0..MaxFrameBytes}
      BY <3>1
    <3>3. more \in UNION {[1..k -> Byte] : k \in 0..MaxFrameBytes}
      <4> HIDE DEF Byte, n, more
      <4> QED BY <2>2, <3>2 DEF Byte
    <3> QED BY <3>3 DEF ByteStrings
  <2>4. more \in Seq(0..Base - 1)
    BY <1>1, <2>3, ByteStringsAreSequences
  <2>5. Len(more) = n
    <3> HIDE DEF n, more
    <3> QED BY <2>1, <2>2, <2>4, LenProperties
  <2>6. IsFrame(s \o more)
    <3> HIDE DEF more
    <3> QED BY <1>1, <1>2, <1>4, <2>1, <2>4, <2>5 DEF IsFrame
  <2> QED BY <2>3, <2>6 DEF BeginsFrame
<1> QED BY <1>3, <1>4 DEF declared

\* A child's answer is collected exactly as it was sent, for every stream, every
\* cut of it into chunks and every limit (analysis-frame-stream.ts:8-13, 22-46,
\* analysis-protocol.ts:119-125).
THEOREM FramesAreStreams == CollectorSpec => []FrameIsTheStream
<1>1. CollectorInv => FrameIsTheStream
  <2> SUFFICES ASSUME CollectorInv PROVE FrameIsTheStream
    OBVIOUS
  <2> DEFINE declared == LengthIn(SubSeq(sent, 1, HeaderBytes))
  <2>1. /\ sent \in Seq(0..Base - 1) /\ Len(sent) \in Nat /\ HeaderBytes \in Nat \ {0}
        /\ MaxFrameBytes \in Nat /\ expected \in 0..MaxFrameBytes
    BY CollectorAssumption, LenProperties DEF CollectorInv
  <2>2. Len(sent) >= HeaderBytes =>
          (BeginsFrame(sent) <=> declared \in 1..MaxFrameBytes /\ Len(sent) - HeaderBytes <= declared)
    BY <2>1, BeginningsOfFrames
  <2> HIDE DEF declared
  <2>3. ASSUME collection \in {"collected", "decoded"}  PROVE frame = sent /\ IsFrame(sent)
    BY <2>1, <2>3 DEF CollectorInv, IsFrame
  <2>4. ASSUME collection \in {"FRAME_LENGTH", "FRAME_TRAILING"}  PROVE ~BeginsFrame(sent)
    <3>1. CASE collection = "FRAME_LENGTH"
      BY <2>1, <2>2, <3>1 DEF CollectorInv, declared
    <3>2. CASE collection = "FRAME_TRAILING"
      BY <2>1, <2>2, <3>2 DEF CollectorInv, declared
    <3> QED BY <2>4, <3>1, <3>2
  <2>5. ASSUME collection = "FRAME_TRUNCATED"  PROVE ~IsFrame(sent)
    BY <2>1, <2>5 DEF CollectorInv, IsFrame
  <2>6. ASSUME collection = "collecting"  PROVE frame = sent /\ (Len(sent) >= HeaderBytes => BeginsFrame(sent))
    BY <2>1, <2>2, <2>6 DEF CollectorInv, declared
  <2>7. collection # "FRAME_SIZE" /\ expected <= MaxFrameBytes /\ Len(frame) <= HeaderBytes + expected
    BY <2>1 DEF CollectorInv
  <2> QED BY <2>3, <2>4, <2>5, <2>6, <2>7 DEF FrameIsTheStream
<1> QED BY <1>1, CollectorInvariance, PTL
=============================================================================
