----------------------------- MODULE ResultFacts -----------------------------
(***************************************************************************)
(* Facts the engine derives from lockfile graphs and declarations, never a *)
(* verdict: engine/impact.ts, footprint.ts, health.ts, unified-graph.ts    *)
(* and project-tree.ts of packages/core; and the removal of a dependency   *)
(* that fix-preview.ts previews.                                           *)
(*                                                                         *)
(*   graph  [ecosystem, project, nodes, closure, incomplete], a node       *)
(*          [name, version, needs, dev, origin]; closure maps the direct   *)
(*          dependencies the lockfile resolved to sets of names            *)
(*   dependency  [ecosystem, project, name, registry, alias, ...]          *)
(***************************************************************************)
EXTENDS Absent, Calls, Integers, Sequences, FiniteSets, FiniteSetsExt, SequencesExt

CONSTANTS
    EcosystemOrder, NameOrder,  \* ecosystems and package names as they sort
    LooseName,                  \* a name with its case and separators folded
    ImpactBudget,               \* MAX_IMPACT_CLOSURE_ENTRIES
    MaxMetadataPackages         \* MAX_FOOTPRINT_PACKAGES, MAX_HEALTH_PACKAGES

OfProject(things, e, p) == {t \in things : t.ecosystem = e /\ t.project = p}
IsEmptyGraph(g) == g.incomplete /\ g.nodes = {}
Usable(graphs) == {g \in graphs : ~IsEmptyGraph(g)}
Completeness(graphs) ==
    CASE Usable(graphs) = {}                -> "none"
      [] \E g \in graphs : g.incomplete     -> "partial"
      [] OTHER                              -> "complete"
\* Of a whole ecosystem: each of its projects must have a graph as well.
GraphCompleteness(projects, graphs) ==
    LET covered == {<<g.ecosystem, g.project>> : g \in graphs}
    IN  IF Completeness(graphs) = "complete" /\ ~(projects \subseteq covered) THEN "partial" ELSE Completeness(graphs)

-----------------------------------------------------------------------------
(* Impact: what a direct dependency brings in                              *)

Loose(name) == IF name \in DOMAIN LooseName THEN LooseName[name] ELSE name
ClosureOf(graphs, name) ==
    LET having == {g \in graphs : name \in DOMAIN g.closure}
    IN  IF having = {} THEN None ELSE UNION {g.closure[name] : g \in having} \ {name}
WorkOf(graphs, names) ==
    MapThenSumSet(LAMBDA t : Cardinality(t[1].closure[t[2]]), {t \in graphs \X names : t[2] \in DOMAIN t[1].closure})

\* Slip: names are compared exactly, so a spelling of its own hides a node.
SlipAllClosures(graphs, declared) ==
    \A d \in declared : /\ d.registry /\ ~d.alias
                        /\ ClosureOf(graphs, d.name) # None \/ d.name \notin {n.name : n \in UNION {g.nodes : g \in graphs}}
\* Every direct dependency that is installed is known with its closure.
AllClosures(graphs, declared) ==
    LET nodeNames == {Loose(n.name) : n \in UNION {g.nodes : g \in graphs}}
    IN  \A d \in declared : /\ d.registry /\ ~d.alias
                            /\ ClosureOf(graphs, d.name) # None \/ Loose(d.name) \notin nodeNames
Exclusive(graphs, names, name) ==
    Cardinality({m \in ClosureOf(graphs, name) \ names :
                    \A other \in names \ {name} : ClosureOf(graphs, other) = None \/ m \notin ClosureOf(graphs, other)})

ImpactOfProject(graphs, declared, limited) ==
    LET names == {d.name : d \in declared}
        usable == Usable(graphs)
        completeness == Completeness(graphs)
        Row(name, transitive, exclusive) ==
            [name |-> name, graph |-> completeness, transitive |-> transitive, exclusive |-> exclusive, limited |-> limited]
    IN  {IF completeness = "none" \/ limited \/ ClosureOf(usable, name) = None
         THEN Row(name, None, None)
         ELSE Row(name, Cardinality(ClosureOf(usable, name)),
                  IF completeness = "complete" /\ AllClosures(usable, declared) THEN Exclusive(usable, names, name) ELSE None)
            : name \in names}

\* Projects are taken in a fixed order until the budget is used.
ComputeImpact(graphs, declared, projects) ==
    FoldLeft(LAMBDA done, p :
        LET of == OfProject(graphs, p[1], p[2])
            deps == OfProject(declared, p[1], p[2])
            work == WorkOf(Usable(of), {d.name : d \in deps})
            limited == Completeness(of) # "none" /\ done.used + work > ImpactBudget
        IN  [used |-> IF limited \/ Completeness(of) = "none" THEN done.used ELSE done.used + work,
             limited |-> done.limited \/ (limited /\ deps # {}),
             rows |-> done.rows \cup {[ecosystem |-> p[1], project |-> p[2]] @@ row : row \in ImpactOfProject(of, deps, limited)}],
        [used |-> 0, limited |-> FALSE, rows |-> {}], projects)

-----------------------------------------------------------------------------
(* Footprints: sizes of the locked versions, asked of the caller's provider *)

\* The versions locked for an entry and its closure.
Members(graphs, row) ==
    IF row.transitive = None THEN {}
    ELSE UNION {{[name |-> n.name, version |-> n.version] : n \in {m \in g.nodes : m.name \in {row.name} \cup g.closure[row.name]}}
                   : g \in {h \in Usable(OfProject(graphs, row.ecosystem, row.project)) : row.name \in DOMAIN h.closure}}
\* The one origin all locked nodes of a version agree on.
OriginOf(graphs, e, ref) ==
    LET origins == {n.origin : n \in {m \in UNION {g.nodes : g \in {h \in graphs : h.ecosystem = e}} : m.name = ref.name /\ m.version = ref.version}}
    IN  IF Cardinality(origins) = 1 THEN CHOOSE o \in origins : TRUE ELSE None
Wanted(graphs, rows, e) ==
    {[ref |-> r, origin |-> OriginOf(graphs, e, r)] : r \in UNION {Members(graphs, row) : row \in {x \in rows : x.ecosystem = e}}}

\* What counts of an answer: a sequence of [ref, bytes], or None when the call
\* failed or was late; only what was asked, and the first answer for it.
SizesOf(answer, asked) ==
    IF answer = None THEN <<>>
    ELSE LET valid == SelectSeq(answer, LAMBDA a : a.ref \in asked)
             refs == {a.ref : a \in ToSet(valid)}
         IN  [r \in refs |-> valid[Min({i \in DOMAIN valid : valid[i].ref = r})].bytes]

\* A name counts when every locked version of it has a size, at its smallest.
SizeOfName(sizes, refs) == IF \E r \in refs : r \notin DOMAIN sizes THEN None ELSE Min({sizes[r] : r \in refs})
Footprint(graphs, row, sizes) ==
    LET refs == Members(graphs, row)
        names == {r.name : r \in refs}
        Of(name) == SizeOfName(sizes, {r \in refs : r.name = name})
        sized == {n \in names : Of(n) # None}
    IN  IF sized = {} THEN None
        ELSE [bytes |-> MapThenSumSet(Of, sized), sized |-> Cardinality(sized), total |-> Cardinality(names)]
\* What the provider of an ecosystem answers is in "answers".
AddFootprints(rows, graphs, answers) ==
    {LET wanted == Wanted(graphs, rows, row.ecosystem)
         asked  == {w.ref : w \in wanted}
         answer == IF asked = {} \/ Cardinality(asked) > MaxMetadataPackages THEN None ELSE answers[row.ecosystem]
     IN  [footprint |-> Footprint(graphs, row, SizesOf(answer, asked))] @@ row
        : row \in rows}

-----------------------------------------------------------------------------
(* Health: what the registry says of the one version that is locked        *)

LockedRefs(graphs, d) ==
    {[name |-> n.name, version |-> n.version, origin |-> n.origin]
        : n \in {m \in UNION {g.nodes : g \in OfProject(graphs, d.ecosystem, d.project)} : m.name = d.name}}
HealthTarget(graphs, d) ==
    LET refs == LockedRefs(graphs, d)
    IN  IF ~d.registry \/ Cardinality(refs) # 1 \/ \E r \in refs : r.origin = None
        THEN None ELSE CHOOSE r \in refs : TRUE

\* Of an answer, a sequence of [ref, facts]: facts of a version stated once.
\* Slip: a third answer stands after two that disagreed.
SlipFactsFor(answer, ref) ==
    LET stated == SelectSeq(answer, LAMBDA a : a.ref = ref)
    IN  IF Len(stated) % 2 = 0 THEN None ELSE stated[Len(stated)].facts
FactsFor(answer, ref) ==
    LET stated == SelectSeq(answer, LAMBDA a : a.ref = ref)
    IN  IF Len(stated) # 1 THEN None ELSE stated[1].facts

\* Of a version the registry states facts [value, basis, kind], each or none
\* of deprecated, archived and published.  A fact says who stated it: a basis
\* that is blank or longer than a line is no source, and a fact without one,
\* or with any other value, is silence.
Basis(fact) == IF fact # None /\ fact.basis \notin {"", "overlong"} THEN fact.basis ELSE None
Signal(rule, fact, kind) == [rule |-> rule, basis |-> Basis(fact), kind |-> kind]
\* Slip: any source may say that a repository is archived.
SlipSignals(facts) ==
    LET Stated(fact, value) == Basis(fact) # None /\ fact.value = value
    IN  {Signal("registry-deprecated", f, "registry") : f \in {g \in {facts.deprecated} : Stated(g, "true")}}
        \cup {Signal("repository-archived", f, "repository-host") : f \in {g \in {facts.archived} : Stated(g, "true")}}
        \cup {Signal("locked-version-published", f, "registry") : f \in {g \in {facts.published} : Stated(g, "date")}}
Signals(facts) ==
    LET Stated(fact, value) == Basis(fact) # None /\ fact.value = value
    IN  {Signal("registry-deprecated", f, "registry") : f \in {g \in {facts.deprecated} : Stated(g, "true")}}
        \cup {Signal("repository-archived", f, "repository-host")
                  : f \in {g \in {facts.archived} : Stated(g, "true") /\ g.kind = "repository-host"}}
        \cup {Signal("locked-version-published", f, "registry") : f \in {g \in {facts.published} : Stated(g, "date")}}

HealthFindings(declared, graphs, answers) ==
    UNION {LET ref == HealthTarget(graphs, d)
               asked == {HealthTarget(graphs, x) : x \in {y \in declared : y.ecosystem = d.ecosystem}} \ {None}
               answer == IF asked = {} \/ Cardinality(asked) > MaxMetadataPackages THEN None ELSE answers[d.ecosystem]
           IN  IF ref = None \/ answer = None \/ FactsFor(answer, ref) = None THEN {}
               ELSE {[of |-> d, ref |-> ref, signal |-> s] : s \in Signals(FactsFor(answer, ref))}
           : d \in declared}

-----------------------------------------------------------------------------
(* The repository-wide graph and project tree                              *)

Position(sequence, x) == CHOOSE i \in DOMAIN sequence : sequence[i] = x
PackageId(g, n) == <<Position(EcosystemOrder, g.ecosystem), Position(NameOrder, n.name), n.version>>
IdBefore(a, b) == \E i \in 1..3 : a[i] < b[i] /\ \A j \in 1..(i - 1) : a[j] = b[j]

\* One package for a name and version of an ecosystem, whichever projects lock it.
Packages(graphs, declared) ==
    LET locked == UNION {{[id |-> PackageId(g, n), graph |-> g, node |-> n] : n \in g.nodes} : g \in graphs}
        Project(g) == <<g.ecosystem, g.project>>
        Package(id) ==
            LET as == {l \in locked : l.id = id}
            IN  [id |-> id, needs |-> UNION {l.node.needs : l \in as}, dev |-> \A l \in as : l.node.dev,
                 projects |-> {Project(l.graph) : l \in as},
                 directIn |-> {Project(l.graph) : l \in {x \in as : \E d \in declared :
                                  <<d.ecosystem, d.project>> = Project(x.graph) /\ d.name = x.node.name}}]
    IN  {Package(id) : id \in {l.id : l \in locked}}

\* Of a graph that is cut, what the user declared is kept first.
EmittedFirst(p, q) ==
    IF (p.directIn = {}) = (q.directIn = {}) THEN IdBefore(p.id, q.id) ELSE p.directIn # {}
BuildUnifiedGraph(graphs, declared, limit) ==
    LET packages == Packages(graphs, declared)
        kept == {p \in packages : Cardinality({q \in packages : q # p /\ EmittedFirst(q, p)}) < limit}
        Of(set, e) == Cardinality({p \in set : p.id[1] = Position(EcosystemOrder, e)})
    IN  [nodes |-> kept, truncated |-> Cardinality(kept) < Cardinality(packages),
         ecosystems |-> {[ecosystem |-> e, nodes |-> Of(packages, e), emitted |-> Of(kept, e)] : e \in ToSet(EcosystemOrder)}]

\* "./a//" and "a" name one directory, the root is the empty path.
NormalisePath(path) ==
    LET named == {i \in DOMAIN path : path[i] # "" /\ \E j \in 1..i : path[j] # "."}
        first == {i \in DOMAIN path : path[i] # "." /\ \A j \in 1..(i - 1) : path[j] = "."}
    IN  IF named = {} THEN <<>> ELSE SubSeq(path, Min(first), Max(named))
AncestorsOf(path) == {SubSeq(path, 1, n) : n \in 0..(Len(path) - 1)}
BuildProjectTree(projects) ==
    LET nodes == {[ecosystem |-> p.ecosystem, path |-> NormalisePath(p.path)] : p \in projects}
        FirstAt(path) == EcosystemOrder[Min({Position(EcosystemOrder, m.ecosystem) : m \in {x \in nodes : x.path = path}})]
        Parent(n) ==
            LET above == AncestorsOf(n.path) \cap {m.path : m \in nodes}
            IN  IF above = {} THEN None
                ELSE LET dir == CHOOSE p \in above : \A q \in above : Len(q) <= Len(p)
                     IN  [ecosystem |-> FirstAt(dir), path |-> dir]
    IN  {[parent |-> Parent(n)] @@ n : n \in nodes}

-----------------------------------------------------------------------------
(* When the removal of one direct dependency may be previewed, and what it   *)
(* makes of package.json and package-lock.json.  A text is [plain, value]:   *)
(* plain when it is canonical JSON within the limits and safe to show.       *)
(* Objects are functions from their keys; what is no object is None, and a   *)
(* place in node_modules is a sequence of names.                             *)

CONSTANT RegistrySpecs   \* the constraints that are ranges of the registry

DependencySections == {"dependencies", "devDependencies", "optionalDependencies", "peerDependencies"}
HasKey(object, key) == key \in DOMAIN object
IsSection(object, s) == HasKey(object, s) /\ object[s] # None
SectionOf(object, s) == IF IsSection(object, s) THEN object[s] ELSE [k \in {} |-> None]
WellFormedSections(object) == \A s \in DependencySections : HasKey(object, s) => object[s] # None
ForeignMarkers == {"npm-shrinkwrap.json", "pnpm-lock.yaml", "yarn.lock", "bun.lock", "bun.lockb", "lerna.json", "pnpm-workspace.yaml"}

\* The paths leave no doubt whose lockfile it is.
OwnsLockfile(paths) ==
    {"package.json", "package-lock.json"} \subseteq paths /\ paths \cap (ForeignMarkers \cup {"nested/package.json", ".npmrc"}) = {}
\* The manifest pins an npm that writes this version of the lockfile, and says nothing else that matters to an install.
PlainManifest(manifest, lock) ==
    /\ DOMAIN manifest \subseteq {"name", "version", "private", "npm", "dependencies", "devDependencies"}
    /\ HasKey(manifest, "npm") /\ manifest.npm # None
    /\ HasKey(lock, "lockfileVersion") /\ lock.lockfileVersion \in {2, 3}
    /\ manifest.npm \in (IF lock.lockfileVersion = 2 THEN 7..8 ELSE 9..10)
    /\ DOMAIN lock \subseteq {"name", "version", "lockfileVersion", "requires", "packages", "legacy"}
RootKey == <<>>
NodeKey(name) == <<name>>
\* Exactly one declaration, as a runtime or dev dependency from the registry.
FieldsOf(manifest, name) == {s \in DependencySections : HasKey(SectionOf(manifest, s), name)}
DeclaredOnce(manifest, name) ==
    \E s \in {"dependencies", "devDependencies"} : FieldsOf(manifest, name) = {s} /\ manifest[s][name] \in RegistrySpecs
FieldOf(manifest, name) == CHOOSE s \in DependencySections : HasKey(SectionOf(manifest, s), name)
RootAgrees(manifest, lock, name) ==
    LET root == lock.packages[RootKey] IN
    /\ <<lock.name, lock.version>> = <<manifest.name, manifest.version>> /\ <<root.name, root.version>> = <<manifest.name, manifest.version>>
    /\ DOMAIN root \subseteq {"name", "version", "dependencies", "devDependencies"}
    /\ \A s \in DependencySections : SectionOf(root, s) = SectionOf(manifest, s)
    /\ WellFormedSections(manifest) /\ WellFormedSections(root)
HasVersion(entry) == entry # None /\ HasKey(entry, "version") /\ entry.version # None
\* The package is an ordinary leaf at the top of node_modules.  Its origin is where it came from and for what;
\* a link, a bundled or optional package and one with an install script have other keys.
OrdinaryLeaf(lock, name) ==
    /\ \A key \in DOMAIN lock.packages : Len(key) <= 1
    /\ HasKey(lock.packages, NodeKey(name))
    /\ LET node == lock.packages[NodeKey(name)] IN HasVersion(node) /\ DOMAIN node \subseteq {"version", "origin", "about"}
\* Slip: a peer dependency is not taken for a reference.
SlipUnreferenced(lock, name) ==
    \A key \in DOMAIN lock.packages \ {RootKey, NodeKey(name)} :
        LET entry == lock.packages[key] IN
        HasVersion(entry) /\ (\A s \in DependencySections \ {"peerDependencies"} : ~HasKey(SectionOf(entry, s), name))
Unreferenced(lock, name) ==
    \A key \in DOMAIN lock.packages \ {RootKey, NodeKey(name)} :
        LET entry == lock.packages[key] IN
        HasVersion(entry) /\ WellFormedSections(entry) /\ (\A s \in DependencySections : ~HasKey(SectionOf(entry, s), name))
\* What version 2 repeats for older clients is the same, and knows no other reference.
LegacyKeys == {"requires", "dependencies"}
LegacyAgrees(lock, name) ==
    IF lock.lockfileVersion = 3 THEN ~HasKey(lock, "legacy")
    ELSE LET legacy == lock.legacy
             Same(key) == legacy[key] # None /\ HasKey(lock.packages, NodeKey(key)) /\ lock.packages[NodeKey(key)] # None
                          /\ legacy[key].version = lock.packages[NodeKey(key)].version /\ legacy[key].origin = lock.packages[NodeKey(key)].origin
                          /\ (\A s \in LegacyKeys : HasKey(legacy[key], s) => legacy[key][s] # None)
         IN  /\ HasKey(lock, "legacy") /\ legacy # None /\ HasKey(legacy, name)
             /\ \A key \in DOMAIN legacy : Same(key)
             /\ DOMAIN legacy[name] \cap LegacyKeys = {}
             /\ \A key \in DOMAIN legacy \ {name} : \A s \in LegacyKeys : ~HasKey(SectionOf(legacy[key], s), name)

Previewable(paths, manifestText, lockText, name) ==
    LET manifest == manifestText.value lock == lockText.value IN
    /\ OwnsLockfile(paths)
    /\ manifestText.plain /\ lockText.plain /\ manifest # None /\ lock # None
    /\ PlainManifest(manifest, lock)
    /\ IsSection(lock, "packages") /\ IsSection(lock.packages, RootKey)
    /\ DeclaredOnce(manifest, name)
    /\ RootAgrees(manifest, lock, name)
    /\ OrdinaryLeaf(lock, name) /\ Unreferenced(lock, name) /\ LegacyAgrees(lock, name)

\* An object without one of its keys.
Lacking(object, key) == [k \in DOMAIN object \ {key} |-> object[k]]
Undeclared(object, field, name) == [object EXCEPT ![field] = Lacking(@, name)]
PrunedPackages(packages, field, name) == [Lacking(packages, NodeKey(name)) EXCEPT ![RootKey] = Undeclared(@, field, name)]
EditRemoval(manifest, lock, name) ==
    LET field == FieldOf(manifest, name)
        pruned == [lock EXCEPT !.packages = PrunedPackages(@, field, name)]
    IN  [manifest |-> Undeclared(manifest, field, name),
         lock |-> IF lock.lockfileVersion = 2 THEN [pruned EXCEPT !.legacy = Lacking(@, name)] ELSE pruned]
PreviewNpmRemoval(paths, manifestText, lockText, name) ==
    IF Previewable(paths, manifestText, lockText, name) THEN EditRemoval(manifestText.value, lockText.value, name) ELSE None

-----------------------------------------------------------------------------
(* The removals that are asked for, each from what the files say then.       *)

CONSTANT Removals   \* calls [paths, manifest, lock, name], the two files as texts

RemovalInit == Calling("removal", Removals)
RemovalNext == Answering("removal", PreviewNpmRemoval(call.with.paths, call.with.manifest, call.with.lock, call.with.name))
RemovalSpec == RemovalInit /\ [][RemovalNext]_callVars

\* Places in a lockfile are paths, and an object does not turn into something else by losing a key.
RemovalAssumption ==
    \A c \in Removals :
        LET manifest == c.manifest.value lock == c.lock.value IN
        /\ lock # None /\ IsSection(lock, "packages") => \A key \in DOMAIN lock.packages : key \in Seq(ToSet(key))
        /\ manifest # None => \A s \in DependencySections : IsSection(manifest, s) => Lacking(manifest[s], c.name) # None

\* An install from a lockfile: a package finds what it needs in the
\* node_modules nearest to it, and an optional dependency may be missing.
NeededBy(entry) == UNION {DOMAIN SectionOf(entry, s) : s \in DependencySections}
MustHave(entry) == UNION {DOMAIN SectionOf(entry, s) : s \in DependencySections \ {"optionalDependencies"}}
PlacesFor(packages, from, name) == {Append(SubSeq(from, 1, n), name) : n \in 0..Len(from)} \cap DOMAIN packages
PlaceFor(packages, from, name) ==
    LET places == PlacesFor(packages, from, name)
    IN  IF places = {} THEN None ELSE CHOOSE p \in places : \A q \in places : Len(q) <= Len(p)
Unmet(packages) ==
    UNION {{<<key, name>> : name \in {n \in MustHave(packages[key]) : PlacesFor(packages, key, n) = {}}} : key \in DOMAIN packages}
\* What an install holds: the root and whatever the packages it holds find.
ClosedUnderNeeds(packages, places) ==
    /\ RootKey \in places
    /\ \A key \in places : \A n \in NeededBy(packages[key]) : PlacesFor(packages, key, n) # {} => PlaceFor(packages, key, n) \in places
Installed(packages) == {key \in DOMAIN packages : \A places \in SUBSET DOMAIN packages : ClosedUnderNeeds(packages, places) => key \in places}
Orphans(packages) == DOMAIN packages \ Installed(packages)

NothingIsMissing(before, after) == Unmet(after) \subseteq Unmet(before) /\ Orphans(after) \subseteq Orphans(before)
NothingStays(manifest, packages, name) ==
    /\ name \notin NeededBy(manifest)
    /\ \A key \in DOMAIN packages : (key # RootKey => Last(key) # name) /\ name \notin NeededBy(packages[key])
NothingElseChanges(before, after, name) ==
    /\ DOMAIN after = DOMAIN before /\ \A key \in DOMAIN before \ {"packages", "legacy"} : after[key] = before[key]
    /\ DOMAIN after.packages = DOMAIN before.packages \ {NodeKey(name)}
    /\ \A key \in DOMAIN after.packages \ {RootKey} : after.packages[key] = before.packages[key]
LegacyIsInStep(lock, name) ==
    HasKey(lock, "legacy") =>
        \A n \in DOMAIN lock.legacy : /\ NodeKey(n) \in DOMAIN lock.packages /\ lock.legacy[n].version = lock.packages[NodeKey(n)].version
                                      /\ \A s \in LegacyKeys : ~HasKey(SectionOf(lock.legacy[n], s), name)

\* A removal that is previewed breaks nothing: manifest and lockfile agree
\* on what is left, no package loses one it needs and none is left behind
\* that nothing needs, nothing of the package stays, nothing else changes,
\* and what is repeated for older clients says the same (fix-preview.ts:
\* 193-372, 414-428).
RemovalBreaksNothing ==
    Answered("removal") /\ result # None =>
        LET name == call.with.name
            manifest == call.with.manifest.value
            before == call.with.lock.value
            after == result.lock
        IN  /\ \A s \in DependencySections : /\ SectionOf(after.packages[RootKey], s) = SectionOf(result.manifest, s)
                                             /\ DOMAIN SectionOf(result.manifest, s) = DOMAIN SectionOf(manifest, s) \ {name}
            /\ NothingIsMissing(before.packages, after.packages)
            /\ NothingStays(result.manifest, after.packages, name)
            /\ NothingElseChanges(before, after, name)
            /\ LegacyIsInStep(after, name)
=============================================================================
