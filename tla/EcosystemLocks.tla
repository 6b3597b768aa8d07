--------------------------- MODULE EcosystemLocks ---------------------------
(* The lockfiles of the Rust and the Python adapter.                         *)
EXTENDS Absent, Naturals, Sequences, FiniteSets, SequencesExt

-----------------------------------------------------------------------------
(* The crates of a repository: which workspace each is of, what it declares  *)
(* and what its features turn on (rust adapter, cargo-toml.ts, discover.ts   *)
(* and manifest.ts).  A directory is a sequence of names; a repository has   *)
(* its manifests by directory, None for one that cannot be read, and in      *)
(* "locks" its Cargo.lock files.  The tables of a manifest are a set of      *)
(* [kind, target, key, value]; a value is None or an entry [inherits,        *)
(* package, version, path, optional], where path stands for git as well      *)
(* (a path that is no directory).  A segment of a member glob is {"**"} or   *)
(* the set of names it matches, empty for what is not supported.             *)

(* cargo-toml.ts *)

HasPackage(m) == m # None /\ m.package # None
WorkspaceTable(m) == IF m = None THEN None ELSE m.workspace
HasWorkspace(repo, dir) == dir \in DOMAIN repo.manifests /\ WorkspaceTable(repo.manifests[dir]) # None
Crates(repo) == {d \in DOMAIN repo.manifests : HasPackage(repo.manifests[d])}
RelativeTo(root, dir) == SubSeq(dir, Len(root) + 1, Len(dir))

MatchMemberGlob(pattern, dir) ==
    LET walk[p \in 1..(Len(pattern) + 1), d \in 1..(Len(dir) + 1)] ==
          IF p > Len(pattern) THEN d > Len(dir)
          ELSE IF pattern[p] = {"**"} THEN \E k \in d..(Len(dir) + 1) : walk[p + 1, k]
          ELSE d <= Len(dir) /\ dir[d] \in pattern[p] /\ walk[p + 1, d + 1]
    IN  walk[1, 1]
IsExcluded(repo, root, dir) == \E e \in WorkspaceTable(repo.manifests[root]).exclude : IsPrefix(e, RelativeTo(root, dir))
\* The nearest directory above with a workspace, whatever its members are.
WorkspaceAbove(repo, dir) ==
    LET above == {n \in 0..(Len(dir) - 1) : HasWorkspace(repo, SubSeq(dir, 1, n))}
    IN  IF above = {} THEN None ELSE SubSeq(dir, 1, CHOOSE n \in above : \A m \in above : m <= n)
FindWorkspaceRoot(repo, dir) ==
    LET named == repo.manifests[dir].package.workspace
        root == WorkspaceAbove(repo, dir)
    IN  CASE HasWorkspace(repo, dir) -> dir
          [] ~HasWorkspace(repo, dir) /\ named # None -> IF HasWorkspace(repo, named) THEN named ELSE None
          [] OTHER -> IF /\ root # None /\ ~IsExcluded(repo, root, dir)
                         /\ \E p \in WorkspaceTable(repo.manifests[root]).members : MatchMemberGlob(p, RelativeTo(root, dir))
                      THEN root ELSE None
NearestWorkspace(repo, dir) ==
    LET root == WorkspaceAbove(repo, dir) IN
    IF HasWorkspace(repo, dir) \/ repo.manifests[dir].package.workspace # None \/ root = None THEN None
    ELSE IF IsExcluded(repo, root, dir) THEN None ELSE root
\* The directories its tables name by a path; an entry that is inherited names none.
PathDependencyDirs(m) == {e.value.path : e \in {x \in m.tables : x.value # None /\ x.value.path # None}}
ResolveWorkspaces(repo) ==
    LET listed == [d \in {x \in Crates(repo) : FindWorkspaceRoot(repo, x) # None} |-> FindWorkspaceRoot(repo, d)]
        Joins(resolved, d) == \E m \in DOMAIN resolved : d \in PathDependencyDirs(repo.manifests[m]) /\ NearestWorkspace(repo, d) = resolved[m]
        resolved[n \in 0..Cardinality(Crates(repo))] ==
          IF n = 0 THEN listed
          ELSE LET before == resolved[n - 1]
               IN  before @@ [d \in {x \in Crates(repo) \ DOMAIN before : Joins(before, x)} |-> NearestWorkspace(repo, d)]
    IN  resolved[Cardinality(Crates(repo))]

-----------------------------------------------------------------------------
(* discover.ts                                                             *)

DiscoverCrates(repo) ==
    LET At(root, lockDir) == [root |-> root, lockfile |-> IF lockDir \in DOMAIN repo.locks THEN lockDir ELSE None]
        Under(workspaces) == [d \in Crates(repo) |-> IF d \in DOMAIN workspaces THEN At(workspaces[d], workspaces[d]) ELSE At(None, d)]
    IN  Under(ResolveWorkspaces(repo))

-----------------------------------------------------------------------------
(* manifest.ts                                                             *)

\* Members may make an inherited entry optional; all else is the workspace's.
Entry(key, value, inherited) ==
    IF value = None \/ ~value.inherits THEN value
    ELSE IF key \notin DOMAIN inherited THEN None
    ELSE [inherited[key] EXCEPT !.optional = IF value.optional = None THEN @ ELSE value.optional]
\* None for an entry that says too little to be used.
Interpret(key, value, inherited) ==
    LET entry == Entry(key, value, inherited) IN
    IF entry = None THEN None
    ELSE IF entry.version = None /\ entry.path = None THEN None
    ELSE [key |-> key, name |-> IF entry.package = None THEN key ELSE entry.package, constraint |-> entry.version, optional |-> entry.optional = TRUE]

\* An item of a feature is [form, key]: "dep" for dep:key, "with" for key/feature, "weak" for key?/feature, "bare".
Enables(document, optionalKeys, item) ==
    /\ item.key \in optionalKeys
    /\ item.form \in {"dep", "with"} \/ (item.form = "bare" /\ item.key \notin DOMAIN document.features)
\* An optional dependency is a feature of its own name unless dep: hides it or a feature has the name.
Implicit(document, key) ==
    /\ key \notin DOMAIN document.features
    /\ \A f \in DOMAIN document.features : \A i \in document.features[f] : i.form = "dep" => i.key # key
\* The features that turn it on themselves, and those that list one of these.
FeatureGates(document, optionalKeys) ==
    LET features == document.features
        first == [k \in optionalKeys |-> {f \in DOMAIN features : \E i \in features[f] : i.key = k /\ Enables(document, optionalKeys, i)}
                                           \cup (IF Implicit(document, k) THEN {k} ELSE {})]
        Parents(gate) == {f \in DOMAIN features : \E i \in features[f] : i.form = "bare" /\ i.key = gate}
        grown[n \in 0..Cardinality(DOMAIN features)] ==
          IF n = 0 THEN first ELSE LET before == grown[n - 1] IN [k \in optionalKeys |-> before[k] \cup UNION {Parents(g) : g \in before[k]}]
    IN  grown[Cardinality(DOMAIN features)]

\* Of entries with one name, kind and target the first is kept; any of them is here.
ParseCargoManifest(m, inherited) ==
    LET Kind(e, declared) == IF declared.optional /\ e.kind = "runtime" THEN "optional" ELSE e.kind
        parsed == {[entry |-> e, declared |-> Interpret(e.key, e.value, inherited)] : e \in m.tables}
        usable == {p \in parsed : p.declared # None}
        optionalKeys == {p.declared.key : p \in {x \in usable : x.declared.optional /\ x.entry.kind # "dev"}}
        gates == FeatureGates(m, optionalKeys)
    IN  [dependencies |-> {[name |-> p.declared.name, kind |-> Kind(p.entry, p.declared), target |-> p.entry.target] : p \in usable},
         gated |-> {[name |-> p.declared.name, features |-> gates[p.declared.key]] : p \in {x \in usable : x.declared.key \in optionalKeys /\ x.entry.kind # "dev"}},
         errors |-> {p.entry.key : p \in parsed \ usable}]
Inherited(repo, root) == IF root = None THEN [k \in {} |-> None] ELSE WorkspaceTable(repo.manifests[root]).dependencies

-----------------------------------------------------------------------------
(* The graph of each crate from the Cargo.lock that governs it (rust         *)
(* adapter, lockfile.ts).  A lockfile is [failure, packages]; a package is   *)
(* [name, version, source, refs], version None for one that is malformed; a  *)
(* reference is [name, version, source], None where Cargo leaves it out.     *)
CrateEvidence(kind, about) == [kind |-> kind, about |-> about]
ParseCargoLock(lock) == {p \in lock.packages : p.version # None}
\* A reference that does not decide for one package is none.
\* Slip: one of several is taken.
SlipResolveReference(ref, packages) ==
    LET candidates == {p \in packages : p.name = ref.name /\ ref.version \in {None, p.version} /\ ref.source \in {None, p.source}}
    IN  IF candidates = {} THEN None ELSE CHOOSE p \in candidates : TRUE
ResolveReference(ref, packages) ==
    LET candidates == {p \in packages : p.name = ref.name /\ ref.version \in {None, p.version} /\ ref.source \in {None, p.source}}
    IN  IF Cardinality(candidates) = 1 THEN CHOOSE p \in candidates : TRUE ELSE None
NamesIn(packages) == {p.name : p \in packages}
IncompleteGraph == [nodes |-> {}, closure |-> [n \in {} |-> {}], incomplete |-> TRUE]

CrateGraph(crateName, packages, devOnlyDirect, declared) ==
    LET roots == {p \in packages : p.name = crateName /\ p.source = None}
        root == CHOOSE p \in roots : TRUE
        EdgesOf(p) == {ResolveReference(r, packages) : r \in p.refs} \ {None}
        Closure(start) ==
          LET reach[n \in 0..Cardinality(packages)] ==
                IF n = 0 THEN {start} ELSE LET before == reach[n - 1] IN before \cup UNION {EdgesOf(p) : p \in before}
          IN  reach[Cardinality(packages)]
        direct == EdgesOf(root)
        closure == [d \in direct |-> Closure(d)]
        all == UNION {closure[d] : d \in direct}
        nonDev == UNION {closure[d] : d \in {x \in direct : x.name \notin devOnlyDirect}}
        unresolved == \E p \in all \cup {root} : \E r \in p.refs : ResolveReference(r, packages) = None
        missing == declared \ NamesIn(direct)
    IN  IF Cardinality(roots) # 1
        THEN [graph |-> IncompleteGraph, evidence |-> {CrateEvidence("lockfile-missing-root", crateName)}]
        ELSE [evidence |-> (IF missing = {} THEN {} ELSE {CrateEvidence("lockfile-stale", crateName)})
                             \cup (IF unresolved THEN {CrateEvidence("lockfile-unresolved-reference", crateName)} ELSE {}),
              graph |-> [nodes |-> {[name |-> p.name, version |-> p.version, needs |-> NamesIn(EdgesOf(p)), dev |-> p \notin nonDev] : p \in all},
                         closure |-> [n \in NamesIn(direct) |-> NamesIn(UNION {closure[d] : d \in {x \in direct : x.name = n}}) \ {n}],
                         incomplete |-> unresolved \/ missing # {}]]

DeclaredNames(dependencies) ==
    [devOnly |-> {d.name : d \in {x \in dependencies : x.kind = "dev"}} \ {d.name : d \in {x \in dependencies : x.kind # "dev"}},
     all |-> {d.name : d \in dependencies}]
\* One lockfile is read once for all of its crates.
AnalyseCargoLock(repo, crates, dir) ==
    LET crate == crates[dir]
        lock == repo.locks[crate.lockfile]
        Nothing(evidence) == [graph |-> IncompleteGraph, evidence |-> evidence]
        Locked(names) == CrateGraph(repo.manifests[dir].package.name, ParseCargoLock(lock), names.devOnly, names.all)
    IN  IF dir \notin DOMAIN crates THEN Nothing({})
        ELSE IF repo.manifests[dir].package.name = None THEN Nothing({})
        ELSE IF crate.lockfile = None THEN Nothing({CrateEvidence("lockfile-missing", dir)})
        ELSE IF lock.failure # None THEN Nothing({CrateEvidence(lock.failure, crate.lockfile)})
        ELSE Locked(DeclaredNames(ParseCargoManifest(repo.manifests[dir], Inherited(repo, crate.root)).dependencies))
AnalyseCargoLocks(repo, dirs) ==
    LET Each(crates) == [d \in dirs |-> AnalyseCargoLock(repo, crates, d)] IN Each(DiscoverCrates(repo))

-----------------------------------------------------------------------------
(* The graph of a Python project from uv.lock, poetry.lock or Pipfile.lock   *)
(* (python adapter, lockfile.ts).  A lockfile is [failure, entries]; an      *)
(* entry is [name, version, source, needs, optional]: the names it needs,    *)
(* extras and groups with them, and those of them poetry calls optional; its *)
(* source is "registry", "member" for a local project of a uv workspace,     *)
(* "here" for the one beside the lockfile, "elsewhere" for a Pipfile entry   *)
(* that is not of a registry.  Version None is one that is not well formed.  *)

ProjectEvidence(kind, about) == [kind |-> kind, about |-> about]
EmptyPythonGraph == [nodes |-> {}, closure |-> [n \in {} |-> {}], incomplete |-> TRUE]

\* uv: the project's own entry is set aside, and every local project is a member.
ParseUvLock(entries) ==
    [packages |-> SelectSeq(entries, LAMBDA e : e.source # "here"), members |-> {e.name : e \in {x \in ToSet(entries) : x.source \in {"here", "member"}}},
     elsewhere |-> {}]
ParsePoetryLock(entries) == [packages |-> entries, members |-> {}, elsewhere |-> {}]
\* Pipfile.lock has no edges; one entry that is neither pinned nor from elsewhere spoils it.
ParsePipfileLock(entries) ==
    [packages |-> SelectSeq(entries, LAMBDA e : e.source # "elsewhere"), members |-> {},
     elsewhere |-> {e.name : e \in {x \in ToSet(entries) : x.source = "elsewhere"}}]
Malformed(kind, entries) == kind = "pipenv" /\ \E e \in ToSet(entries) : e.version = None /\ e.source # "elsewhere"
Parse(kind, entries) == CASE kind = "uv" -> ParseUvLock(entries) [] kind = "pipenv" -> ParsePipfileLock(entries) [] OTHER -> ParsePoetryLock(entries)

ByName(packages) ==
    [n \in {p.name : p \in ToSet(packages)} |->
       packages[CHOOSE i \in DOMAIN packages : packages[i].name = n /\ \A j \in (i + 1)..Len(packages) : packages[j].name # n]]
NeedsIn(byName, n) == IF n \in DOMAIN byName THEN byName[n].needs ELSE {}
\* Slip: what is needed by what is needed is left out.
SlipClosureOf(start, byName) == NeedsIn(byName, start) \ {start}
\* Names without an entry are in it, and lead nowhere.
ClosureOf(start, byName) ==
    LET reach[k \in 0..(Cardinality(DOMAIN byName) + 1)] ==
          IF k = 0 THEN {start} ELSE LET before == reach[k - 1] IN before \cup UNION {NeedsIn(byName, n) : n \in before}
    IN  reach[Cardinality(DOMAIN byName) + 1] \ {start}

\* The project's own lockfile, for uv else the nearest above; uv before poetry before pipenv.
LockfileOf(repo, dir) ==
    LET At(n, file) == [dir |-> SubSeq(dir, 1, n), file |-> file]
        depths == {n \in 0..Len(dir) : At(n, "uv.lock") \in DOMAIN repo}
        Own(file) == At(Len(dir), file)
    IN  IF depths # {} THEN At(CHOOSE n \in depths : \A m \in depths : m <= n, "uv.lock")
        ELSE IF Own("poetry.lock") \in DOMAIN repo THEN Own("poetry.lock")
        ELSE IF Own("Pipfile.lock") \in DOMAIN repo THEN Own("Pipfile.lock") ELSE None
KindOf(file) == CASE file = "uv.lock" -> "uv" [] file = "poetry.lock" -> "poetry" [] OTHER -> "pipenv"

PipfileGraph(parsed, direct) ==
    LET byName == ByName(parsed.packages)
        names == {d.name : d \in direct}
        missing == {d \in direct : d.name \notin DOMAIN byName /\ d.kind # "build"}
        unused == DOMAIN byName \ names
    IN  [graph |-> [nodes |-> {[name |-> d.name, version |-> byName[d.name].version, needs |-> {}, dev |-> d.kind = "dev"] : d \in {x \in direct : x.name \in DOMAIN byName}},
                    closure |-> [n \in {} |-> {}], incomplete |-> TRUE],
         evidence |-> {ProjectEvidence("graph-edges-unavailable", None)}
                        \cup (IF parsed.elsewhere = {} THEN {} ELSE {ProjectEvidence("lockfile-nonregistry", parsed.elsewhere)})
                        \cup (IF missing = {} THEN {} ELSE {ProjectEvidence("lockfile-mismatch", {d.name : d \in missing})})
                        \cup (IF unused = {} THEN {} ELSE {ProjectEvidence("lockfile-unreachable", unused)})]
Unlocked(byName, members, reach) ==
    UNION {{d \in byName[n].needs : d \notin DOMAIN byName \cup members \cup byName[n].optional} : n \in reach \cap DOMAIN byName}
NamedGraph(parsed, direct) ==
    LET packages == parsed.packages
        byName == ByName(packages)
        Reach(deps) == UNION {{d.name} \cup ClosureOf(d.name, byName) : d \in deps}
        runtime == Reach({d \in direct : d.kind # "dev"})
        all == Reach(direct)
        forks == {n \in DOMAIN byName : \E i, j \in DOMAIN packages : i # j /\ packages[i].name = n /\ packages[j].name = n}
        missing == {d.name : d \in {x \in direct : x.name \notin DOMAIN byName /\ x.kind # "build"}}
        unlocked == Unlocked(byName, parsed.members, all)
        About(kind, names) == IF names = {} THEN {} ELSE {ProjectEvidence(kind, names)}
    IN  [graph |-> [nodes |-> {[name |-> p.name, version |-> p.version, needs |-> p.needs \ parsed.members, dev |-> p.name \notin runtime] :
                                 p \in {x \in ToSet(packages) : x.name \in all \ parsed.members}},
                    closure |-> [n \in {d.name : d \in direct} \cap DOMAIN byName |-> ClosureOf(n, byName) \ parsed.members],
                    incomplete |-> missing # {} \/ forks # {} \/ unlocked # {}],
         evidence |-> About("lockfile-resolution-fork", forks) \cup About("lockfile-unlocked-reachable", unlocked) \cup About("lockfile-mismatch", missing)]

BuildProjectGraph(repo, dir, direct) ==
    LET at == LockfileOf(repo, dir)
        lock == repo[at]
        kind == KindOf(at.file)
        inherited == IF at.dir = dir THEN {} ELSE {ProjectEvidence("lockfile-inherited", at.dir)}
        parsed == Parse(kind, lock.entries)
        built == IF kind = "pipenv" THEN PipfileGraph(parsed, direct) ELSE NamedGraph(parsed, direct)
        Nothing(evidence) == [graph |-> EmptyPythonGraph, evidence |-> evidence]
    IN  IF at = None THEN Nothing({ProjectEvidence("lockfile-missing", dir)})
        ELSE IF lock.failure # None THEN Nothing(inherited \cup {ProjectEvidence(lock.failure, at)})
        ELSE IF Malformed(kind, lock.entries) THEN Nothing(inherited \cup {ProjectEvidence("lockfile-malformed", at)})
        ELSE [built EXCEPT !.evidence = @ \cup inherited]
=============================================================================
