----------------------------- MODULE MCResults ------------------------------
(* A small repository with two ecosystems, what adapters and the scan lose   *)
(* of it, and what is made of the rest: findings, a check run, an exit code. *)
EXTENDS ResultAssembly, Reporting, ResultFacts, NativeEnvelope, AnalysisResponse, Calls, TLC

JS == "javascript-typescript"
PY == "python"

-----------------------------------------------------------------------------
(* The repository: what it declares and what really uses it                *)

Dep(ecosystem, name, kind) ==
    [ecosystem |-> ecosystem, project |-> "p", name |-> name, kind |-> kind, registry |-> TRUE,
     manifest |-> ecosystem, located |-> TRUE]
Use(name, via) == [name |-> name, path |-> <<"src", name>>, via |-> via, typeOnly |-> FALSE, removed |-> FALSE]

Declared == {Dep(JS, "host", "runtime"), Dep(PY, "Req", "runtime")}
Uses == {Use("lib", "import"), Use("lib", "script"), Use("Req", "import")}
\* The lockfile: what the host needs of the library.
Needs == {"nothing", "package", "peer", "unresolved"}
GraphOf(needs) ==
    LET To(kind) == ("host" :> IF needs = kind THEN {"lib"} ELSE {})
    IN  [ecosystem |-> JS, project |-> "p", closure |-> To("package"), peers |-> To("peer"), unresolved |-> To("unresolved")]

-----------------------------------------------------------------------------
(* What an adapter reports of it                                           *)

Failure == Note("adapter-failure")
Sneaky  == Marked(Failure, "adapterNote")
Verdict(name) == Marked(Finding("unused", "theirs", name, "high"), "awareness")
Losses == {"none", "usage cut", "no references", "failed", "not detected"}

Outcome(ecosystem, dependencies, usages, graphs, loss, failure) ==
    LET there == loss \notin {"failed", "not detected"}
        If(condition, set) == IF condition THEN set ELSE {}
    IN  [ecosystem |-> ecosystem, detected |-> there, dependencies |-> If(there, dependencies), usages |-> If(there, usages),
         graphs |-> If(there, graphs), usageAnalysed |-> there /\ loss # "usage cut",
         referenceAnalysed |-> there /\ loss # "no references", usageIncomplete |-> loss = "usage cut",
         findings |-> If(loss \in {"usage cut", "failed"}, {failure}), notes |-> {}, malformed |-> {},
         adapterNotes |-> If(there, {[dependency |-> None, statement |-> "edges"], [dependency |-> "gone", statement |-> "x"]})]

Quiet == [disabled |-> {}, downgrade |-> <<>>, allowlist |-> <<>>]
Configs == {Quiet, [Quiet EXCEPT !.disabled = {"unverified-no-imports", DuplicatesRule}],
            [Quiet EXCEPT !.downgrade = "unused" :> "low"], [Quiet EXCEPT !.allowlist = JS :> [exact |-> {}, prefixes |-> {"li"}]]}
Added == [ecosystem |-> JS, name |-> "lib", manifest |-> JS, change |-> "added"]
Moved == [Added EXCEPT !.manifest = "elsewhere"]

\* A run: the truth, what is seen of it, and who else has a say.
Reports ==
    [kind : {"runtime", "peer"}, uses : SUBSET Uses, needs : Needs, loss : Losses, unseen : SUBSET Uses, scan : {"whole", "cut"},
     changes : {None}, config : {Quiet}, policy : {"default"}, malformed : {{}}, native : {{}}, notes : {{}}]
  \cup
    [kind : {"runtime"}, uses : SUBSET {Use("lib", "script")}, needs : {"nothing"}, loss : Losses, unseen : {{}}, scan : {"whole", "cut"},
     changes : {None, {}, {Added}, {Moved}}, config : Configs, policy : {"default", "throws", "bad", "theirs"},
     malformed : SUBSET {"m1", "m2", "m3"}, native : {{}, {[dependency |-> "lib", status |-> "blocked"]}}, notes : {{}, {"skipped"}}]
\* Nothing is missed by a scan of everything that was not cut short.
Possible(c) == (c.scan = "whole" /\ c.loss # "usage cut") => c.unseen = {}

Seen(c) == c.uses \ c.unseen
OutcomesOf(c) ==
    LET lib == Dep(JS, "lib", c.kind)
    IN  {[Outcome(JS, {Dep(JS, "host", "runtime"), lib}, {Use("host", "import")} \cup {u \in Seen(c) : u.name = "lib"},
                  {GraphOf(c.needs)}, c.loss, Sneaky) EXCEPT !.malformed = c.malformed],
         Outcome(PY, {Dep(PY, "Req", "runtime")}, {u \in Seen(c) : u.name = "Req"}, {}, "none", Failure)}
ContextOf(c) ==
    [incomplete |-> FALSE, excluded |-> FALSE, notes |-> IF c.scan = "cut" THEN {Note("scan-truncated")} ELSE {},
     engineNotes |-> {}, config |-> c.config, limited |-> FALSE]
ProposalOf(c) ==
    CASE c.policy \in {"default", "throws"} -> None
      [] c.policy = "bad"    -> {[Verdict("lib") EXCEPT !.plain = FALSE]}
      [] c.policy = "theirs" -> {Verdict("lib"), [Verdict("host") EXCEPT !.kind = "potentially-unnecessary"]}
AnalysisOf(c) ==
    [outcomes |-> OutcomesOf(c), context |-> ContextOf(c), changes |-> c.changes, default |-> c.policy = "default", proposed |-> ProposalOf(c),
     native |-> c.native, added |-> {JS}, notes |-> c.notes, uses |-> {u.name : u \in c.uses},
     needs |-> IF c.needs = "nothing" THEN {} ELSE {[ecosystem |-> JS, project |-> "p", host |-> "host", name |-> "lib"]}]
SomeAnalyses == {AnalysisOf(c) : c \in {r \in Reports : Possible(r)}}

-----------------------------------------------------------------------------
(* A result on its way to a check run of the action                        *)

Row(n) == [Stamped(Finding("unused", "unused", n, "high")) EXCEPT !.file = n]
Results == [findings : SUBSET {Row("a"), Row("b"), Row("c"), Stamped(Note("x"))}, excluded : BOOLEAN, native : {{}, {[dependency |-> "lib", status |-> "blocked"]}}]
Outputs == {[kind |-> "error"], [kind |-> "unreadable"]} \cup [kind : {"result"}, sound : BOOLEAN, result : Results]
File(name, added) == [name |-> name, added |-> added]
PullRequests ==
    {None} \cup [fork : BOOLEAN, files : {<<>>, <<File("a", TRUE), File("b", TRUE), File("c", TRUE)>>,
                                         <<File("x", FALSE), File("y", FALSE), File("a", TRUE), File("b", TRUE)>>}]
SomePosts == [output : Outputs, pr : PullRequests, listing : BOOLEAN]

-----------------------------------------------------------------------------
(* An invocation of the command line                                       *)

Word(text) == [text |-> text, path |-> text \in {".", "--"}]
Flag(flag) == [flag |-> flag]
Option(flag, value) == [flag |-> flag, value |-> value]
Arguments ==
    {Word("scan"), Word("fix"), Word("graph"), Word("help"), Word("."), Word("high"), Word("--"), Flag("json"), Flag("help"), Flag("bogus"),
     Option("fail-on", "medium"), Option("fail-on", "bad"), Option("fail-on", None), Option("severity", "high"), Option("disable-rule", "native"),
     Option("downgrade", <<"native", "low">>), Option("downgrade", <<"native", "medium">>), Flag("version"),
     Option("fixture-roots", "roots")}
NativeFinding == Finding("potentially-unnecessary", "native", "lib", "high")
Duplicate == Stamped(Marked(Finding("unused", "unused", "lib", "high"), "awareness"))
Lines(n) == [1..n -> Arguments]
SomeCommandLines ==
    [argv : UNION {Lines(n) : n \in 0..3}, engine : {None, {}, {Stamped(Finding("should-be-dev", "should-be-dev", "lib", "high"))}},
     native : {{}}, preview : {TRUE}]
      \cup [argv : {<<Option("fail-on", "low")>> \o rest : rest \in UNION {Lines(n) : n \in 0..2}},
            engine : SUBSET {Duplicate, Stamped(Note("x"))}, native : SUBSET {NativeFinding}, preview : BOOLEAN]

-----------------------------------------------------------------------------
(* Lockfiles of a few packages, what an adapter reports of them, and what    *)
(* metadata providers answer. A lockfile gives for each locked version the   *)
(* versions it needs.                                                        *)

Id(name, version) == <<name, version>>
Locks1 ==
    {(Id("a", 1) :> a) @@ (Id("b", 1) :> b) @@ (Id("x", 1) :> x) @@ (Id("x", 2) :> {}) @@ (Id("y", 1) :> {})
        : a \in SUBSET {Id("x", 1), Id("x", 2), Id("b", 1)}, b \in SUBSET {Id("x", 1), Id("y", 1)}, x \in SUBSET {Id("y", 1)}}
Reach(lock, from) ==
    LET step[n \in 0..3] == IF n = 0 THEN from ELSE step[n - 1] \cup UNION {lock[id] : id \in step[n - 1]}
    IN  step[3]
NamesIn(ids) == {id[1] : id \in ids}

\* A declaration and the version the lockfile installs for it, None when none.
Declared1 == [ecosystem : {"js"}, project : {"p"}, name : {"a"}, registry : {TRUE}, alias : {FALSE}, root : {Id("a", 1)}]
Declared2 ==
    {[ecosystem |-> "js", project |-> "p", name |-> n, registry |-> r, alias |-> n = "c", root |-> IF n = "z" THEN None ELSE Id("b", 1)]
        : n \in {"b", "B", "c", "z"}, r \in BOOLEAN}

\* What an adapter reports: closures of the names it finds, perhaps not all.
LockedGraph(lock, declared, missing, project) ==
    LET roots == {d.root : d \in declared} \ {None}
        ids == {id \in Reach(lock, roots) : id[1] \notin missing}
        found == {d \in declared : d.root # None /\ d.root[1] = d.name}
    IN  [ecosystem |-> "js", project |-> project, incomplete |-> missing # {},
         nodes |-> {[name |-> id[1], version |-> id[2], needs |-> NamesIn(lock[id]), dev |-> FALSE, origin |-> "npm"] : id \in ids},
         closure |-> [n \in {d.name : d \in found} |-> NamesIn(Reach(lock, lock[Id(n, 1)])) \ (missing \cup {n})]]

Sized == {{}, {Id("a", 1)}, {Id("a", 1), Id("x", 1)}, {Id("a", 1), Id("x", 2), Id("y", 1)}, DOMAIN [id \in {Id("a", 1), Id("b", 1), Id("x", 1), Id("x", 2), Id("y", 1)} |-> 0]}
TrueSize(id) == IF id = Id("x", 1) THEN 7 ELSE IF id = Id("x", 2) THEN 2 ELSE 3
Provider(sized) == SetToSeq({[ref |-> [name |-> id[1], version |-> id[2]], bytes |-> TrueSize(id)] : id \in sized \cup {Id("y", 9)}})

ImpactCalls == [lock : Locks1, other : Declared2, missing : {{}, {"y"}, {"a", "b", "x", "y"}}, both : BOOLEAN, sized : Sized]
DeclaredBy(c) == Declared1 \cup {c.other}
ImpactAnswer(c) ==
    LET g == LockedGraph(c.lock, DeclaredBy(c), c.missing, "p")
        graphs == {g} \cup (IF c.both THEN {[g EXCEPT !.project = "q"]} ELSE {})
        deps == DeclaredBy(c) \cup {[d EXCEPT !.project = "q"] : d \in DeclaredBy(c)}
        impact == ComputeImpact(graphs, deps, << <<"js", "p">>, <<"js", "q">> >>)
    IN  [impact |-> impact, rows |-> AddFootprints(impact.rows, graphs, "js" :> IF c.sized = {} THEN None ELSE Provider(c.sized)),
         complete |-> GraphCompleteness({<<"js", "p">>, <<"js", "q">>}, graphs)]
Impact == Answering("impact", ImpactAnswer(call.with))

-----------------------------------------------------------------------------
(* Versions locked for a name, and the statements of a registry            *)

Ref(version, origin) == [name |-> "a", version |-> version, origin |-> origin]
Fact(value, kind) == [value |-> value, basis |-> "named", kind |-> kind]
Silent == [deprecated |-> None, archived |-> None, published |-> None]
Statement(ref, facts) == [ref |-> ref, facts |-> facts]
Deprecated == [Silent EXCEPT !.deprecated = Fact("true", "registry")]
Archived == [Silent EXCEPT !.archived = Fact("true", "repository-host")]
Statements == {Statement(Ref(1, "npm"), Deprecated), Statement(Ref(1, "npm"), Archived),
               Statement(Ref(1, "mirror"), Deprecated), Statement(Ref(2, "npm"), Archived)}
FactsOf(values, kinds) == {None} \cup [value : values, basis : {"named", "", "overlong"}, kind : kinds]
Flags == {"true", "false"}
Sources == {"registry", "repository-host"}
HealthCalls ==
    [locked : (SUBSET {Ref(1, "npm"), Ref(1, None), Ref(2, "npm"), Ref(1, "mirror")}) \ {{}},
     answer : {None} \cup UNION {[1..n -> Statements] : n \in 0..3}, registry : BOOLEAN]
    \cup
    [locked : {{Ref(1, "npm")}}, registry : {TRUE},
     answer : {<<Statement(Ref(1, "npm"), facts)>>
                   : facts \in [deprecated : FactsOf(Flags, {"registry"}), archived : FactsOf(Flags, Sources),
                                published : FactsOf({"date", "text"}, {"registry"})]}]
HealthAnswer(c) ==
    HealthFindings({[ecosystem |-> "js", project |-> "p", name |-> "a", registry |-> c.registry]},
        {[ecosystem |-> "js", project |-> "p", nodes |-> {r @@ [needs |-> {}, dev |-> FALSE] : r \in c.locked}]}, "js" :> c.answer)
Health == Answering("health", HealthAnswer(call.with))

-----------------------------------------------------------------------------
(* Two lockfiles merged, and projects in a tree                            *)

NodesOf(p) == SUBSET {[name |-> n, version |-> 1, needs |-> {}, dev |-> d] : n \in {"a", "x", "y"}, d \in {p = "q"}}
UnifyCalls == [p : NodesOf("p"), q : NodesOf("q"), direct : SUBSET {<<"p", "a">>, <<"p", "y">>, <<"q", "y">>}, limit : 0..3, apart : BOOLEAN]
UnifyAnswer(c) ==
    LET E(p) == IF c.apart /\ p = "q" THEN "python" ELSE "js"
    IN  BuildUnifiedGraph({[ecosystem |-> E("p"), project |-> "p", nodes |-> c.p], [ecosystem |-> E("q"), project |-> "q", nodes |-> c.q]},
                          {[ecosystem |-> E(d[1]), project |-> d[1], name |-> d[2]] : d \in c.direct}, c.limit)
Unify == Answering("unify", UnifyAnswer(call.with))

TreePaths == {<<".">>, <<".", "a">>, <<"a", "">>, <<"a">>, <<"a", "b">>, <<"a", "b", "c">>, <<"ab">>}
TreeCalls == [projects : {s \in SUBSET [ecosystem : {"js", "python"}, path : TreePaths] : Cardinality(s) <= 3}]
Tree == Answering("tree", BuildProjectTree(call.with.projects))

-----------------------------------------------------------------------------
(* A manifest with three dependencies, the lockfile npm writes for it, and   *)
(* what either can have that stands in the way of removing "x": a package    *)
(* that refers to it, a second place, a need of its own, a root that has     *)
(* drifted, an older section that says something else, a foreign npm.        *)

ToAll(keys, value) == [k \in keys |-> value]
LockEntry(needs, section) == [version |-> "1", origin |-> "r"] @@ (IF needs = {} THEN <<>> ELSE section :> ToAll(needs, "^1"))
RemovalCases ==
    [by : {"none", "w", "z"}, in : {"dependencies", "optionalDependencies", "peerDependencies"}, nested : BOOLEAN, needs : BOOLEAN,
     drift : {"no", "range", "missing"}, legacy : {"due", "undue", "requires", "other"}, npm : {6, 8, 9}, version : {2, 3},
     odd : {"no", "marker", "alias", "twice", "workspaces", "unsafe", "malformed"}]
RuntimeNeeds(c) == "dependencies" :> (("x" :> (IF c.odd = "alias" THEN "npm:q" ELSE "^1")) @@ ("y" :> "^1"))
DevNeeds(c, z) == "devDependencies" :> (z @@ (IF c.odd = "twice" THEN "x" :> "^1" ELSE <<>>))
RemovalManifest(c) ==
    [name |-> "own", version |-> "0", npm |-> c.npm] @@ RuntimeNeeds(c) @@ DevNeeds(c, "z" :> "^1")
      @@ (IF c.odd = "workspaces" THEN [workspaces |-> "w"] ELSE <<>>)
LockedPackages(c) ==
    LET Refers(n) == LockEntry(IF c.by = n THEN {"x"} ELSE {}, c.in)
        locked == IF c.drift = "missing" THEN <<>> ELSE "z" :> (IF c.drift = "range" THEN "^2" ELSE "^1")
    IN  (<<>> :> ([name |-> "own", version |-> "0"] @@ RuntimeNeeds(c) @@ DevNeeds(c, locked)))
          @@ (<<"x">> :> LockEntry(IF c.needs THEN {"w"} ELSE {}, "dependencies")) @@ (<<"y">> :> LockEntry({"w"}, "dependencies"))
          @@ (<<"w">> :> Refers("w")) @@ (<<"z">> :> IF c.odd = "malformed" THEN [version |-> "1", origin |-> "r", dependencies |-> None] ELSE Refers("z"))
          @@ (IF c.nested THEN <<"y", "x">> :> LockEntry({}, "dependencies") ELSE <<>>)
RemovalLock(c) ==
    LET Older(n) == [version |-> IF n = "z" /\ c.legacy = "other" THEN "2" ELSE "1", origin |-> "r"]
                      @@ (IF n = "w" /\ c.legacy = "requires" THEN "requires" :> ("x" :> "^1") ELSE <<>>)
    IN  [name |-> "own", version |-> "0", lockfileVersion |-> c.version, packages |-> LockedPackages(c)]
          @@ (IF (c.legacy = "undue") = (c.version = 3) THEN [legacy |-> [n \in {"x", "y", "w", "z"} |-> Older(n)]] ELSE <<>>)
RemovalOf(c) ==
    [paths |-> {"package.json", "package-lock.json", "a.ts"} \cup (IF c.odd = "marker" THEN {"yarn.lock"} ELSE {}),
     manifest |-> [plain |-> c.odd # "unsafe", value |-> RemovalManifest(c)], lock |-> [plain |-> TRUE, value |-> RemovalLock(c)], name |-> "x"]
SomeRemovals == {RemovalOf(c) : c \in RemovalCases}
OrdinaryRemovals ==
    {RemovalOf(c) : c \in {r \in RemovalCases : /\ r.by = "none" /\ ~r.nested /\ ~r.needs /\ r.drift = "no" /\ r.odd = "no"
                                                /\ <<r.npm, r.version>> \in {<<8, 2>>, <<9, 3>>} /\ r.legacy = "due"}}

FactsInit == \/ Calling("impact", ImpactCalls) \/ Calling("health", HealthCalls) \/ Calling("unify", UnifyCalls) \/ Calling("tree", TreeCalls)
FactsNext == Impact \/ Health \/ Unify \/ Tree

-----------------------------------------------------------------------------
(* Properties                                                              *)

ImpactIsTrue(c) ==
    LET declared == DeclaredBy(c)
        Roots(set) == {d.root : d \in set} \ {None}
        names == {d.name : d \in declared}
        Brought(d) == NamesIn(Reach(c.lock, c.lock[d.root])) \ {d.root[1]}
        Dropped(d) == (NamesIn(Reach(c.lock, Roots(declared))) \ NamesIn(Reach(c.lock, Roots(declared \ {d})))) \ {d.root[1]}
        whole == c.missing = {} /\ c.other.name = "b" /\ c.other.registry
    IN  \A row \in result.rows : \E d \in declared : row.name = d.name /\
          /\ row.transitive # None =>
               IF row.graph = "complete" THEN row.transitive = Cardinality(Brought(d)) ELSE row.transitive <= Cardinality(Brought(d))
          /\ row.exclusive # None => row.exclusive = Cardinality(Dropped(d))
          /\ whole /\ row.project = "p" /\ ~row.limited => row.exclusive # None
          /\ row.limited => result.impact.limited /\ row.exclusive = None
          /\ row.footprint # None =>
               /\ row.footprint.bytes <= MapThenSumSet(TrueSize, Reach(c.lock, {d.root}))
               /\ row.footprint.sized <= row.footprint.total
          /\ row.graph = "complete" => c.missing = {} /\ (row.project = "q" => c.both)

\* What a result states beside its verdicts is true of the repository: what a
\* dependency brings in and what its removal would drop, counted only where
\* the graph tells; a size no install is below; a registry's statement about
\* the one version that is locked, made once; a cut graph that keeps what the
\* user declared; each project under the nearest one that encloses it; and a
\* removal that nothing stands in the way of is previewed (impact.ts:29-162,
\* footprint.ts:28-137, health.ts:88-170, unified-graph.ts:31-114,
\* project-tree.ts:36-63, fix-preview.ts:193-372).
DerivedFactsAreTrue ==
    /\ Answered("removal") /\ call.with \in OrdinaryRemovals => result # None
    /\ Answered("impact") => ImpactIsTrue(call.with)
    /\ Answered("health") =>
         \A f \in result :
             /\ call.with.locked = {f.ref} /\ call.with.registry
             /\ Cardinality({i \in DOMAIN call.with.answer : call.with.answer[i].ref = f.ref}) = 1
             /\ \E s \in ToSet(call.with.answer) :
                   /\ s.ref = f.ref /\ f.signal.basis = "named"
                   /\ \E fact \in {s.facts.deprecated, s.facts.archived, s.facts.published} :
                         fact # None /\ fact.basis = "named" /\ fact.value \in {"true", "date"} /\ fact.kind = f.signal.kind
    /\ Answered("unify") =>
         LET all == BuildUnifiedGraph({[ecosystem |-> IF call.with.apart /\ p = "q" THEN "python" ELSE "js", project |-> p, nodes |-> IF p = "p" THEN call.with.p ELSE call.with.q] : p \in {"p", "q"}},
                                      {[ecosystem |-> IF call.with.apart /\ d[1] = "q" THEN "python" ELSE "js", project |-> d[1], name |-> d[2]] : d \in call.with.direct}, 99).nodes
         IN  /\ result.nodes \subseteq all /\ Cardinality(result.nodes) <= call.with.limit
             /\ result.truncated = (\E e \in result.ecosystems : e.emitted < e.nodes)
             /\ (\E n \in all \ result.nodes : n.directIn # {}) => \A n \in result.nodes : n.directIn # {}
             /\ ~result.truncated => \A n \in call.with.p \cup call.with.q : \E m \in result.nodes : m.id[2] = Position(NameOrder, n.name)
    /\ Answered("tree") =>
         \A n \in result :
             LET above == {m \in result : Len(m.path) < Len(n.path) /\ m.path = SubSeq(n.path, 1, Len(m.path))}
             IN  IF above = {} THEN n.parent = None
                 ELSE /\ n.parent \in {[ecosystem |-> m.ecosystem, path |-> m.path] : m \in above}
                      /\ \A m \in above : Len(m.path) <= Len(n.parent.path)

-----------------------------------------------------------------------------
(* Files of targets, manifests and evidence of a few uses.                   *)
Scalar(text) == [is |-> "scalar", text |-> text, plain |-> TRUE]
Object(members) == [is |-> "object", members |-> members]
Array(items) == [is |-> "array", items |-> items]
M(key, value) == [key |-> key, plain |-> TRUE, value |-> value]
Escaped(member) == [member EXCEPT !.plain = FALSE]

-----------------------------------------------------------------------------
(* ghostdeps.targets.json                                                  *)

Entry(id, runtime, version) == Object(<<M("id", Scalar(id)), M("runtime", Scalar(runtime)), M("minVersion", Scalar(version))>>)
GoodEntries == {Entry(id, r, v) : id \in {"a", "b"}, r \in {"node", "deno"}, v \in {"21", "20.9", "21.0.1", "14.2", "big", "^21"}}
OddEntries ==
    {Object(<<M("id", Scalar("a")), M("runtime", Scalar("node")), M("minVersion", Scalar("20.9")), M("minVersion", Scalar("21"))>>),
     Object(<<M("id", Scalar("a")), M("runtime", Scalar("node")), M("minVersion", Array(<<Scalar("21")>>))>>),
     Object(<<M("targets", Array(<<Entry("a", "node", "21")>>))>>), Scalar("a")}
TargetLists == {<<>>} \cup {<<e>> : e \in GoodEntries \cup OddEntries} \cup {<<e, f>> : e \in {Entry("a", "node", "21"), Entry("a", "node", "20.9")}, f \in GoodEntries \cup OddEntries}
                 \cup {<<Entry("a", "node", "21"), Entry("b", "node", "21"), Entry("c", "node", "21")>>}
Heads == {<<M("schemaVersion", Scalar("1")), M("complete", Scalar(c))>> : c \in {"true", "false"}}
TargetFiles ==
    LET lists(h) == {h \o <<M("targets", Array(l))>> : l \in TargetLists}
        odd == {h \o <<Escaped(M("targets", Array(l)))>> : h \in Heads, l \in TargetLists}
                 \cup {h \o <<M("targets", Array(<<Entry("a", "node", "20.9")>>)), M("targets", Array(<<Entry("a", "node", "21")>>))>> : h \in Heads}
                 \cup {h \o <<M("targets", Scalar("a"))>> : h \in Heads} \cup {<<M("targets", Array(<<Entry("a", "node", "21")>>))>>} \cup Heads
    IN  {Object(ms) : ms \in UNION {lists(h) : h \in Heads} \cup odd} \cup {Array(<<>>), None}
DeploymentCalls ==
    [rule : {AXIOS_FETCH_RULE, UUID_RANDOMUUID_RULE},
     file : [there : {TRUE}, readable : {TRUE}, small : {TRUE}, document : TargetFiles] \cup [there : BOOLEAN, readable : BOOLEAN, small : BOOLEAN, document : {None}]]
Deployment == Answering("deployment", DeploymentGate(call.with.rule, call.with.file))

-----------------------------------------------------------------------------
(* package.json                                                            *)

Direct == M("axios", Scalar("^1"))
SomeMembers == {Direct, Escaped(Direct), M("axios", Scalar("^0")), M("other", Scalar("^1")), M("nested", Object(<<Direct>>))}
Sections == {<<>>} \cup {<<m>> : m \in SomeMembers} \cup {<<m, n>> : m, n \in SomeMembers}
Tops ==
    LET deps(s) == M("dependencies", Object(s))
        small == {<<>>, <<Direct>>, <<M("other", Scalar("^1"))>>}
    IN  {<<deps(s)>> : s \in Sections} \cup {<<deps(s), deps(t)>> : s, t \in small}
          \cup {<<M("overrides", Object(<<deps(s)>>)), deps(t)>> : s, t \in small}
          \cup {<<deps(t), M("overrides", Object(<<deps(s)>>))>> : s, t \in small}
          \cup {<<M("overrides", Object(<<deps(s)>>))>> : s \in small}
          \cup {<<Escaped(deps(s))>> : s \in small} \cup {<<M("devDependencies", Object(s))>> : s \in small} \cup {<<M("dependencies", Scalar("axios"))>>}
Dependency == [name |-> "axios", constraint |-> "^1", kind |-> "runtime", ecosystem |-> "js"]
DeclarationCalls ==
    [dependency : {Dependency, [Dependency EXCEPT !.kind = "dev"], [Dependency EXCEPT !.kind = "other"], [Dependency EXCEPT !.constraint = None]},
     manifest : [listed : {TRUE}, document : {Object(t) : t \in Tops}] \cup [listed : BOOLEAN, document : {None, Array(<<>>)}]]
Declaring == Answering("declaration", <<Declaration(call.with.dependency, call.with.manifest)>>)

-----------------------------------------------------------------------------
(* Evidence of the uses a scan found, perhaps not all or some twice        *)

SmallRule == [AXIOS_FETCH_RULE EXCEPT !.incompatibleUses = {"create", "signal"}, !.semanticDifferences = <<"statuses", "cancellation">>]
MatchedLists == {<<>>, <<"u">>, <<"u", "v">>, <<"u", "u">>, <<"v">>}
Apis(uses, api) == [i \in DOMAIN uses |-> [use |-> uses[i], package |-> "axios", api |-> api]]
Good(rule, uses) == [i \in DOMAIN Pairs(rule, uses) |-> [use |-> Pairs(rule, uses)[i][1], difference |-> Pairs(rule, uses)[i][2], state |-> "inspected", sources |-> 1]]
SemanticLists(uses) ==
    LET whole == Good(SmallRule, uses)
    IN  {whole} \cup (IF whole = <<>> THEN {} ELSE
          {Tail(whole), [whole EXCEPT ![1] = whole[Len(whole)]], [whole EXCEPT ![1].state = "unknown"], [whole EXCEPT ![1].sources = 0], Append(whole, whole[1])})
Searching(pattern, state, complete) == [pattern |-> pattern, state |-> state, complete |-> complete]
PatternLists ==
    {<<Searching("create", s, c), Searching(p, "absent", TRUE)>> : s \in {"absent", "present"}, c \in BOOLEAN, p \in {"signal", "create"}}
      \cup {<<Searching("create", "absent", TRUE)>>, <<Searching("create", "absent", TRUE), Searching("signal", "absent", TRUE), Searching("signal", "absent", TRUE)>>}
TargetSets == {<<>>, <<[target |-> "a", runtime |-> "node", minimum |-> <<21, 0, 0>>]>>, <<[target |-> "a", runtime |-> "node", minimum |-> <<20, 9, 0>>]>>}
Pillars(c) ==
    LET Pillar(lineage) == [status |-> "pass", policy |-> "p", lineage |-> lineage]
    IN  [deployment |-> Pillar("none") @@ [targets |-> c.targets],
         matched |-> [status |-> c.pillar, policy |-> "p", lineage |-> c.lineage] @@ [apis |-> Apis(c.found, c.api)],
         incompatible |-> Pillar("core-reconstructed") @@ [checks |-> c.patterns],
         semantic |-> Pillar("core-reconstructed") @@ [checks |-> c.semantics]]
SealCalls ==
    UNION {[found : {f}, api : {"get"}, semantics : SemanticLists(f), patterns : PatternLists, targets : TargetSets, pillar : {"pass"},
            lineage : {"core-reconstructed"}, declared : {None, 3}, policies : {<<"p", "p", "p", "p">>}] : f \in MatchedLists}
      \cup [found : {<<"u">>}, api : {"get", "post"}, semantics : {Good(SmallRule, <<"u">>)}, patterns : {<<Searching("create", "absent", TRUE), Searching("signal", "absent", TRUE)>>},
            targets : TargetSets, pillar : {"pass", "blocked"}, lineage : {"core-reconstructed", "adapter-asserted"}, declared : {3}, policies : [1..4 -> {None, "p", "q"}]]
Concluded(rule, c) ==
    EvaluateNativePolicy(rule, Dependency,
        AssembleNativeEnvelope(rule, Dependency, Pillars(c), c.policies[1], c.declared, c.policies[2]), c.policies[3], c.policies[4])
Seal == Answering("seal", <<Concluded(SmallRule, call.with)>>)

\* A rule as it is, with evidence for all that is searched for and inspected.
RuleCalls == [rule : ToSet(JS_NATIVE_RULES), without : {None} \cup UNION {r.incompatibleUses : r \in ToSet(JS_NATIVE_RULES)}]
RuleEvidence(c) ==
    LET r == c.rule
        name == CHOOSE n \in r.packages : TRUE
        patterns == Listed(Searched(r) \ {c.without})
        differences == SelectSeq(r.semanticDifferences, LAMBDA d : Needed(r, d) # {})
        Pillar == [status |-> "pass", policy |-> "p", lineage |-> "core-reconstructed"]
    IN  [name |-> name,
         pillars |-> [deployment |-> Pillar @@ [targets |-> <<[target |-> "a", runtime |-> "node", minimum |-> <<22, 0, 0>>]>>],
                      matched |-> Pillar @@ [apis |-> <<[use |-> "u", package |-> name, api |-> CHOOSE a \in r.coveredApis : TRUE]>>],
                      incompatible |-> Pillar @@ [checks |-> [i \in DOMAIN patterns |-> Searching(patterns[i], "absent", TRUE)]],
                      semantic |-> Pillar @@ [checks |-> [i \in DOMAIN differences |-> [use |-> "u", difference |-> differences[i], state |-> "inspected", sources |-> 1]]]]]
RuleAnswer(c) ==
    LET e == RuleEvidence(c) d == [Dependency EXCEPT !.name = e.name]
    IN  EvaluateNativePolicy(c.rule, d, AssembleNativeEnvelope(c.rule, d, e.pillars, "p", 3, "p"), "p", "p")
OfRule == Answering("rule", <<RuleAnswer(call.with)>>)

NativeInit == \/ Calling("deployment", DeploymentCalls) \/ Calling("declaration", DeclarationCalls) \/ Calling("seal", SealCalls) \/ Calling("rule", RuleCalls)
NativeNext == Deployment \/ Declaring \/ Seal \/ OfRule

-----------------------------------------------------------------------------
(* Properties                                                              *)

\* The one value of a name of an object that has it once, as a reader sees it.
Once(object, key) == Cardinality({i \in DOMAIN object.members : object.members[i].key = key}) = 1
AtLeast(v, w) == v[1] > w[1] \/ (v[1] = w[1] /\ (v[2] > w[2] \/ (v[2] = w[2] /\ v[3] >= w[3])))

\* A finding is never made on evidence with a hole: every declared target has
\* the runtime the rule needs, the package is declared directly, once, with
\* the constraint that is cited, each use is inspected for each difference,
\* and each pattern that rules the replacement out was looked for
\* (deployment.ts:154-312, seal.ts:62-334, policy.ts:36-176).
NativeFindingIsProved ==
    /\ (Answered("deployment") /\ result.status = "pass") =>
         LET doc == call.with.file.document items == Member(doc, "targets").items
         IN  /\ Once(doc, "targets") /\ Once(doc, "complete") /\ Has(doc, "complete", "true")
             /\ Len(result.targets) = Len(items)
             /\ \A i \in DOMAIN items :
                  /\ Once(items[i], "minVersion") /\ Once(items[i], "runtime")
                  /\ \A j \in DOMAIN items : i # j => Member(items[i], "id") # Member(items[j], "id")
                  /\ LET f == FloorOf[Member(items[i], "minVersion").text]
                     IN  /\ f # None /\ Member(items[i], "runtime").text = "node"
                         /\ AtLeast(IF Len(f) = 2 THEN Append(f, 0) ELSE f, call.with.rule.minimumRuntime.node)
    /\ (Answered("declaration") /\ result[1] # None) =>
         LET doc == call.with.manifest.document section == Section(call.with.dependency.kind)
         IN  /\ Once(doc, section) /\ Once(Member(doc, section), "axios")
             /\ Has(Member(doc, section), "axios", "^1")
             /\ Tokens(doc)[result[1]].text = "axios" /\ Nesting(Tokens(doc), 1, result[1]) = 2
    /\ (Answered("seal") /\ result[1] # None) =>
         LET c == call.with
         IN  /\ c.found # <<>> /\ c.api = "get" /\ c.declared # None /\ c.pillar = "pass" /\ c.lineage = "core-reconstructed"
             /\ \A u \in ToSet(c.found), d \in ToSet(SmallRule.semanticDifferences) :
                  Cardinality({i \in DOMAIN c.semantics : c.semantics[i].use = u /\ c.semantics[i].difference = d /\ c.semantics[i].state = "inspected" /\ c.semantics[i].sources > 0}) = 1
             /\ \A p \in SmallRule.incompatibleUses : \A k \in ToSet(c.patterns) : k.pattern = p => k.state = "absent" /\ k.complete
             /\ SmallRule.incompatibleUses \subseteq {k.pattern : k \in ToSet(c.patterns)}
             /\ c.targets # <<>> /\ \A t \in ToSet(c.targets) : AtLeast(t.minimum, <<21, 0, 0>>)
             /\ c.policies = <<"p", "p", "p", "p">>
    /\ (Answered("rule") /\ result[1] # None) =>
         LET r == call.with.rule
         IN  /\ r.incompatibleUses \ {call.with.without} = DOMAIN r.patternKinds /\ call.with.without \notin r.incompatibleUses
             /\ \A d \in ToSet(r.semanticDifferences) : \E k \in FlowKinds : KindDifference(k, r) = d

-----------------------------------------------------------------------------
(* The documents a child may answer with.                                    *)
Str(n) == [type |-> "string", length |-> n]
Arr(items) == [type |-> "array", items |-> items]
Obj(keys, values) == [type |-> "object", fields |-> [i \in DOMAIN keys |-> [key |-> keys[i], value |-> values[i]]]]
Leaf == [type |-> "null"]
FramedResults == {Obj(<<>>, <<>>), Obj(<<"a">>, <<Str(2)>>), Obj(<<"a">>, <<Str(3)>>), Obj(<<"a">>, <<[type |-> "infinite"]>>), Leaf,
            Obj(<<"a", "b">>, <<Arr(<<Leaf, Leaf>>), Arr(<<Leaf, Leaf>>)>>), Obj(<<"a", "b">>, <<Arr(<<Leaf, Leaf>>), Arr(<<Leaf, Arr(<<>>)>>)>>),
            Obj(<<"a">>, <<Arr(<<Leaf, Leaf, Leaf>>)>>), Obj(<<"a", "b", "c">>, <<Leaf, Leaf, Leaf>>), Obj(<<"a", "constructor">>, <<Leaf, Leaf>>),
            Obj(<<"a">>, <<Arr(<<Arr(<<Leaf>>)>>)>>), Obj(<<"a">>, <<Arr(<<Arr(<<Arr(<<>>)>>)>>)>>)}
Whole == {"version", "jobId", "status", "result"}
Docs == {None} \cup {[keys |-> k, version |-> v, jobId |-> j, status |-> "complete", result |-> Obj(<<>>, <<>>)] :
                       k \in {Whole, Whole \cup {"more"}}, v \in {1, 2}, j \in {"this", "that"}}
               \cup {[keys |-> Whole, version |-> 1, jobId |-> "this", status |-> s, result |-> r] : s \in {"complete", "incomplete", "failed"}, r \in FramedResults}
FrameInit == Calling("frame", Docs)
FrameNext == Answering("frame", DecodeAnalysisFrame(call.with, "this"))

RECURSIVE Nodes(_), Height(_)
Below(v) == CASE v.type = "array" -> v.items [] v.type = "object" -> [i \in DOMAIN v.fields |-> v.fields[i].value] [] OTHER -> <<>>
Nodes(v) == FoldLeft(LAMBDA n, b : n + Nodes(b), 1, Below(v))
Height(v) == FoldLeft(LAMBDA n, b : IF Height(b) + 1 > n THEN Height(b) + 1 ELSE n, 0, Below(v))

\* An answer is taken only if it says what this job waits for and its result is
\* within the limits of the whole tree, which nothing smaller is refused for
\* (analysis-protocol.ts:76-115).
AnswerIsBounded ==
    Answered("frame") =>
        LET doc == call.with
            fits == doc # None /\ doc.keys = Whole /\ doc.version = 1 /\ doc.jobId = "this" /\ doc.status # "failed" /\ doc.result.type = "object"
            small == Nodes(doc.result) <= MaxNodes /\ Height(doc.result) <= MaxDepth
        IN  /\ result = None => fits /\ small
            /\ fits => (result = "RESULT_COMPLEXITY" => ~small) /\ (~small => result # None)

-----------------------------------------------------------------------------
Init == FactsInit \/ NativeInit \/ FrameInit
Next == FactsNext \/ NativeNext \/ FrameNext
=============================================================================
