---------------------------- MODULE MCLockfiles -----------------------------
(* Small installs, the lockfiles that record them, whole, stale or with      *)
(* entries lost, and the graphs that are built from them; version ranges and *)
(* workspace globs against what npm and pnpm mean by them.                   *)
EXTENDS LockfileGraph, EcosystemLocks, Calls, TLC

MCScopeOf(name) == IF name = "@s/b" THEN "@s" ELSE None
MCIgnoredSegments == {<<"n", "m">>}
MCBadScopes == {}

NoFn == [x \in {} |-> None]
Reg(origin) == [strict |-> TRUE, fragment |-> FALSE, origin |-> origin, path |-> [package |-> "c", plain |-> TRUE, tgz |-> TRUE]]
NoUrl == None
V(parts) == [parts |-> parts, build |-> ""]
Token(op, parts) == [op |-> op, parts |-> parts, build |-> ""]
Simple(op, parts) == <<[hyphen |-> FALSE, tokens |-> <<Token(op, parts)>>]>>
Caret1 == Simple("^", <<1>>)
Caret2 == Simple("^", <<2>>)
Fixed(names) == [i \in DOMAIN names |-> [name |-> names[i], constraint |-> Caret1, local |-> FALSE]]
NoGlobs == [declared |-> FALSE, globs |-> None]
Manifest(deps, dev) == [name |-> None, version |-> None, workspaces |-> NoGlobs, optional |-> <<>>, dependencies |-> Fixed(deps), dev |-> Fixed(dev)]
Repo(manifests, dir, file, doc) ==
    [manifests |-> manifests, listed |-> TRUE, npmrc |-> NoFn, pnpm |-> NoFn,
     locks |-> [k \in {[dir |-> dir, file |-> file]} |-> [failure |-> None, doc |-> doc]]]
Root == <<>>
M == << <<"m">> >>
N == << <<"n">> >>
Project(path, manager) == [path |-> path, managers |-> {manager}]
ManifestsAt(path, manifest) == [d \in {path} |-> manifest]

-----------------------------------------------------------------------------
(* What an install is: places or instances, each with its name, its version, *)
(* what it reaches and the required names it lacks.                          *)

\* What the members of a set bring, with all that this brings in turn.
Everything(brings, start) ==
    LET size == Cardinality(DOMAIN brings)
        after[n \in 0..size] == IF n = 0 THEN start ELSE LET S == after[n - 1] IN S \cup UNION {brings[x] : x \in S}
    IN  after[size]
\* The graph says what the install is, and that it is whole where it is.
IsTheInstall(answer, install, direct, stale) ==
    LET starts == {direct[n].at : n \in DOMAIN direct} \ {None}
        reaches == [x \in DOMAIN install |-> install[x].reaches]
        closures == [x \in starts |-> Everything(reaches, {x})]
        all == UNION {closures[x] : x \in starts}
        prod == UNION {closures[direct[n].at] : n \in {m \in DOMAIN direct : ~direct[m].dev /\ direct[m].at # None}}
        whole == ~stale /\ (\A n \in DOMAIN direct : direct[n].at # None) /\ (\A x \in all : install[x].lacks = {})
        Names(S) == {install[x].name : x \in S}
    IN  /\ answer # Failed
        /\ ~answer.graph.incomplete <=> whole
        /\ whole =>
             /\ DOMAIN answer.graph.closure = DOMAIN direct
             /\ \A n \in DOMAIN direct : answer.graph.closure[n] = Names(closures[direct[n].at] \ {direct[n].at}) \ {n}
             /\ {[name |-> x.name, version |-> x.version, dev |-> x.dev, needs |-> x.needs] : x \in answer.graph.nodes}
                  = {[name |-> install[x].name, version |-> install[x].version, dev |-> x \notin prod, needs |-> Names(install[x].reaches)] : x \in all}

\* Node's own lookup: the nearest node_modules on the way up that has the name.
Full(place) == place.dir \o FlattenSeq([i \in DOMAIN place.at |-> << <<"node_modules">>, <<place.at[i]>> >>])
NodeFinds(entries, from, name) ==
    LET hits == {k \in DOMAIN entries : k.at # <<>> /\ Last(k.at) = name /\ IsPrefix(SubSeq(Full(k), 1, Len(Full(k)) - 2), Full(from))}
        nearest == CHOOSE k \in hits : \A j \in hits : Len(Full(j)) <= Len(Full(k))
    IN  IF hits = {} THEN None ELSE IF entries[nearest].link # None THEN entries[nearest].link ELSE nearest

-----------------------------------------------------------------------------
(* npm                                                                     *)

Place(dir, at) == [dir |-> dir, at |-> at]
NpmEntry(name, version, deps, optional, link) ==
    [name |-> name, version |-> version, dependencies |-> deps, devDependencies |-> {}, optional |-> optional,
     peers |-> {}, link |-> link, resolved |-> NoUrl]
NpmPlaces ==
    (Place(Root, <<"a">>) :> NpmEntry(None, "1", {"b", "o"}, {"o"}, None)) @@
    (Place(Root, <<"b">>) :> NpmEntry(None, "1", {"c"}, {}, None)) @@
    (Place(Root, <<"a", "b">>) :> NpmEntry(None, "2", {}, {}, None)) @@
    (Place(Root, <<"c">>) :> NpmEntry(None, "1", {}, {}, None)) @@
    (Place(M, <<"b">>) :> NpmEntry(None, "3", {"n"}, {}, None)) @@
    (Place(N, <<"c">>) :> NpmEntry(None, "2", {}, {}, None)) @@
    (Place(Root, <<"n">>) :> NpmEntry(None, None, {}, {}, Place(N, <<>>)))
NpmMember == Place(N, <<>>) :> NpmEntry("n", "0", {"c"}, {}, None)
\* A link and what it leads to are written together, unless the run says otherwise.
NpmCalls(dangling) ==
    [kept : SUBSET (DOMAIN NpmPlaces \ {Place(Root, <<"a">>), Place(Root, <<"n">>)}), member : IF dangling THEN BOOLEAN ELSE {TRUE},
     path : {Root, M}, dev : {<<>>, <<"b">>}, stale : {"no", "added", "removed", "importer"}]
NpmRepo(c) ==
    LET entries == [k \in c.kept \cup {Place(Root, <<"a">>), Place(Root, <<"n">>)} |-> NpmPlaces[k]] @@ (IF c.member THEN NpmMember ELSE NoFn)
        listed == (CASE c.stale = "added" -> {"a", "z"} [] c.stale = "removed" -> {} [] OTHER -> {"a"}) \cup ToSet(c.dev)
        own == [NpmEntry("own", "0", listed \ ToSet(c.dev), {}, None) EXCEPT !.devDependencies = ToSet(c.dev)]
    IN  Repo(ManifestsAt(c.path, Manifest(<<"a">>, c.dev)), Root, "package-lock.json",
             [shape |-> "packages", entries |-> entries @@ (IF c.stale = "importer" THEN NoFn ELSE Place(c.path, <<>>) :> own)])
NpmInstall(entries) ==
    [k \in {x \in DOMAIN entries : entries[x].link = None} |->
        LET e == entries[k] Finds(n) == NodeFinds(entries, k, n) IN
        [name |-> IF e.name = None THEN Last(k.at) ELSE e.name, version |-> e.version,
         reaches |-> {Finds(n) : n \in e.dependencies} \ {None}, lacks |-> {n \in e.dependencies \ e.optional : Finds(n) = None}]]
NpmTrue(c, answer) ==
    LET entries == NpmRepo(c).locks[[dir |-> Root, file |-> "package-lock.json"]].doc.entries
        At(n, dev) == [at |-> NodeFinds(entries, Place(c.path, <<>>), n), dev |-> dev]
    IN  IsTheInstall(answer, NpmInstall(entries), ("a" :> At("a", FALSE)) @@ [n \in ToSet(c.dev) |-> At(n, TRUE)], c.stale # "no")

\* Version 1 and Bun record names only; what version 1 lacks it does not tell.
Tree(at) == CASE at = <<"a">> -> [deps |-> {"b", "o"}, v |-> "1"] [] at = <<"b">> -> [deps |-> {"c"}, v |-> "1"]
              [] at = <<"a", "b">> -> [deps |-> {"c"}, v |-> "2"] [] at = <<"w", "b">> -> [deps |-> {}, v |-> "3"] [] OTHER -> [deps |-> {}, v |-> "2"]
TreeCalls == [kept : SUBSET {<<"b">>, <<"a", "b">>, <<"c">>, <<"a", "c">>, <<"w", "b">>}, of : {"npm1", "bun"}, path : {Root, M}, dev : {<<>>, <<"b">>},
              stale : {"no", "removed", "importer"}]
Kept(c) == c.kept \cup {<<"a">>}
TreeRepo(c) ==
    LET manifests == ManifestsAt(c.path, Manifest(<<"a">>, c.dev))
        listed == (IF c.stale = "removed" THEN {} ELSE {"a"}) \cup ToSet(c.dev)
    IN  IF c.of = "npm1"
        THEN Repo(manifests, Root, "npm-shrinkwrap.json",
                  [shape |-> "tree", entries |-> [k \in Kept(c) |-> [version |-> Tree(k).v, requires |-> Tree(k).deps, resolved |-> NoUrl]]])
        ELSE Repo(manifests, Root, "bun.lock",
                  [table |-> [k \in Kept(c) |-> [name |-> Last(k), version |-> Tree(k).v, workspace |-> FALSE, dependencies |-> Tree(k).deps \ {"o"},
                                                 optional |-> Tree(k).deps \cap {"o"}, peers |-> {}]],
                   workspaces |-> [p \in (IF c.stale = "importer" THEN {} ELSE {c.path}) |-> [name |-> IF p = M THEN "w" ELSE None, listed |-> listed]]])
TreeTrue(c, answer) ==
    LET places == {Place(Root, k) : k \in Kept(c)}
        entries == [p \in places |-> [link |-> None]]
        Finds(p, n) == NodeFinds(entries, p, n)
        Lacks(p) == {n \in Tree(p.at).deps \ {"o"} : Finds(p, n) = None}
        install == [p \in places |-> [name |-> Last(p.at), version |-> Tree(p.at).v, reaches |-> {Finds(p, n) : n \in Tree(p.at).deps} \ {None},
                                      lacks |-> IF c.of = "npm1" THEN {} ELSE Lacks(p)]]
        At(n, dev) == [at |-> Finds(Place(Root, IF c.path = M /\ c.of = "bun" THEN <<"w">> ELSE <<>>), n), dev |-> dev]
    IN  IsTheInstall(answer, install, ("a" :> At("a", FALSE)) @@ [n \in ToSet(c.dev) |-> At(n, TRUE)], c.stale # "no" /\ c.of = "bun")

-----------------------------------------------------------------------------
(* pnpm: instances by name and version, references between them.           *)

Ref(version) == [name |-> None, version |-> version]
PnpmCalls ==
    [kept : SUBSET {<<"@s/b", "1">>, <<"c", "1">>, <<"c", "2">>}, b : {None, Ref("1"), [name |-> "c", version |-> "2"]}, path : {Root, M},
     importer : {"whole", "stale", "absent"}, globs : {None, <<>>, <<[negated |-> FALSE, rooted |-> FALSE, segments |-> <<<<"*">>>>]>>},
     root : {<<>>, <<"X">>, <<"X", "Y">>}, member : {<<>>, <<"X">>, <<"Y">>}]
PnpmEntry(deps, optional) ==
    [version |-> "1", numbered |-> TRUE, dependencies |-> deps, optional |-> optional,
     resolution |-> [recorded |-> FALSE, tarball |-> None, integrityOnly |-> TRUE]]
PnpmTable(c) ==
    [k \in c.kept \cup {<<"a", "1">>} |->
        CASE k[1] = "a" -> PnpmEntry("@s/b" :> c.b, "o" :> Ref("1")) [] k[1] = "@s/b" -> PnpmEntry("c" :> Ref("1"), NoFn) [] OTHER -> PnpmEntry(NoFn, NoFn)]
Lines(origins) == [i \in DOMAIN origins |-> [scope |-> "@s", quoted |-> FALSE, url |-> Reg(origins[i])]]
PnpmRepo(c) ==
    [Repo(ManifestsAt(c.path, Manifest(<<"a">>, <<"c">>)), Root, "pnpm-lock.yaml",
          [major |-> 9, table |-> PnpmTable(c),
           importers |-> [p \in (IF c.importer = "absent" THEN {} ELSE {c.path}) |->
               ("a" :> Ref("1")) @@ (IF c.importer = "stale" THEN NoFn ELSE "c" :> Ref("2"))]])
     EXCEPT !.npmrc = (Root :> Lines(c.root)) @@ (M :> Lines(c.member)), !.pnpm = IF c.globs = None THEN NoFn ELSE Root :> c.globs]
PnpmTrue(c, answer) ==
    LET table == PnpmTable(c)
        Instance(n, r) == IF r = None THEN None ELSE <<IF r.name = None THEN n ELSE r.name, r.version>>
        Edges(k) == {Instance(n, table[k].dependencies[n]) : n \in DOMAIN table[k].dependencies} \ {None}
        install == [k \in DOMAIN table |-> [name |-> k[1], version |-> "1", reaches |-> Edges(k) \cap DOMAIN table, lacks |-> Edges(k) \ DOMAIN table]]
        At(n, v, dev) == [at |-> IF <<n, v>> \in DOMAIN table THEN <<n, v>> ELSE None, dev |-> dev]
        unlisted == c.path = M /\ c.globs = <<>>
    IN  /\ IsTheInstall(answer, install, ("a" :> At("a", "1", FALSE)) @@ ("c" :> At("c", "2", TRUE)), c.importer # "whole" \/ unlisted)
        \* An origin is what every setting that could be in force says.
        /\ \A x \in answer.graph.nodes :
             x.origin # None => x.name = "@s/b" /\ ToSet(c.root) = {x.origin} /\ (c.path = M => ToSet(c.member) \subseteq {x.origin})

-----------------------------------------------------------------------------
(* Yarn: entries by header; a workspace package has none in a classic file. *)

YarnEntry(name, deps, workspace) ==
    [name |-> name, version |-> "1", dependencies |-> deps, optional |-> NoFn, dev |-> NoFn, markedOptional |-> {}, workspace |-> workspace, resolved |-> NoUrl]
P == << <<"p">>, <<"w">> >>
Glob(dir) == <<[negated |-> FALSE, rooted |-> FALSE, segments |-> <<<<dir>>, Globstar>>]>>
YarnCalls ==
    [berry : BOOLEAN, kept : SUBSET {"b", "c"}, globs : {NoGlobs, [declared |-> TRUE, globs |-> None], [declared |-> TRUE, globs |-> Glob("p")], [declared |-> TRUE, globs |-> Glob("q")], [declared |-> TRUE, globs |-> Glob("[")]},
     w : {None, <<1, 0, 1>>, <<2, 0, 0>>, <<1>>}, named : {"c", "d", None}, stale : BOOLEAN]
YarnLock(c) ==
    LET Pattern(n, r) == IF c.berry THEN <<n, "npm:", r>> ELSE <<n, r>>
        deps(n) == CASE n = "a" -> ("b" :> Caret1) @@ ("c" :> Caret1) [] n = "b" -> "c" :> Caret1 [] OTHER -> NoFn
        kept == c.kept \cup (IF c.stale THEN {} ELSE {"a"})
    IN  [berry |-> c.berry, patterns |-> [p \in {Pattern(n, Caret1) : n \in kept} \cup {Pattern("b", Caret2) : n \in kept \cap {"b"}} |-> <<p[1]>>],
         entries |-> [id \in {<<n>> : n \in kept} |-> YarnEntry(id[1], deps(id[1]), None)]
                       @@ (IF c.berry THEN <<"own", "own">> :> YarnEntry("own", IF c.stale THEN NoFn ELSE "a" :> Caret1, Root) ELSE NoFn)]
YarnRepo(c) ==
    Repo((Root :> [Manifest(<<"a">>, <<>>) EXCEPT !.workspaces = c.globs])
           @@ (P :> IF c.w = None THEN None ELSE [Manifest(<<>>, <<>>) EXCEPT !.name = c.named, !.version = V(c.w)]),
         Root, "yarn.lock", YarnLock(c))
YarnTrue(c, answer) ==
    LET linked == ~c.berry /\ c.globs = [declared |-> TRUE, globs |-> Glob("p")] /\ c.named = "c" /\ c.w = <<1, 0, 1>>
        Needs(n) == CASE n = "a" -> {"b", "c"} [] n = "b" -> {"c"} [] OTHER -> {}
        kept == c.kept \cup (IF c.stale THEN {} ELSE {"a"})
        install == [n \in kept |-> [name |-> n, version |-> "1", reaches |-> Needs(n) \cap kept, lacks |-> (Needs(n) \ kept) \ (IF linked THEN {"c"} ELSE {})]]
    IN  IsTheInstall(answer, install, "a" :> [at |-> IF c.stale THEN None ELSE "a", dev |-> FALSE], FALSE)

-----------------------------------------------------------------------------
(* Ranges and globs.                                                       *)

Numbers == 0..2
PartsOf == {<<>>} \cup {<<None>>} \cup {<<a>> : a \in Numbers} \cup {<<a, b>> : a \in Numbers, b \in Numbers \cup {None}}
             \cup {<<a, b, d>> : a \in Numbers, b \in Numbers \cup {None}, d \in Numbers}
RangeCalls == [version : {<<a, b, d>> : a \in Numbers, b \in Numbers, d \in Numbers}, op : {"", "^", "~", ">=", ">", "<", "<="}, parts : PartsOf]
\* What npm means: agreement with the numbers given, and not below their floor.
SatisfiesTrue(c, answer) ==
    LET given == SelectSeq(c.parts, LAMBDA p : p # None)
        Agrees(n) == \A i \in 1..n : c.version[i] = given[i]
        floor == [i \in 1..3 |-> IF i <= Len(given) THEN given[i] ELSE 0]
        under == Less(c.version, floor)
        leading == {i \in 1..Len(given) : given[i] # 0}
        significant == IF leading = {} THEN Len(given) ELSE Min(leading)
        truth == CASE c.op = "" -> Agrees(Len(given))
                   [] c.op = "^" -> ~under /\ Agrees(significant)
                   [] c.op = "~" -> ~under /\ Agrees(Min({2, Len(given)}))
                   [] c.op = ">=" -> ~under
                   [] c.op = "<" -> under
                   [] c.op = ">" -> ~under /\ ~Agrees(Len(given))
                   [] OTHER -> under \/ Agrees(Len(given))
        readable == c.parts # <<>> /\ (\A i \in 1..(Len(c.parts) - 1) : c.parts[i] = None => c.parts[i + 1] = None)
    IN  answer = IF ~readable THEN "unknown" ELSE IF truth THEN "yes" ELSE "no"

Segments == {<<"a">>, <<"b">>, <<"a", "b">>, <<".", "a">>, <<"n", "m">>}
GlobSegments == {<<"a">>, <<"*">>, <<"a", "*">>, <<"?", "b">>, <<".", "*">>, Globstar, <<"[">>}
GlobCalls ==
    [path : UNION {[1..n -> Segments] : n \in 1..2}, glob : UNION {[1..n -> GlobSegments] : n \in 1..2} \cup {<<Globstar, <<"a">>, Globstar>>, <<<<"a">>, Globstar, <<"b">>>>},
     but : {<<>>, <<<<"a">>, Globstar>>, <<Globstar, <<".", "a">>>>}]
PatternsOf(c) ==
    <<[negated |-> FALSE, rooted |-> FALSE, segments |-> c.glob]>>
      \o (IF c.but = <<>> THEN <<>> ELSE <<[negated |-> TRUE, rooted |-> FALSE, segments |-> c.but]>>)
\* A glob means every list of segments that its ** can be written out to.
WrittenOut(glob, n) ==
    {s \in UNION {[1..m -> ToSet(glob) \cup {<<"*">>}] : m \in 0..n} :
        \E cut \in [1..(Len(glob) + 1) -> 1..(Len(s) + 1)] :
            /\ cut[1] = 1 /\ cut[Len(glob) + 1] = Len(s) + 1
            /\ \A i \in 1..Len(glob) : cut[i] <= cut[i + 1]
            /\ \A i \in 1..Len(glob) :
                 IF glob[i] = Globstar THEN \A j \in cut[i]..(cut[i + 1] - 1) : s[j] = <<"*">> ELSE cut[i + 1] = cut[i] + 1 /\ s[cut[i]] = glob[i]}
Covers(pattern, text) ==
    \E at \in [1..(Len(pattern) + 1) -> 1..(Len(text) + 1)] :
        /\ at[1] = 1 /\ at[Len(pattern) + 1] = Len(text) + 1
        /\ \A i \in 1..Len(pattern) :
             /\ at[i] <= at[i + 1]
             /\ pattern[i] # "*" => at[i + 1] = at[i] + 1 /\ pattern[i] \in {"?", text[at[i]]}
Takes(glob, path, dot) ==
    \E s \in WrittenOut(glob, Len(path)) : Len(s) = Len(path) /\ (\A i \in DOMAIN s : Covers(s[i], path[i]) /\ (dot \/ Dotted(s[i]) \/ ~Dotted(path[i])))
GlobTrue(c, answer) ==
    LET ignored == <<"n", "m">> \in ToSet(c.path)
        included == Takes(c.glob, c.path, FALSE)
        excluded == c.but # <<>> /\ Takes(c.but, c.path, TRUE)
    IN  answer # "unknown" => (answer = "member" <=> included /\ ~excluded /\ ~ignored)

-----------------------------------------------------------------------------

Npm == Calling("npm", NpmCalls(FALSE))
NpmDangling == Calling("npm", NpmCalls(TRUE))
Others ==
    \/ Calling("npm tree", TreeCalls)
    \/ Calling("pnpm", {c \in PnpmCalls : c.root = <<>> \/ Cardinality(c.kept) = 3})
    \/ Calling("yarn", YarnCalls) \/ Calling("range", RangeCalls) \/ Calling("glob", GlobCalls)
LockInit == Npm \/ Others
LockRepo(of, c) == CASE of = "npm" -> NpmRepo(c) [] of = "npm tree" -> TreeRepo(c) [] of = "pnpm" -> PnpmRepo(c) [] OTHER -> YarnRepo(c)
ProjectOf(of, c) == Project(IF of = "yarn" THEN Root ELSE c.path, IF of = "npm tree" THEN "npm" ELSE of)
AnswerGraph ==
    \E of \in {"npm", "npm tree", "pnpm", "yarn"} : Answering(of, BuildLockfileGraph(LockRepo(of, call.with), ProjectOf(of, call.with)))
AnswerRange == Answering("range", VersionSatisfies(V(call.with.version), Simple(call.with.op, call.with.parts)))
AnswerGlob == Answering("glob", MatchWorkspacePatterns(PatternsOf(call.with), call.with.path))
LockNext == AnswerGraph \/ AnswerRange \/ AnswerGlob
SpecDangling == NpmDangling /\ [][LockNext]_callVars

\* The graph of a lockfile is the graph of the install it records: a graph
\* that is not marked incomplete has, for each dependency of the manifest,
\* exactly what comes with it, and the mark is there as soon as the lockfile
\* is stale or something that is needed has no entry (model.ts:132-229,
\* build.ts:301-382); an origin is never one that some setting contradicts.
GraphIsTheInstall ==
    /\ Answered("npm") => NpmTrue(call.with, result)
    /\ Answered("npm tree") => TreeTrue(call.with, result)
    /\ Answered("pnpm") => PnpmTrue(call.with, result)
    /\ Answered("yarn") => YarnTrue(call.with, result)
\* A range means what npm means by it and a glob what pnpm means by it, or
\* the answer is that it is not known (yarn-workspace.ts:168-182,
\* pnpm-workspace.ts:112-149).
RangesAndGlobsAreRead ==
    /\ Answered("range") => SatisfiesTrue(call.with, result)
    /\ Answered("glob") => GlobTrue(call.with, result)
\* A graph that is not whole is spoken of in the run's notes, unless it is
\* for want of a lockfile, of membership, or of an entry for a local link
\* (build.ts:395-421).
DegradedIsDisclosed ==
    Answered("npm") /\ result # Failed /\ result.graph.incomplete =>
        LockfileNotes(NpmRepo(call.with), {Project(call.with.path, "npm")}) # {}
\* "Never throws on bad input." (build.ts:300)
NeverThrows == Answered("npm") => result # Failed

-----------------------------------------------------------------------------
(* A Cargo workspace with crates that are listed, join by a path, are        *)
(* excluded or stand alone, what they declare, and the Cargo.lock files that *)
(* record it, whole, stale or damaged; feature tables of three features.     *)
Dirs == {<<>>, <<"a">>, <<"b">>, <<"b", "e">>}
CrateScenarios ==
    {c \in [own : BOOLEAN, listed : {"a", "*", "**"}, out : {{}, {<<"b">>}}, joins : {"path", "inherited", "no"}, points : BOOLEAN,
            kind : {"runtime", "dev", "build"}, optional : BOOLEAN, form : {"plain", "inherited", "renamed"}, second : BOOLEAN,
            alone : BOOLEAN, fault : {"none", "stale", "lost", "vague", "rootless", "lockfile-malformed"}] :
        /\ (c.kind = "dev" => ~c.optional) /\ (c.own => ~c.points)
        /\ c.fault # "none" => c.listed # "*" /\ c.out = {} /\ ~c.points /\ c.joins # "inherited"
        /\ c.optional => c.fault = "none" /\ ~c.second}
Id(name, version, source) == [name |-> name, version |-> version, source |-> source]
X1 == Id("x", 1, "registry")
X2 == Id("x", 2, "registry")
Y == Id("y", 1, "registry")
CrateId(d) == Id(IF d = <<>> THEN "r" ELSE Last(d), 0, None)
Plain(version, package, path) == [inherits |-> FALSE, package |-> package, version |-> version, path |-> path, optional |-> None]
Listed == [a |-> << {"a"} >>, e |-> <<>>]

\* What each crate depends on in truth, and how it says so.
Deps(c, d) ==
    CASE d = <<>> -> IF c.own THEN {[to |-> Y, kind |-> "dev", key |-> "y", value |-> Plain(1, None, None)]} ELSE {}
      [] d = <<"a">> ->
           LET form == IF c.form = "inherited" THEN [Plain(None, None, None) EXCEPT !.inherits = TRUE]
                       ELSE IF c.form = "renamed" THEN Plain(1, "x", None) ELSE Plain(1, None, None)
           IN  {[to |-> X1, kind |-> c.kind, key |-> IF c.form = "renamed" THEN "xone" ELSE "x", value |-> [form EXCEPT !.optional = IF c.optional THEN TRUE ELSE None]]}
                 \cup (IF c.second THEN {[to |-> X2, kind |-> "dev", key |-> "xtwo", value |-> Plain(2, "x", None)]} ELSE {})
                 \cup (IF c.joins = "no" THEN {}
                       ELSE {[to |-> CrateId(<<"b">>), kind |-> "runtime", key |-> "b",
                              value |-> IF c.joins = "path" THEN Plain(None, None, <<"b">>) ELSE [Plain(None, None, None) EXCEPT !.inherits = TRUE]]})
      [] d = <<"b">> ->
           {[to |-> Y, kind |-> "runtime", key |-> "y", value |-> Plain(1, None, None)],
            [to |-> CrateId(<<"b", "e">>), kind |-> "runtime", key |-> "e", value |-> Plain(None, None, <<"b", "e">>)]}
      [] OTHER -> {}
Workspace(c) ==
    [members |-> {CASE c.listed = "a" -> << {"a"} >> [] c.listed = "*" -> << {"a", "b", "e"} >> [] OTHER -> << {"**"} >>},
     exclude |-> c.out, dependencies |-> [k \in {"x", "b"} |-> IF k = "x" THEN Plain(1, None, None) ELSE Plain(None, None, <<"b">>)]]
ManifestOf(c, d) ==
    LET stale == IF c.fault = "stale" /\ d = <<"a">> THEN {[kind |-> "runtime", target |-> None, key |-> "z", value |-> Plain(1, None, None)]} ELSE {}
        tables == {[kind |-> x.kind, target |-> None, key |-> x.key, value |-> x.value] : x \in Deps(c, d)}
        features == [f \in {} |-> {}]
        package == [name |-> CrateId(d).name, workspace |-> IF d = <<"b">> /\ c.points THEN <<>> ELSE None]
    IN  [package |-> IF d = <<>> /\ ~c.own THEN None ELSE package, workspace |-> IF d = <<>> THEN Workspace(c) ELSE None,
         tables |-> tables \cup stale, features |-> features]

-----------------------------------------------------------------------------
(* What Cargo makes of it.                                                 *)

CratesIn(c) == IF c.own THEN Dirs ELSE Dirs \ {<<>>}
NeedsOf(c, id) ==
    IF id.source # None THEN (IF id = X1 THEN {Y} ELSE IF id = Y THEN {X2} ELSE {})
    ELSE {x.to : x \in Deps(c, CHOOSE d \in CratesIn(c) : CrateId(d) = id)}
Excluded(c, d) == \E e \in c.out : IsPrefix(e, d)
\* The members: listed, pointing to the workspace, or needed by a member through a path; never what is excluded.
Members(c) ==
    LET Says(d) == CASE d = <<>> -> c.own [] d = <<"a">> -> TRUE [] d = <<"b">> -> c.points \/ (c.listed # "a" /\ ~Excluded(c, d))
                     [] OTHER -> c.listed = "**" /\ ~Excluded(c, d)
        pulls == [d \in CratesIn(c) |-> {e \in CratesIn(c) : CrateId(e) \in NeedsOf(c, CrateId(d)) /\ ~Excluded(c, e)}]
    IN  Everything(pulls, {d \in CratesIn(c) : Says(d)})
Ids(c) == {X1, X2, Y} \cup {CrateId(d) : d \in CratesIn(c)}
Reaches(c) ==
    LET needs == [id \in Ids(c) |-> NeedsOf(c, id)] IN [id \in Ids(c) |-> Everything(needs, {id})]
\* A reference is as short as it can be.
Reference(c, id, among) ==
    LET same == {x \in among : x.name = id.name}
    IN  IF c.fault = "vague" \/ same = {id} THEN [name |-> id.name, version |-> None, source |-> None]
        ELSE [name |-> id.name, version |-> id.version, source |-> None]
LockFor(c, crates, reaches) ==
    LET among == UNION {reaches[CrateId(d)] : d \in crates}
        kept == among \ ((IF c.fault = "lost" THEN {Y} ELSE {}) \cup (IF c.fault = "rootless" THEN {CrateId(<<"a">>)} ELSE {}))
    IN  [failure |-> IF c.fault = "lockfile-malformed" THEN c.fault ELSE None,
         packages |-> {[name |-> x.name, version |-> x.version, source |-> x.source, refs |-> {Reference(c, n, among) : n \in NeedsOf(c, x)}] : x \in kept}]
LockDirs(c) == {<<>>} \cup (IF c.alone THEN CratesIn(c) \ Members(c) ELSE {})
CrateRepo(c) ==
    LET reaches == Reaches(c) members == Members(c) IN
    [manifests |-> [d \in Dirs |-> ManifestOf(c, d)],
     locks |-> [d \in LockDirs(c) |-> LockFor(c, IF d = <<>> THEN members ELSE {d}, reaches)]]
\* A member that joins only by a path that is inherited from the workspace:
\* the code does not take it for one (cargo-toml.ts:238).
OnlyInherited(c) == c.joins = "inherited" /\ ~c.points /\ c.listed = "a"

-----------------------------------------------------------------------------
(* Features                                                                *)

\* The tables that Cargo accepts: a feature names features or optional dependencies, and shares a name only with one that dep: hides.
Items == {[form |-> f, key |-> k] : f \in {"dep", "with", "weak"}, k \in {"p", "q"}} \cup {[form |-> "bare", key |-> k] : k \in {"p", "q", "f", "g"}}
Hidden(features, k) == \E f \in DOMAIN features : [form |-> "dep", key |-> k] \in features[f]
Accepted(features) ==
    /\ \A k \in {"p", "q"} : k \in DOMAIN features => Hidden(features, k)
    /\ \A f \in DOMAIN features : \A i \in features[f] :
         i.form = "bare" => i.key \in DOMAIN features \/ (i.key \in {"p", "q"} /\ ~Hidden(features, i.key))
Few == {S \in SUBSET Items : Cardinality(S) <= 2}
FeatureTables == {t \in [{"f", "g"} -> Few] \cup [{"f", "p"} -> Few] : Accepted(t)}
\* What is on when one feature is: features and dependencies, the least set with it.
TurnedOn(features, f) ==
    LET all == {[on |-> "feature", key |-> k] : k \in {"f", "g", "p", "q"}} \cup {[on |-> "dependency", key |-> k] : k \in {"p", "q"}}
        Brings(x) ==
          IF x.on = "dependency" THEN {}
          ELSE IF x.key \in DOMAIN features
               THEN {[on |-> IF i.form = "bare" THEN "feature" ELSE "dependency", key |-> i.key] : i \in {y \in features[x.key] : y.form # "weak"}}
               ELSE {[on |-> "dependency", key |-> x.key]}
    IN  Everything([x \in all |-> Brings(x)], {[on |-> "feature", key |-> f]})

-----------------------------------------------------------------------------
Answer(c) ==
    IF c.of = "features" THEN FeatureGates([features |-> c.with], {"p", "q"}) ELSE AnalyseCargoLocks(CrateRepo(c.with), CratesIn(c.with))
CrateInit == Calling("crates", CrateScenarios) \/ Calling("features", FeatureTables)
CrateNext == \E of \in {"crates", "features"} : Answering(of, Answer(call))

\* The graph of a crate is whole exactly if the lockfile that governs it is
\* there and records all of it without doubt; then it has the packages that
\* Cargo would build for the crate, and calls none a matter of development
\* that the crate needs otherwise; and one that is not whole says why
\* (lockfile.ts:85-195, cargo-toml.ts:246-278).
CrateGraphIsTheInstall ==
    Answered("crates") /\ ~OnlyInherited(call.with) =>
        LET c == call.with reaches == Reaches(c) members == Members(c) dirs == LockDirs(c) IN
        \A d \in CratesIn(c) :
            LET answer == result[d]
                direct == NeedsOf(c, CrateId(d))
                all == UNION {reaches[x] : x \in direct}
                prod == UNION {reaches[x.to] : x \in {y \in Deps(c, d) : y.kind # "dev"}}
                at == IF d \in members THEN <<>> ELSE d
                among == UNION {reaches[CrateId(e)] : e \in IF at = <<>> THEN members ELSE {d}}
                whole == /\ at \in dirs /\ c.fault # "lockfile-malformed"
                         /\ ~(c.fault = "stale" /\ d = <<"a">>) /\ ~(c.fault = "lost" /\ Y \in all)
                         /\ ~(c.fault = "rootless" /\ CrateId(<<"a">>) \in all \cup {CrateId(d)})
                         /\ ~(c.fault = "vague" /\ {X1, X2} \subseteq among /\ {X1, X2} \cap all # {})
            IN  /\ ~answer.graph.incomplete <=> whole
                /\ answer.graph.incomplete => answer.evidence # {}
                /\ whole =>
                     /\ {<<n.name, n.version>> : n \in answer.graph.nodes} = {<<x.name, x.version>> : x \in all}
                     /\ DOMAIN answer.graph.closure = NamesIn(direct)
                     /\ \A n \in answer.graph.nodes :
                          /\ n.dev => \A x \in prod : <<x.name, x.version>> # <<n.name, n.version>>
                          /\ ~n.dev /\ ~c.second => \E x \in prod : <<x.name, x.version>> = <<n.name, n.version>>

\* The features that are said to gate an optional dependency are those that
\* turn it on (manifest.ts:118-194).
GatesAreTheFeatures ==
    Answered("features") =>
        \A k \in {"p", "q"} :
            result[k] = {f \in DOMAIN call.with \cup ({"p", "q"} \ {x \in {"p", "q"} : Hidden(call.with, x)}) :
                            [on |-> "dependency", key |-> k] \in TurnedOn(call.with, f)}

\* A path dependency of a member is a member and shares its lockfile
\* (cargo-toml.ts:248-250, "as Cargo does, every path dependency of a member
\* (transitively) that sits under the same workspace and is not excluded
\* becomes a member too").
PathDependenciesJoin ==
    Answered("crates") /\ call.with.fault = "none" => \A d \in Members(call.with) : ~result[d].graph.incomplete

-----------------------------------------------------------------------------
(* A project "n" that needs packages and perhaps the workspace member "m",   *)
(* which may need the workspace's root "r", and the lockfiles that record    *)
(* it, whole, stale, damaged or with two versions of one package.            *)
Third == {"p", "q"}
ProjectScenarios ==
    {c \in [format : {"uv", "poetry", "pipenv"}, above : BOOLEAN, p : SUBSET {"q"}, q : SUBSET {"p"}, m : SUBSET {"p", "r"}, r : SUBSET {"q"},
            kinds : [{"p", "q", "m"} -> {"no", "runtime", "dev"}], build : BOOLEAN, extra : BOOLEAN,
            fault : {"none", "lost", "stale", "fork", "lockfile-malformed", "lockfile-missing"}] :
        /\ c.format # "uv" => ~c.above /\ c.m = {} /\ c.r = {} /\ c.kinds["m"] = "no"
        /\ c.extra => c.format = "poetry"}
Needs(c, n) == CASE n = "p" -> c.p [] n = "q" -> c.q [] n = "m" -> c.m [] n = "r" -> c.r [] OTHER -> {}
DirectOf(c) ==
    {[name |-> n, kind |-> c.kinds[n]] : n \in {x \in {"p", "q", "m"} : c.kinds[x] # "no"}}
      \cup (IF c.build THEN {[name |-> "setup", kind |-> "build"]} ELSE {}) \cup (IF c.fault = "stale" THEN {[name |-> "z", kind |-> "runtime"]} ELSE {})
EntryOf(c, n, version) ==
    [name |-> n, version |-> version, optional |-> IF n = "p" /\ c.extra THEN {"x"} ELSE {},
     needs |-> (IF c.format = "pipenv" THEN {} ELSE Needs(c, n)) \cup (IF n = "p" /\ c.extra THEN {"x"} ELSE {}),
     source |-> CASE n = "r" -> "here" [] n = "m" -> "member" [] OTHER -> "registry"]
EntriesOf(c) ==
    (IF c.fault = "fork" THEN <<EntryOf(c, "q", 2)>> ELSE <<>>) \o <<EntryOf(c, "p", 1)>> \o (IF c.fault = "lost" THEN <<>> ELSE <<EntryOf(c, "q", 1)>>)
      \o (IF c.format = "uv" THEN <<EntryOf(c, "m", 0), EntryOf(c, "r", 0)>> ELSE <<>>)
FileOf(c) == CASE c.format = "uv" -> "uv.lock" [] c.format = "poetry" -> "poetry.lock" [] OTHER -> "Pipfile.lock"
ProjectRepo(c) ==
    [k \in (IF c.fault = "lockfile-missing" THEN {} ELSE {[dir |-> IF c.above THEN <<>> ELSE <<"n">>, file |-> FileOf(c)]}) |->
        [failure |-> IF c.fault = "lockfile-malformed" THEN c.fault ELSE None, entries |-> EntriesOf(c)]]
Reach(c, n) ==
    Everything([x \in {"p", "q", "m", "r", "z", "setup"} |-> Needs(c, x)], {n})
\* A member that needs the root: the root's entry is set aside, so the walk
\* does not go through it, against what the code says (lockfile.ts:283-284).
NeedsRoot(c) == c.kinds["m"] # "no" /\ "r" \in c.m

ProjectInit == Calling("python", ProjectScenarios)
ProjectNext == Answering("python", BuildProjectGraph(ProjectRepo(call.with), <<"n">>, DirectOf(call.with)))

\* The graph is whole exactly if the lockfile is there, of one version of
\* each package, and has an entry for all that the project needs; then it has
\* the packages the project needs through members of its workspace or not,
\* none of these members, and calls one a matter of development exactly if
\* nothing else needs it; and one that is not whole says why (lockfile.ts:
\* 283-286, 327-329, 379-381).
PythonGraphIsTheInstall ==
    Answered("python") /\ ~NeedsRoot(call.with) =>
        LET c == call.with
            direct == {d \in DirectOf(c) : d.kind # "build"}
            all == UNION {Reach(c, d.name) : d \in direct}
            prod == UNION {Reach(c, d.name) : d \in {x \in direct : x.kind # "dev"}}
            whole == c.format # "pipenv" /\ (c.fault = "none" \/ (c.fault = "lost" /\ "q" \notin all))
        IN  /\ ~result.graph.incomplete <=> whole
            /\ result.graph.incomplete => result.evidence # {}
            /\ whole =>
                 /\ {<<n.name, n.version, n.dev>> : n \in result.graph.nodes} = {<<x, 1, x \notin prod>> : x \in all \cap Third}
                 /\ \A d \in direct : result.graph.closure[d.name] \cap Third = (Reach(c, d.name) \ {d.name}) \cap Third
                 /\ \A d \in direct : "m" \notin result.graph.closure[d.name]

-----------------------------------------------------------------------------
Init == LockInit \/ CrateInit \/ ProjectInit
Next == LockNext \/ CrateNext \/ ProjectNext
=============================================================================
