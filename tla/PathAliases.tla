---------------------------- MODULE PathAliases ----------------------------
(* Path aliases of tsconfig.json and jsconfig.json, resolved from the files  *)
(* of the repository alone: which options a config has after its extends,    *)
(* and whether an import is then of a file of the repository.  A text is a   *)
(* sequence of pieces ("/", "*", "..", an extension or a name), a path the   *)
(* sequence of its segments, and the root is <<>>.  What TypeScript itself   *)
(* answers for a directory with a steering manifest is the manifest's        *)
(* "resolves".  Memoised answers and reads are computed again.               *)
EXTENDS Absent, Integers, SequencesExt
CONSTANTS MaxExtendsDepth, MaxExtendsBases, MaxPathEntries, MaxTargets, MaxManifests, MaxLenient, MaxConditionDepth

NodeModules == <<"node_modules">>
PackageJson == <<"package", ".json">>
TsConfig == <<"tsconfig", ".json">>
ConfigNames == <<TsConfig, <<"jsconfig", ".json">>>>
SourceOf == [e \in {".js", ".jsx", ".mjs", ".cjs"} |->
               CASE e = ".mjs" -> {".mts", ".d.mts"} [] e = ".cjs" -> {".cts", ".d.cts"} [] OTHER -> {".ts", ".tsx", ".d.ts", ".js", ".jsx"}]
IndexExtensions == {".ts", ".tsx", ".d.ts", ".js", ".jsx"}
ResolveExtensions == {".ts", ".tsx", ".d.ts", ".mts", ".cts", ".js", ".jsx", ".mjs", ".cjs", ".json"}

Files(repo) == Range(repo.listing)
Dirs(repo) == UNION {{SubSeq(f, 1, n) : n \in 0..Len(f) - 1} : f \in Files(repo)}
Taken(s, n) == SubSeq(s, 1, IF Len(s) < n THEN Len(s) ELSE n)
Stars(text) == Cardinality({i \in DOMAIN text : text[i] = "*"})
\* A path with a piece added to its last segment, or with another last piece.
WithPiece(path, piece) == [path EXCEPT ![Len(path)] = Append(@, piece)]
WithLast(path, piece) == [path EXCEPT ![Len(path)] = Append(Front(@), piece)]
\* The first of some paths that is listed, or None.
FirstListed(repo, paths) == LET n == SelectInSeq(paths, LAMBDA p : p \in Files(repo)) IN IF n = 0 THEN None ELSE paths[n]
Inside(path, dir) == path # None /\ IsPrefix(dir, path)

Segments(text) ==
    FoldLeft(LAMBDA out, piece : IF piece = "/" THEN Append(out, <<>>) ELSE Append(Front(out), Append(Last(out), piece)), <<<<>>>>, text)
JoinSegments(dir, segments) ==
    FoldLeft(LAMBDA out, s : CASE out = None \/ s \in {<<>>, <<".">>} -> out
                               [] s = <<"..">> -> IF out = <<>> THEN None ELSE Front(out)
                               [] OTHER -> Append(out, s), dir, segments)
JoinPath(dir, text) == JoinSegments(dir, Segments(text))

\* A text against one with at most one star: whether it matches, and what
\* the star stands for.
Before(pattern) == SubSeq(pattern, 1, SelectInSeq(pattern, LAMBDA p : p = "*") - 1)
After(pattern) == SubSeq(pattern, SelectInSeq(pattern, LAMBDA p : p = "*") + 1, Len(pattern))
Matches(text, pattern) ==
    Len(text) >= Len(Before(pattern)) + Len(After(pattern)) /\ IsPrefix(Before(pattern), text) /\ IsSuffix(After(pattern), text)
Captured(text, pattern) == SubSeq(text, Len(Before(pattern)) + 1, Len(text) - Len(After(pattern)))
Filled(text, captured) == IF Stars(text) = 0 THEN text ELSE Before(text) \o captured \o After(text)

-----------------------------------------------------------------------------
(* Packages of the workspace and packages that are installed. *)
Limit(kind, file) == {[kind |-> kind, file |-> file]}
IsManifest(f) == f # <<>> /\ Last(f) = PackageJson /\ ~Contains(f, NodeModules)
Manifests(repo) == SelectSeq(repo.listing, IsManifest)

\* The directories of each workspace name, in the order of the listing; the
\* first has the tsconfig field, and two make the name ambiguous.
PackagesNamed(repo, name) ==
    SelectSeq(Taken(Manifests(repo), MaxManifests), LAMBDA f : repo.packages[f].failure = None /\ repo.packages[f].name = name)
MapLimit(repo) ==
    LET all == Manifests(repo) IN IF Len(all) > MaxManifests THEN Limit("tsconfig-workspace-map-truncated", all[MaxManifests + 1]) ELSE {}

\* The name of a package-style entry and the segments below it.
PackageName(segments) ==
    CASE segments[1] = <<>> \/ segments[1][1] = "." -> None
      [] segments[1][1] = "@" -> IF Len(segments) < 2 \/ segments[2] = <<>> THEN None ELSE SubSeq(segments, 1, 2)
      [] OTHER -> SubSeq(segments, 1, 1)

WorkspaceExtends(repo, name, sub, file) ==
    LET dirs == PackagesNamed(repo, name)
        dir == Front(dirs[1])
        field == repo.packages[dirs[1]].tsconfig
        candidates == IF sub # <<>> THEN <<JoinSegments(dir, sub), JoinSegments(dir, WithPiece(sub, ".json"))>>
                      ELSE (IF field = None THEN <<>> ELSE <<JoinPath(dir, field)>>) \o <<JoinSegments(dir, <<TsConfig>>)>>
        hit == FirstListed(repo, SelectSeq(candidates, LAMBDA p : Inside(p, dir)))
    IN  CASE Len(dirs) > 1 -> [base |-> None, limits |-> Limit("tsconfig-extends-ambiguous", file)]
          [] hit = None -> [base |-> None, limits |-> Limit("tsconfig-extends-unresolved", file)]
          [] OTHER -> [base |-> hit, limits |-> {}]

\* The first accepted condition, in the order of the object, that leads to a
\* path of the package.
RECURSIVE ConditionTarget(_, _)
ConditionTarget(value, depth) ==
    IF value.text # None THEN IF value.text[1] = "." THEN value.text ELSE None
    ELSE IF depth >= MaxConditionDepth THEN None
    ELSE LET Accepted(c) == c.name \in {"types", "node", "require", "default"}
             First(found, c) == IF found # None \/ ~Accepted(c) THEN found ELSE ConditionTarget(c.value, depth + 1)
         IN  FoldLeft(First, None, Taken(value.conditions, MaxPathEntries))

\* A root string covers the package itself, an exact subpath is before the
\* patterns, and the first pattern that matches is final.
ExportsTarget(repo, exports, key, pkgDir) ==
    LET keys == Taken(exports.subpaths, MaxPathEntries)
        exact == SelectSeq(keys, LAMBDA e : e.key = key)
        patterns == SelectSeq(keys, LAMBDA e : Stars(e.key) = 1 /\ Matches(key, e.key))
        Starred(target, pattern) == IF target = None \/ Stars(target) # 1 THEN None ELSE Filled(target, Captured(key, pattern))
        By(selected) ==
          IF selected = <<>> THEN None
          ELSE IF selected[1].key = key THEN ConditionTarget(selected[1].value, 0)
          ELSE Starred(ConditionTarget(selected[1].value, 0), selected[1].key)
        Own(path) == IF Inside(path, pkgDir) /\ path \in Files(repo) THEN path ELSE None
        At(target) == IF target = None THEN None ELSE Own(JoinPath(pkgDir, target))
    IN  At(IF exports.text # None THEN (IF key = <<".">> /\ exports.text[1] = "." THEN exports.text ELSE None)
           ELSE By(exact \o patterns))

InstalledManifest(repo, f) == IF f \in Files(repo) /\ repo.packages[f].failure = None THEN repo.packages[f] ELSE None
\* The nearest installed copy is the one, whether or not it has the base.
ResolveNodeModulesBase(repo, name, sub, fromDir) ==
    LET Home(n) == SubSeq(fromDir, 1, n) \o <<NodeModules>> \o name
        Doc(n) == InstalledManifest(repo, Append(Home(n), PackageJson))
        Present(n) == Doc(n) # None \/ Home(n) \in Dirs(repo) \/ (sub = <<>> /\ WithPiece(Home(n), ".json") \in Files(repo))
        levels == {n \in 0..Len(fromDir) : Present(n)}
        Listed(home, field, rest) ==
          FirstListed(repo, (IF Inside(field, home) THEN <<field>> ELSE <<>>) \o <<rest, WithPiece(rest, ".json"), Append(rest, TsConfig)>>)
        In(home, doc) ==
          IF doc # None /\ doc.exports # None
          THEN ExportsTarget(repo, doc.exports, FoldLeft(LAMBDA text, s : text \o <<"/">> \o s, <<".">>, sub), home)
          ELSE Listed(home, IF doc = None \/ sub # <<>> \/ doc.tsconfig = None THEN None ELSE JoinPath(home, doc.tsconfig), home \o sub)
        Level(n) == In(Home(n), Doc(n))
    IN  IF levels = {} THEN None ELSE Level(CHOOSE l \in levels : \A m \in levels : m <= l)

-----------------------------------------------------------------------------
(* A config file and the files it extends. *)
\* Where one entry of extends leads: a file, a limitation, or a package that
\* was not read.
ExtendsOf(repo, entry, dir, file) ==
    LET Leads(base, limits, unread) == [base |-> base, limits |-> limits, unread |-> unread]
        segments == Segments(entry)
        target == JoinSegments(dir, segments)
        hit == IF target \in {None, <<>>} THEN None ELSE FirstListed(repo, <<target, WithPiece(target, ".json")>>)
        nm == SelectInSeq(target, LAMBDA s : s = NodeModules)
        name == PackageName(segments)
        sub == SubSeq(segments, Len(name) + 1, Len(segments))
        FromWorkspace(found) == Leads(found.base, found.limits \cup MapLimit(repo), {})
        FromInstall(base) == Leads(base, MapLimit(repo), IF base = None THEN {name} ELSE {})
        relative == segments[1] \in {<<".">>, <<"..">>} /\ Len(segments) > 1
    IN  CASE relative ->
               IF hit # None \/ target = None \/ nm \in {0, Len(target)} THEN Leads(hit, {}, {})
               ELSE Leads(None, {}, {PackageName(SubSeq(target, nm + 1, Len(target)))} \ {None})
          [] ~relative /\ name = None -> Leads(None, {}, {})
          [] OTHER -> IF PackagesNamed(repo, name) # <<>> THEN FromWorkspace(WorkspaceExtends(repo, name, sub, file))
                      ELSE FromInstall(ResolveNodeModulesBase(repo, name, sub, dir))
LocalExtends(repo, entries, dir, file) == [i \in DOMAIN entries |-> ExtendsOf(repo, entries[i], dir, file)]

ParseFile(repo, file) ==
    LET Parsed(config, bases, limits, unread) == [config |-> config, bases |-> bases, limits |-> limits, unread |-> unread]
        doc == repo.configs[file]
        dir == Front(file)
        entries == [i \in 1..Len(Taken(doc.paths, MaxPathEntries)) |->
                      [doc.paths[i] EXCEPT !.targets = Taken(SelectSeq(@, LAMBDA t : Stars(t) <= 1), MaxTargets)]]
        config == [baseUrl |-> IF doc.baseUrl = None THEN None ELSE JoinPath(dir, doc.baseUrl),
                   paths |-> IF doc.paths = None THEN None ELSE SelectSeq(entries, LAMBDA e : Stars(e.key) <= 1),
                   pathsDir |-> IF doc.paths = None THEN None ELSE dir]
        cut == doc.paths # None /\ Len(doc.paths) > MaxPathEntries
        With(found) ==
            Parsed(config, SelectSeq([i \in DOMAIN found |-> found[i].base], LAMBDA b : b # None),
                   (IF cut THEN Limit("tsconfig-paths-truncated", file) ELSE {}) \cup UNION {f.limits : f \in Range(found)},
                   UNION {f.unread : f \in Range(found)})
    IN  CASE file \notin Files(repo) -> Parsed(None, <<>>, {}, {})
          [] file \in Files(repo) /\ doc.failure # None -> Parsed(None, <<>>, Limit(doc.failure, file), {})
          [] OTHER -> With(LocalExtends(repo, doc.extends, dir, file))

NoOptions == [baseUrl |-> None, paths |-> None, pathsDir |-> None]
SlipOverride(target, source) == IF source.baseUrl = None /\ source.paths = None THEN target ELSE source
\* A later config replaces only what it sets.
Override(target, source) ==
    [baseUrl |-> IF source.baseUrl # None THEN source.baseUrl ELSE target.baseUrl,
     paths |-> IF source.paths # None THEN source.paths ELSE target.paths,
     pathsDir |-> IF source.paths # None THEN source.pathsDir ELSE target.pathsDir]

\* The options of a file at the end of a path of extends, from the bases to
\* the file itself.  A merge is cached for its depth, unless a cycle was cut
\* below it: what it has then depends on the path.
RECURSIVE Merge(_, _, _, _)
Merge(repo, file, stack, walk) ==
    LET depth == Len(stack)
        Cut(limit, tainted) == [config |-> None, tainted |-> tainted, walk |-> [walk EXCEPT !.limits = @ \cup limit]]
        Next(at, sub) ==
            [config |-> IF sub.config = None THEN at.config ELSE Override(at.config, sub.config),
             tainted |-> at.tainted \/ sub.tainted, walk |-> sub.walk]
        Step(at, base) == Next(at, Merge(repo, base, Append(stack, file), at.walk))
        Whole(below, config) ==
            [config |-> config, tainted |-> below.tainted,
             walk |-> IF below.tainted THEN below.walk ELSE [below.walk EXCEPT !.cache = (<<file, depth>> :> config) @@ @]]
        Over(below, own) == Whole(below, Override(below.config, own))
        Reading(parsed) ==
            [walk EXCEPT !.seen = IF depth > 0 THEN @ \cup {file} ELSE @, !.limits = @ \cup parsed.limits, !.unread = @ \cup parsed.unread]
        With(parsed) ==
            IF parsed.config = None THEN [config |-> None, tainted |-> FALSE, walk |-> Reading(parsed)]
            ELSE Over(FoldLeft(Step, [config |-> NoOptions, tainted |-> FALSE, walk |-> Reading(parsed)], parsed.bases), parsed.config)
    IN  IF <<file, depth>> \in DOMAIN walk.cache THEN [config |-> walk.cache[<<file, depth>>], tainted |-> FALSE, walk |-> walk]
        ELSE IF Contains(stack, file) THEN Cut(Limit("tsconfig-extends-cycle", walk.of), TRUE)
        ELSE IF depth > MaxExtendsDepth THEN Cut(Limit("tsconfig-extends-too-deep", walk.of), FALSE)
        ELSE IF depth > 0 /\ file \notin walk.seen /\ Cardinality(walk.seen) >= MaxExtendsBases
             THEN Cut(Limit("tsconfig-extends-too-broad", walk.of), FALSE)
        ELSE With(ParseFile(repo, file))

\* The directory the targets of paths are relative to.
PathsBase(config) == IF config.paths = None THEN None ELSE IF config.baseUrl # None THEN config.baseUrl ELSE config.pathsDir
ResolveEffective(repo, configFile) ==
    LET Of(root) ==
            [config |-> IF root.config = None THEN None
                        ELSE [baseUrl |-> root.config.baseUrl, pathsBase |-> PathsBase(root.config),
                              paths |-> IF root.config.paths = None THEN <<>> ELSE root.config.paths],
             limits |-> root.walk.limits, unread |-> root.walk.unread]
    IN  Of(Merge(repo, configFile, <<>>, [of |-> configFile, cache |-> <<>>, seen |-> {}, limits |-> {}, unread |-> {}]))

\* The nearest config from a directory up to the root.
NearestConfig(repo, dir) ==
    LET At(n) == FirstListed(repo, <<Append(SubSeq(dir, 1, n), ConfigNames[1]), Append(SubSeq(dir, 1, n), ConfigNames[2])>>)
        found == {n \in 0..Len(dir) : At(n) # None}
    IN  IF found = {} THEN None ELSE At(CHOOSE n \in found : \A m \in found : m <= n)

-----------------------------------------------------------------------------
(* Whether an import is of a file of the repository. *)
\* Manifests that steer what TypeScript makes of their directory, and those
\* that were not read: too many, too large, unreadable, or not JSON past the
\* budget for such text.
DirectoryManifests(repo) ==
    LET all == Manifests(repo)
        Failure(i) == repo.packages[all[i]].failure
        Lenient(i) == Cardinality({j \in 1..i : Failure(j) = "lenient"})
        Unread(i) == i > MaxManifests \/ Failure(i) \in {"unreadable", "large"} \/ (Failure(i) = "lenient" /\ Lenient(i) > MaxLenient)
        Steers(i) == ~Unread(i) /\ (Failure(i) = "lenient" \/ repo.packages[all[i]].steers)
    IN  [unread |-> {Front(all[i]) : i \in {j \in DOMAIN all : Unread(j)}}, steering |-> {Front(all[i]) : i \in {j \in DOMAIN all : Steers(j)}}]
ResolvesAsDirectory(repo, dir) == repo.packages[Append(dir, PackageJson)].resolves

ResolvesToTsSource(repo, target) ==
    LET written == Last(Last(target))
    IN  written \in DOMAIN SourceOf /\ Len(Last(target)) > 1 /\ (\E e \in SourceOf[written] : WithLast(target, e) \in Files(repo))

ResolvesToFile(repo, base, text) ==
    LET target == JoinPath(base, text)
        manifests == DirectoryManifests(repo)
        Answer(internal, limits) == [internal |-> internal, limits |-> limits]
    IN  CASE target = None -> Answer(FALSE, {})
          [] target # None /\ Contains(target, NodeModules) -> Answer(FALSE, {})
          [] OTHER ->
               IF /\ target # <<>>
                  /\ target \in Files(repo) \/ (\E e \in ResolveExtensions : WithPiece(target, e) \in Files(repo)) \/ ResolvesToTsSource(repo, target)
               THEN Answer(TRUE, {})
               ELSE IF target \notin Dirs(repo) THEN Answer(FALSE, {})
               ELSE IF target \in manifests.unread THEN Answer(FALSE, Limit("tsconfig-directory-manifest-unread", Append(target, PackageJson)))
               ELSE IF target \in manifests.steering THEN Answer(ResolvesAsDirectory(repo, target), {})
               ELSE Answer(\E e \in IndexExtensions : Append(target, <<"index", e>>) \in Files(repo), {})

\* One entry of paths is selected before any target is tried: an exact key,
\* or the first with the longest text before its star.
Selected(paths, specifier) ==
    LET Better(best, e) ==
            CASE best.exact -> best
              [] ~best.exact /\ Stars(e.key) = 0 -> IF e.key = specifier THEN [exact |-> TRUE, prefix |-> 0, entry |-> [targets |-> e.targets, captured |-> <<>>]] ELSE best
              [] OTHER -> IF Matches(specifier, e.key) /\ Len(Before(e.key)) > best.prefix
                          THEN [exact |-> FALSE, prefix |-> Len(Before(e.key)), entry |-> [targets |-> e.targets, captured |-> Captured(specifier, e.key)]]
                          ELSE best
    IN  FoldLeft(Better, [exact |-> FALSE, prefix |-> -1, entry |-> None], paths).entry

\* The targets of the selected entry are tried in order and are final;
\* baseUrl is for what no key of paths matches.
ComputeInternal(repo, config, specifier) ==
    LET Nothing == [internal |-> FALSE, limits |-> {}]
        Add(before, answer) == [internal |-> answer.internal, limits |-> before.limits \cup answer.limits]
        Try(chosen, before, target) ==
          IF before.internal THEN before
          ELSE Add(before, ResolvesToFile(repo, config.pathsBase, Filled(target, chosen.captured)))
        By(chosen) ==
          CASE chosen # None -> FoldLeft(LAMBDA before, target : Try(chosen, before, target), Nothing, chosen.targets)
            [] chosen = None /\ config.baseUrl # None -> ResolvesToFile(repo, config.baseUrl, specifier)
            [] OTHER -> Nothing
    IN  By(IF config.pathsBase = None THEN None ELSE Selected(config.paths, specifier))

\* What the scan of a file asks: the config that governs it, its options,
\* and whether the import is internal.
IsInternal(repo, dir, specifier) ==
    LET By(effective, answer) ==
            [internal |-> answer.internal, config |-> effective.config, limits |-> effective.limits \cup answer.limits, unread |-> effective.unread]
        Under(effective) ==
            IF effective.config = None THEN [internal |-> FALSE] @@ effective
            ELSE By(effective, ComputeInternal(repo, effective.config, specifier))
        From(file) ==
            IF file = None THEN [internal |-> FALSE, config |-> None, limits |-> {}, unread |-> {}]
            ELSE Under(ResolveEffective(repo, file))
    IN  From(NearestConfig(repo, dir))
=============================================================================
