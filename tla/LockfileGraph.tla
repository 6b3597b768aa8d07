--------------------------- MODULE LockfileGraph ----------------------------
(* The dependency graph of one JavaScript project: the origin of a package,  *)
(* the readers of its lockfiles and the graph that is built from what they   *)
(* read (javascript-typescript adapter, lockfile/origin.ts, npm.ts, pnpm.ts, *)
(* yarn.ts, bun.ts, build.ts and model.ts), and the edit that removes one    *)
(* direct dependency from it (core/src/engine/fix-preview.ts).               *)
(* Before it, the packages of a Yarn or pnpm workspace: whether a version    *)
(* satisfies a range, which directories the globs take in, and the members   *)
(* these leave (lockfile/yarn-workspace.ts and lockfile/pnpm-workspace.ts).  *)
EXTENDS Absent, Integers, Sequences, FiniteSets, SequencesExt

-----------------------------------------------------------------------------
(* Whether a version satisfies a range, in the stable part of npm's grammar  *)
(* (javascript-typescript adapter, lockfile/yarn-workspace.ts).  A version   *)
(* or a part of a range is [parts, build]: the numbers as written, None for  *)
(* a wildcard, "" for no build metadata.  A range is a sequence of           *)
(* alternatives [hyphen, tokens], each token [op, parts, build]; what the    *)
(* grammar does not have (a tag, a prerelease) has parts None.               *)
CONSTANT HugeNumber   \* the first number that is left to semver

Partial(parts) == [i \in 1..3 |-> IF i <= Len(parts) THEN parts[i] ELSE None]
\* A number after a wildcard is not a version.
IsPartial(parts) ==
    /\ parts # None /\ Len(parts) \in 1..3
    /\ \A i \in 1..(Len(parts) - 1) : parts[i] = None => parts[i + 1] = None
ParsePartial(parts) == IF IsPartial(parts) THEN Partial(parts) ELSE None
IsFull(parts) == parts # None /\ Len(parts) = 3 /\ None \notin ToSet(parts)
\* Build metadata is dropped where it is well formed and follows all three numbers.
WithoutBuild(text) == text.build = "" \/ (text.build = "good" /\ IsFull(text.parts))
ParseVersion(version) == IF WithoutBuild(version) /\ IsFull(version.parts) THEN version.parts ELSE None

Less(a, b) == \E i \in 1..3 : a[i] < b[i] /\ (\A j \in 1..(i - 1) : a[j] = b[j])
Holds(have, c) ==
    CASE c.op = "="  -> have = c.v
      [] c.op = ">=" -> ~Less(have, c.v)
      [] c.op = ">"  -> Less(c.v, have)
      [] c.op = "<"  -> Less(have, c.v)
      [] OTHER       -> ~Less(c.v, have)

Lower(v) == [op |-> ">=", v |-> v]
Below(v) == [op |-> "<", v |-> v]
Floor(p) == [i \in 1..3 |-> IF p[i] = None THEN 0 ELSE p[i]]
NextTuple(p) ==
    CASE p[2] = None -> <<p[1] + 1, 0, 0>>
      [] p[2] # None /\ p[3] = None -> <<p[1], p[2] + 1, 0>>
      [] OTHER -> <<p[1], p[2], p[3] + 1>>
\* Slip: below 1.0.0 a caret lets the minor number move.
SlipCaretBounds(p) == {Lower(Floor(p)), Below(<<p[1] + 1, 0, 0>>)}
CaretBounds(p) ==
    CASE p[1] > 0 \/ p[2] = None -> {Lower(Floor(p)), Below(<<p[1] + 1, 0, 0>>)}
      [] p[1] = 0 /\ p[2] # None /\ (p[3] = None \/ p[2] > 0) -> {Lower(Floor(p)), Below(<<0, p[2] + 1, 0>>)}
      [] OTHER -> {Lower(Floor(p)), Below(<<0, 0, p[3] + 1>>)}
RelationalBounds(op, p) ==
    {CASE op = ">=" -> Lower(Floor(p)) [] op = ">" -> Lower(NextTuple(p)) [] op = "<" -> Below(Floor(p)) [] OTHER -> Below(NextTuple(p))}
OpBounds(op, p) ==
    CASE op \in {"", "="} /\ None \in {p[2], p[3]} -> {Lower(Floor(p)), Below(NextTuple(p))}
      [] op \in {"", "="} /\ None \notin {p[2], p[3]} -> {[op |-> "=", v |-> Floor(p)]}
      [] op = "~" -> {Lower(Floor(p)), Below(IF p[2] = None THEN <<p[1] + 1, 0, 0>> ELSE <<p[1], p[2] + 1, 0>>)}
      [] op = "^" -> CaretBounds(p)
      [] OTHER -> RelationalBounds(op, p)
Bounds(op, p) ==
    IF p[1] # None THEN OpBounds(op, p) ELSE IF op \in {"<", ">"} THEN {Below(<<0, 0, 0>>)} ELSE {}

\* An alternative's bounds, or None when one of its tokens is not understood.
SetBounds(alternative) ==
    LET tokens == alternative.tokens
        Op(i) == IF alternative.hyphen THEN <<">=", "<=">>[i] ELSE tokens[i].op
    IN  IF \E i \in DOMAIN tokens : ParsePartial(tokens[i].parts) = None THEN None
        ELSE UNION {Bounds(Op(i), ParsePartial(tokens[i].parts)) : i \in DOMAIN tokens}
IsHuge(parts) == parts # None /\ (\E i \in DOMAIN parts : parts[i] # None /\ parts[i] >= HugeNumber)
VersionSatisfies(version, range) ==
    LET texts == UNION {ToSet(range[i].tokens) : i \in DOMAIN range}
        have == ParseVersion(version)
        all == {SetBounds(range[i]) : i \in DOMAIN range}
    IN  CASE (\E t \in texts \cup {version} : IsHuge(t.parts)) \/ have = None -> "unknown"
          [] (\E t \in texts : ~WithoutBuild(t)) \/ None \in all -> "unknown"
          [] \E b \in all : b # None /\ (\A c \in b : Holds(have, c)) -> "yes"
          [] OTHER -> "no"

-----------------------------------------------------------------------------
(* Which directories the globs of a workspace take in (javascript-typescript *)
(* adapter, lockfile/pnpm-workspace.ts).  A path is a sequence of segments   *)
(* and a segment a sequence of characters; a pattern is [negated, rooted,    *)
(* segments], without "." segments, "./" in front and "/" behind.            *)
CONSTANTS
    MaxMatchStates,    \* the work that one match may take
    IgnoredSegments,   \* node_modules and bower_components
    GlobCharacters     \* the characters of brackets, braces, extglobs and escapes

Globstar == <<"*", "*">>
Dotted(segment) == segment # <<>> /\ segment[1] = "."

MatchSegment(pattern, text) ==
    LET m[p \in 1..(Len(pattern) + 1), j \in 1..(Len(text) + 1)] ==
          CASE p > Len(pattern) -> j > Len(text)
            [] p <= Len(pattern) /\ pattern[p] = "*" -> m[p + 1, j] \/ (j <= Len(text) /\ m[p, j + 1])
            [] OTHER -> j <= Len(text) /\ pattern[p] \in {"?", text[j]} /\ m[p + 1, j + 1]
    IN  m[1, 1]

WithinBudget(pattern, path) ==
    LET states == (Len(pattern) + 1) * (Len(path) + 1)
        Work(segments) == FoldLeft(LAMBDA sum, s : sum + Len(s) + 1, 0, segments)
    IN  Work(SelectSeq(pattern, LAMBDA s : s # Globstar)) * Work(path) + states <= MaxMatchStates

\* A wildcard matches a segment with a dot in front only where dot says so.
MatchSegments(pattern, path, dot) ==
    LET m[p \in 1..(Len(pattern) + 1), j \in 1..(Len(path) + 1)] ==
          CASE p > Len(pattern) -> j > Len(path)
            [] p <= Len(pattern) /\ pattern[p] = Globstar ->
                 m[p + 1, j] \/ (j <= Len(path) /\ (dot \/ ~Dotted(path[j])) /\ m[p, j + 1])
            [] OTHER ->
                 /\ j <= Len(path) /\ (dot \/ ~Dotted(path[j]) \/ Dotted(pattern[p]))
                 /\ MatchSegment(pattern[p], path[j]) /\ m[p + 1, j + 1]
    IN  m[1, 1]

Unsupported(pattern) ==
    LET segments == ToSet(pattern.segments) IN
    \/ pattern.rooted \/ <<".", ".">> \in segments
    \/ Globstar \in segments /\ (\E s \in segments : Dotted(s))
    \/ \E s \in segments : s # Globstar /\ ToSet(s) \cap GlobCharacters # {}
\* How pnpm and tinyglobby treat a dotted include beside an exclusion is not guessed.
DotBesideExclusion(patterns) ==
    LET Some(negated, P(_)) == \E i \in DOMAIN patterns : patterns[i].negated = negated /\ P(patterns[i]) IN
    Some(FALSE, LAMBDA p : \E s \in ToSet(p.segments) : Dotted(s)) /\ Some(TRUE, LAMBDA p : TRUE)
MatchWorkspacePatterns(patterns, path) ==
    LET Matched(negated) == \E i \in DOMAIN patterns :
            patterns[i].negated = negated /\ MatchSegments(patterns[i].segments, path, negated)
    IN  CASE ToSet(path) \cap IgnoredSegments # {} -> "nonmember"
          [] ToSet(path) \cap IgnoredSegments = {}
             /\ (DotBesideExclusion(patterns)
                 \/ \E i \in DOMAIN patterns : Unsupported(patterns[i]) \/ ~WithinBudget(patterns[i].segments, path)) -> "unknown"
          [] OTHER -> IF Matched(FALSE) /\ ~Matched(TRUE) THEN "member" ELSE "nonmember"

\* What pnpm-workspace.yaml says of a directory; None: no such file, or no list of strings to read in it.
PnpmWorkspaceMembership(packages, path) == IF packages = None THEN "unknown" ELSE MatchWorkspacePatterns(packages, path)

-----------------------------------------------------------------------------
(* The packages of a Yarn workspace, from the globs of its root manifest and *)
(* the manifests they match (javascript-typescript adapter,                  *)
(* lockfile/yarn-workspace.ts).  A repository has its package.json files     *)
(* under manifests, by directory: [name, version, workspaces, ...], or None  *)
(* where it cannot be read as an object; workspaces is [declared, globs],    *)
(* globs None where they are no list of strings; listed says whether the     *)
(* files of the repository can be listed.                                    *)
CONSTANT MaxYarnManifests

NoMembers == [members |-> {}, maybe |-> {}, uncertain |-> FALSE]
Uncertain == [NoMembers EXCEPT !.uncertain = TRUE]

ReadJsonObject(repo, dir) == IF dir \in DOMAIN repo.manifests THEN repo.manifests[dir] ELSE None
\* The directories below the root that have a manifest, with what the globs say of them.
CandidateManifests(repo, root, patterns) ==
    LET Inside(dir) == SubSeq(dir, Len(root) + 1, Len(dir))
        below == {dir \in DOMAIN repo.manifests : Len(dir) > Len(root) /\ IsPrefix(root, dir)}
    IN  {[dir |-> dir, kind |-> MatchWorkspacePatterns(patterns, Inside(dir))] : dir \in below}
ReadFailed(repo, candidates) == \E c \in candidates : ReadJsonObject(repo, c.dir) = None
CollectMembers(repo, candidates, kind) ==
    {[name |-> doc.name, version |-> doc.version] : doc \in
        {d \in {ReadJsonObject(repo, c.dir) : c \in {x \in candidates : x.kind = kind}} : d # None /\ d.name # None /\ d.version # None}}

YarnWorkspacePackages(repo, root) ==
    LET manifest == ReadJsonObject(repo, root)
        candidates == {c \in CandidateManifests(repo, root, manifest.workspaces.globs) : c.kind # "nonmember"}
    IN  CASE manifest = None -> Uncertain
          [] manifest # None /\ ~manifest.workspaces.declared -> NoMembers
          [] manifest # None /\ manifest.workspaces.declared /\ manifest.workspaces.globs = None -> Uncertain
          [] OTHER ->
               IF ~repo.listed \/ Cardinality(candidates) > MaxYarnManifests THEN Uncertain
               ELSE [members |-> CollectMembers(repo, candidates, "member"),
                     maybe |-> CollectMembers(repo, candidates, "unknown"), uncertain |-> ReadFailed(repo, candidates)]

\* "yes": a workspace package stands for it; "no": provably none does.
WorkspaceFulfils(info, name, range) ==
    LET Matches(group) == {VersionSatisfies(m.version, range) : m \in {x \in group : x.name = name}}
        Judged(sure, perhaps) ==
          CASE "yes" \in sure -> "yes"
            [] "yes" \notin sure /\ (info.uncertain \/ (sure \cup perhaps) \ {"no"} # {}) -> "unknown"
            [] OTHER -> "no"
    IN  Judged(Matches(info.members), Matches(info.maybe))

-----------------------------------------------------------------------------
(* Where a lockfile says a package came from, taken from explicit evidence   *)
(* only (javascript-typescript adapter, lockfile/origin.ts and pnpm.ts).  A  *)
(* URL is [strict, fragment, origin, path]: strict when it is plain http(s)  *)
(* without user, query or control characters; path is [package, plain, tgz], *)
(* the name in front of "/-/", whether one file name follows, and its kind.  *)
CONSTANTS
    BadScopes,     \* scopes that are no plain lower-case names
    ScopeOf(_)     \* the scope of a package name, None where it has none

StrictHttpUrl(url, allowFragment) == url # None /\ url.strict /\ (allowFragment \/ ~url.fragment)
\* A tarball's origin counts where its path has the shape of a registry's, for this package.
TarballOrigin(url, name, allowFragment) ==
    IF StrictHttpUrl(url, allowFragment) /\ url.path.tgz /\ url.path.package = name /\ url.path.plain THEN url.origin ELSE None

\* A line of .npmrc is [scope, quoted, url]; scope None: some other setting.
BindingOf(line) ==
    IF ~line.quoted /\ line.scope \notin BadScopes /\ StrictHttpUrl(line.url, FALSE) THEN line.url.origin ELSE None
\* A scope bound differently by two lines is bound to nothing.
ScopedRegistries(lines) ==
    [s \in {lines[i].scope : i \in DOMAIN lines} \ {None} |->
        LET origins == {BindingOf(lines[i]) : i \in {j \in DOMAIN lines : lines[j].scope = s}}
        IN  IF \E o \in origins : origins = {o} THEN CHOOSE o \in origins : TRUE ELSE None]
\* What the lockfile's directory binds, unless the member binds it otherwise.
MergeBindings(root, member) ==
    [s \in DOMAIN root |-> IF s \in DOMAIN member /\ member[s] # root[s] THEN None ELSE root[s]]
ScopedOrigin(name, bindings) == IF ScopeOf(name) \in DOMAIN bindings THEN bindings[ScopeOf(name)] ELSE None

\* A resolution is [recorded, tarball, integrityOnly]; recorded says whether it has a tarball.
PnpmOrigin(name, numbered, resolution, bindings) ==
    CASE resolution = None -> None
      [] resolution # None /\ resolution.recorded -> TarballOrigin(resolution.tarball, name, FALSE)
      [] OTHER -> IF resolution.integrityOnly /\ numbered THEN ScopedOrigin(name, bindings) ELSE None

-----------------------------------------------------------------------------
(* What the readers of package-lock.json, pnpm-lock.yaml, yarn.lock and      *)
(* bun.lock take from a parsed lockfile: the packages by their id, with the  *)
(* packages each needs, and what the project at a path depends on directly   *)
(* (javascript-typescript adapter, lockfile/npm.ts, pnpm.ts, yarn.ts and     *)
(* bun.ts).  A place in node_modules is [dir, at]: the directory of a        *)
(* workspace member (<<>> for the root) and the names from there inwards.    *)
CONSTANT MaxLinks   \* how many links npm.ts follows

Evidence(kind, name) == [kind |-> kind, name |-> name]
Mismatch(name) == Evidence("lockfile-manifest-mismatch", name)
NamesOf(declared) == {declared[i].name : i \in DOMAIN declared}
\* Names that only one of the manifest and the lockfile has.
Mismatches(declared, locked) == {Mismatch(n) : n \in (NamesOf(declared) \ locked) \cup (locked \ NamesOf(declared))}
Direct(declared, ids) == [i \in DOMAIN declared |-> [name |-> declared[i].name, dev |-> declared[i].dev, id |-> ids[i]]]
Unresolved(declared) == Direct(declared, [i \in DOMAIN declared |-> None])
Found(ids) == ids \ {None}
\* The first of a sequence of candidates that a table has.
FirstIn(candidates, table) ==
    LET hits == {i \in DOMAIN candidates : candidates[i] \in DOMAIN table}
    IN  IF hits = {} THEN None ELSE candidates[CHOOSE i \in hits : \A j \in hits : i <= j]
\* From the innermost node_modules outwards.
Outwards(at, name) == [i \in 1..(Len(at) + 1) |-> Append(SubSeq(at, 1, Len(at) + 1 - i), name)]

-----------------------------------------------------------------------------
(* npm, lockfileVersion 2 and 3                                            *)

\* A link stands for what it links to, through at most MaxLinks links.
Follow(entries, key) ==
    LET hop[n \in 0..MaxLinks] ==
          IF n = 0 THEN key
          ELSE LET at == hop[n - 1] link == entries[at].link IN IF link # None /\ link \in DOMAIN entries THEN link ELSE at
    IN  hop[MaxLinks]
\* Slip: a workspace member does not fall back to the root's node_modules.
SlipNpmCandidates(from, name) == [i \in 1..(Len(from.at) + 1) |-> [dir |-> from.dir, at |-> Outwards(from.at, name)[i]]]
NpmCandidates(from, name) ==
    [i \in 1..(Len(from.at) + 1) |-> [dir |-> from.dir, at |-> Outwards(from.at, name)[i]]]
      \o (IF from.dir = <<>> THEN <<>> ELSE <<[dir |-> <<>>, at |-> <<name>>]>>)
NpmLookup(entries, from, name) ==
    LET hit == FirstIn(NpmCandidates(from, name), entries) IN IF hit = None THEN None ELSE Follow(entries, hit)
RootListed(entry) == entry.dependencies \cup entry.devDependencies \cup entry.optional
NpmPackage(entries, key) ==
    LET e == entries[key] At(n) == NpmLookup(entries, key, n)
        name == IF e.name = None THEN Last(key.at) ELSE e.name
    IN  [name |-> name, version |-> e.version, origin |-> TarballOrigin(e.resolved, name, FALSE),
         needs |-> Found({At(n) : n \in e.dependencies \cup e.optional \cup e.peers}),
         peers |-> Found({At(n) : n \in e.peers}), unresolvedPeers |-> {n \in e.peers : At(n) = None},
         missing |-> {n \in e.dependencies \ e.optional : At(n) = None}, unverified |-> {}]
ParseNpm(lock, dir, declared) ==
    LET entries == lock.entries
        project == [dir |-> dir, at |-> <<>>]
        direct == Direct(declared, [i \in DOMAIN declared |-> NpmLookup(entries, project, declared[i].name)])
        listed == IF project \in DOMAIN entries THEN RootListed(entries[project]) ELSE {}
    IN  [packages |-> [k \in {j \in DOMAIN entries : entries[j].link = None /\ j # [dir |-> <<>>, at |-> <<>>]} |-> NpmPackage(entries, k)],
         direct |-> direct,
         evidence |-> (IF project \in DOMAIN entries THEN Mismatches(declared, listed) ELSE {Mismatch(None)})
                        \cup {Mismatch(d.name) : d \in {x \in ToSet(direct) : x.id = None /\ x.name \in listed}}]
\* Version 1: a tree of names without members; what a package requires and the tree lacks is left out.
ParseNpmV1(lock, dir, declared) ==
    LET packages == [k \in DOMAIN lock.entries |->
                       [name |-> Last(k), version |-> lock.entries[k].version, origin |-> TarballOrigin(lock.entries[k].resolved, Last(k), FALSE),
                        needs |-> Found({FirstIn(Outwards(k, n), lock.entries) : n \in lock.entries[k].requires}),
                        peers |-> {}, unresolvedPeers |-> {}, missing |-> {}, unverified |-> {}]]
        direct == Direct(declared, [i \in DOMAIN declared |-> FirstIn(<< <<declared[i].name>> >>, packages)])
    IN  [packages |-> packages, direct |-> direct,
         evidence |-> (IF dir = <<>> THEN {} ELSE {Evidence("lockfile-workspace-unsupported", None)})
                        \cup {Mismatch(d.name) : d \in {x \in ToSet(direct) : x.id = None}}]

-----------------------------------------------------------------------------
(* pnpm, lockfileVersion 6 and 9.  A reference is a version, an alias      *)
(* [name, version], or None for link: and file:.                           *)

IsAlias(reference) == reference.name # None
PnpmRef(table, name, reference) ==
    IF reference = None THEN None
    ELSE FirstIn(<< <<IF IsAlias(reference) THEN reference.name ELSE name, reference.version>> >>, table)
PnpmPackage(table, key, scopes) ==
    LET e == table[key]
    IN  [name |-> key[1], version |-> e.version, origin |-> PnpmOrigin(key[1], e.numbered, e.resolution, scopes),
         needs |-> Found({PnpmRef(table, n, e.dependencies[n]) : n \in DOMAIN e.dependencies} \cup {PnpmRef(table, n, e.optional[n]) : n \in DOMAIN e.optional}),
         peers |-> {}, unresolvedPeers |-> {},
         missing |-> {n \in DOMAIN e.dependencies \ DOMAIN e.optional : e.dependencies[n] # None /\ PnpmRef(table, n, e.dependencies[n]) = None},
         unverified |-> {}]
ParsePnpm(lock, path, declared, scopes) ==
    LET packages == [k \in DOMAIN lock.table |-> PnpmPackage(lock.table, k, scopes)]
        locked == lock.importers[path]
    IN  CASE lock.major \notin {6, 9} ->
               [packages |-> <<>>, direct |-> Unresolved(declared), evidence |-> {Evidence("lockfile-unsupported", None)}]
          [] path \notin DOMAIN lock.importers -> [packages |-> packages, direct |-> Unresolved(declared), evidence |-> {Mismatch(None)}]
          [] OTHER ->
               [packages |-> packages, evidence |-> Mismatches(declared, DOMAIN locked),
                direct |-> Direct(declared, [i \in DOMAIN declared |-> IF declared[i].name \in DOMAIN locked THEN PnpmRef(lock.table, declared[i].name, locked[declared[i].name]) ELSE None])]

-----------------------------------------------------------------------------
(* Yarn.  A pattern is <<name, range>>, in Berry also <<name, "npm:", range>>; *)
(* entries of one header share their id.                                       *)

YarnLookup(lock, name, range) ==
    LET hit == FirstIn(IF lock.berry THEN << <<name, range>>, <<name, "npm:", range>> >> ELSE << <<name, range>> >>, lock.patterns)
    IN  IF hit = None THEN None ELSE lock.patterns[hit]
LockedNames(lock) == {p[1] : p \in DOMAIN lock.patterns}
YarnPackage(lock, id, info) ==
    LET e == lock.entries[id]
        optional == DOMAIN e.optional \cup (IF lock.berry THEN e.markedOptional ELSE {})
        absent == {n \in DOMAIN e.dependencies \ optional : YarnLookup(lock, n, e.dependencies[n]) = None}
    IN  [name |-> e.name, version |-> e.version, origin |-> IF lock.berry THEN None ELSE TarballOrigin(e.resolved, e.name, TRUE),
         needs |-> Found({YarnLookup(lock, n, e.dependencies[n]) : n \in DOMAIN e.dependencies} \cup {YarnLookup(lock, n, e.optional[n]) : n \in DOMAIN e.optional}),
         peers |-> {}, unresolvedPeers |-> {},
         missing |-> {n \in absent : IF lock.berry THEN n \notin LockedNames(lock) ELSE WorkspaceFulfils(info, n, e.dependencies[n]) = "no"},
         unverified |-> {n \in absent : ~lock.berry /\ WorkspaceFulfils(info, n, e.dependencies[n]) = "unknown"}]
ParseYarn(lock, path, declared, info) ==
    LET member == {id \in DOMAIN lock.entries : lock.entries[id].workspace = path}
        own == lock.entries[CHOOSE id \in member : TRUE]
        locked == [n \in DOMAIN own.dependencies \cup DOMAIN own.dev |-> IF n \in DOMAIN own.dev THEN own.dev[n] ELSE own.dependencies[n]]
        Whole(rest) ==
          [packages |-> [id \in DOMAIN lock.entries |-> YarnPackage(lock, id, info)], direct |-> rest.direct, evidence |-> rest.evidence]
        Stale(matches) ==
          [direct |-> matches, evidence |-> {Mismatch(declared[i].name) : i \in {j \in DOMAIN declared : matches[j].id = None /\ ~declared[j].local}}]
    IN  Whole(
          CASE ~lock.berry -> Stale(Direct(declared, [i \in DOMAIN declared |-> YarnLookup(lock, declared[i].name, declared[i].constraint)]))
            [] lock.berry /\ member = {} -> [direct |-> Unresolved(declared), evidence |-> {Mismatch(None)}]
            [] OTHER ->
                 [evidence |-> Mismatches(declared, DOMAIN locked),
                  direct |-> Direct(declared, [i \in DOMAIN declared |->
                      IF declared[i].name \in DOMAIN locked THEN YarnLookup(lock, declared[i].name, locked[declared[i].name]) ELSE None])])

-----------------------------------------------------------------------------
(* Bun.  A key is the names from the root inwards.                         *)

BunLookup(table, from, name) == FirstIn(Outwards(from, name), table)
BunPackage(table, key) ==
    LET e == table[key] At(n) == BunLookup(table, key, n)
        asked == IF e.workspace THEN {} ELSE e.dependencies
    IN  [name |-> e.name, version |-> e.version, origin |-> None,
         needs |-> IF e.workspace THEN {} ELSE Found({At(n) : n \in e.dependencies \cup e.optional \cup e.peers}),
         peers |-> Found({At(n) : n \in e.peers}), unresolvedPeers |-> {n \in e.peers : At(n) = None},
         missing |-> {n \in asked \ e.optional : At(n) = None}, unverified |-> {}]
ParseBun(lock, path, declared) ==
    LET packages == [k \in DOMAIN lock.table |-> BunPackage(lock.table, k)]
        ws == lock.workspaces[path]
        Nested(n) == IF ws.name # None /\ path # <<>> THEN BunLookup(lock.table, <<ws.name>>, n) ELSE None
        Seen(n) == IF Nested(n) # None THEN Nested(n) ELSE BunLookup(lock.table, <<>>, n)
    IN  IF path \notin DOMAIN lock.workspaces
        THEN [packages |-> packages, direct |-> Unresolved(declared), evidence |-> {Mismatch(None)}]
        ELSE [packages |-> packages, evidence |-> Mismatches(declared, ws.listed),
              direct |-> Direct(declared, [i \in DOMAIN declared |->
                  IF declared[i].name \notin ws.listed \/ Seen(declared[i].name) = None \/ lock.table[Seen(declared[i].name)].workspace THEN None ELSE Seen(declared[i].name)])]

-----------------------------------------------------------------------------
(* The dependency graph of one JavaScript project, from the lockfile that    *)
(* covers it (javascript-typescript adapter, lockfile/build.ts and model.ts).*)
(* A repository adds to its manifests its lockfiles by [dir, file], each     *)
(* [failure, doc]; the lines of its .npmrc files by directory; and the globs *)
(* of its pnpm-workspace.yaml files by directory.  Of more than 50           *)
(* mismatches the code lists 50; here they are all listed.                   *)
CONSTANTS
    MaxVisits,   \* how many visits the closures of one graph may take
    Failed       \* what a build that throws answers

NoBindings == [s \in {} |-> None]
EmptyGraph == [nodes |-> {}, closure |-> [n \in {} |-> {}], peers |-> {}, unresolvedPeers |-> {}, incomplete |-> TRUE]

-----------------------------------------------------------------------------
(* model.ts                                                                *)

Reachable(packages, start) ==
    LET Needs(id) == IF id \in DOMAIN packages THEN packages[id].needs ELSE {}
        reach[n \in 0..Cardinality(DOMAIN packages)] ==
          IF n = 0 THEN {start} ELSE LET before == reach[n - 1] IN before \cup UNION {Needs(id) : id \in before}
    IN  reach[Cardinality(DOMAIN packages)]
MissingEntryEvidence(packages, ids) ==
    {Evidence("lockfile-unresolved-reachable", n) : n \in UNION {packages[id].missing : id \in ids}}
      \cup {Evidence("lockfile-workspace-unverified", n) : n \in UNION {packages[id].unverified : id \in ids}}
Counted(all, prod) == all
\* A link that leads to no entry is an id without a package: its name is read all the same.
AssembleGraph(parsed) ==
    LET packages == parsed.packages
        direct == {d \in ToSet(parsed.direct) : d.id # None /\ d.id \in DOMAIN packages}
        reach == [id \in {d.id : d \in direct} |-> Reachable(packages, id)]
        visits == MapThenSumSet(LAMBDA id : Cardinality(reach[id]), DOMAIN reach) + MapThenSumSet(LAMBDA d : Cardinality(reach[d.id]), direct)
        all == UNION {reach[id] : id \in DOMAIN reach}
        prod == UNION {reach[d.id] : d \in {x \in direct : ~x.dev}}
        Names(ids) == {packages[id].name : id \in ids}
        evidence == MissingEntryEvidence(packages, Counted(all, prod))
    IN  CASE visits > MaxVisits -> [graph |-> EmptyGraph, evidence |-> {Evidence("graph-budget-exceeded", None)}]
          [] visits <= MaxVisits /\ ~(all \subseteq DOMAIN packages) -> Failed
          [] OTHER ->
               [evidence |-> evidence,
                graph |-> [nodes |-> {[name |-> packages[id].name, version |-> packages[id].version, origin |-> packages[id].origin,
                                       needs |-> Names(packages[id].needs), dev |-> id \notin prod] : id \in all},
                           closure |-> [n \in {d.name : d \in direct} |->
                               LET d == CHOOSE x \in direct : x.name = n IN Names(reach[d.id] \ {d.id}) \ {n}],
                           peers |-> UNION {{d.name} \X Names(packages[d.id].peers \cap DOMAIN packages) : d \in direct},
                           unresolvedPeers |-> UNION {{d.name} \X packages[d.id].unresolvedPeers : d \in direct},
                           incomplete |-> evidence # {} \/ direct # ToSet(parsed.direct)]]

-----------------------------------------------------------------------------
(* build.ts                                                                *)

\* The first field that names a dependency decides; optional ones come first.
ReadDeclared(manifest) ==
    IF manifest = None THEN <<>>
    ELSE LET Field(entries, dev) == [i \in DOMAIN entries |-> [name |-> entries[i].name, constraint |-> entries[i].constraint, local |-> entries[i].local, dev |-> dev]]
             Add(seen, entry) == IF entry.name \in NamesOf(seen) THEN seen ELSE Append(seen, entry)
         IN  FoldLeft(Add, <<>>, Field(manifest.optional, FALSE) \o Field(manifest.dependencies, FALSE) \o Field(manifest.dev, TRUE))

LockfileNames == <<"npm-shrinkwrap.json", "package-lock.json", "pnpm-lock.yaml", "yarn.lock", "bun.lock">>
FormatOf(file) ==
    CASE file \in {"npm-shrinkwrap.json", "package-lock.json"} -> "npm" [] file = "pnpm-lock.yaml" -> "pnpm"
      [] file = "yarn.lock" -> "yarn" [] file = "bun.lock" -> "bun" [] OTHER -> "bun-binary"
\* The nearest directory upwards that has a lockfile; there, the package manager's own if it has several.
FindLockfile(repo, project) ==
    LET Has(n, file) == [dir |-> SubSeq(project.path, 1, n), file |-> file] \in DOMAIN repo.locks
        depths == {n \in 0..Len(project.path) : \E file \in ToSet(LockfileNames) \cup {"bun.lockb"} : Has(n, file)}
        nearest == Max(depths)
        found == SelectSeq(LockfileNames, LAMBDA file : Has(nearest, file))
        unique == SelectSeq(found, LAMBDA file : file # "package-lock.json" \/ ~Has(nearest, "npm-shrinkwrap.json"))
        own == SelectSeq(unique, LAMBDA file : FormatOf(file) \in project.managers)
        At(file) == [dir |-> SubSeq(project.path, 1, nearest), file |-> file]
    IN  CASE depths = {} -> None
          [] depths # {} /\ found = <<>> -> At("bun.lockb")
          [] OTHER -> At(IF own # <<>> /\ Len(unique) > 1 THEN own[1] ELSE unique[1])

Bindings(repo, dir) == IF dir \in DOMAIN repo.npmrc THEN ScopedRegistries(repo.npmrc[dir]) ELSE NoBindings
Parsed(repo, project, lock, rel, declared) ==
    LET doc == repo.locks[lock].doc IN
    CASE FormatOf(lock.file) = "npm" ->
           (CASE doc.shape = "packages" -> ParseNpm(doc, rel, declared)
              [] doc.shape = "tree" -> ParseNpmV1(doc, rel, declared)
              [] OTHER -> [packages |-> <<>>, direct |-> Unresolved(declared), evidence |-> {Evidence("lockfile-unsupported", None)}])
      [] FormatOf(lock.file) = "pnpm" ->
           ParsePnpm(doc, rel, declared, MergeBindings(Bindings(repo, lock.dir), IF rel = <<>> THEN NoBindings ELSE Bindings(repo, project.path)))
      [] FormatOf(lock.file) = "yarn" -> ParseYarn(doc, rel, declared, YarnWorkspacePackages(repo, lock.dir))
      [] OTHER -> ParseBun(doc, rel, declared)

\* Where membership is not known a missing importer is a limitation, not a stale lockfile.
ReconcileMembership(evidence, membership) ==
    IF membership # "unknown" THEN evidence
    ELSE {IF e = Mismatch(None) THEN Evidence("lockfile-workspace-unverified", None) ELSE e : e \in evidence}
IncompleteKinds == {"lockfile-unsupported", "lockfile-manifest-mismatch", "lockfile-workspace-unverified"}
BuildLockfileGraph(repo, project) ==
    LET Of(manifest, lock) ==
          LET unread == IF manifest = None THEN {Evidence("manifest-unreadable", None)} ELSE {}
              rel == SubSeq(project.path, Len(lock.dir) + 1, Len(project.path))
              Nothing(kind) == [graph |-> EmptyGraph, evidence |-> unread \cup {Evidence(kind, None)}]
              Joined(built, reconciled) ==
                IF built = Failed THEN Failed
                ELSE [evidence |-> unread \cup reconciled \cup built.evidence,
                      graph |-> [built.graph EXCEPT !.incomplete = @ \/ \E e \in reconciled : e.kind \in IncompleteKinds]]
              As(membership, parsed) == Joined(AssembleGraph(parsed), ReconcileMembership(parsed.evidence, membership))
              Within(membership) ==
                IF membership = "nonmember" THEN Nothing("lockfile-not-workspace-member")
                ELSE As(membership, Parsed(repo, project, lock, rel, ReadDeclared(manifest)))
          IN  CASE lock = None -> Nothing("lockfile-missing")
                [] lock # None /\ lock.file = "bun.lockb" -> Nothing("lockfile-unsupported")
                [] OTHER ->
                     IF repo.locks[lock].failure # None THEN Nothing(repo.locks[lock].failure)
                     ELSE Within(IF FormatOf(lock.file) = "pnpm" /\ rel # <<>>
                                 THEN PnpmWorkspaceMembership(IF lock.dir \in DOMAIN repo.pnpm THEN repo.pnpm[lock.dir] ELSE None, rel) ELSE "none")
    IN  Of(ReadJsonObject(repo, project.path), FindLockfile(repo, project))

\* What the run says of its lockfiles.
NoteKinds == {"lockfile-manifest-mismatch", "lockfile-malformed", "lockfile-unreadable", "lockfile-too-large", "lockfile-unsupported",
              "lockfile-workspace-unsupported", "lockfile-workspace-unverified", "lockfile-unresolved-reachable"}
LockfileNotes(repo, projects) == {e \in UNION {BuildLockfileGraph(repo, p).evidence : p \in projects} : e.kind \in NoteKinds}

=============================================================================
