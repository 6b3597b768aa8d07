--------------------------- MODULE MCPathAliases ---------------------------
(* A project "app" with a config that extends files beside it, a package of  *)
(* the workspace and an installed one, each with options of its own, and the *)
(* imports of a file of the project.                                         *)
EXTENDS PathAliases, Calls

S(name) == <<name>>
J(name) == <<name, ".json">>
App == S("app")
Root == <<App, TsConfig>>
FileA == <<App, J("a")>>
FileB == <<App, S("conf"), J("b")>>
FileW == <<S("shared"), J("base")>>
FileP == <<NodeModules, S("p"), TsConfig>>
Other == <<NodeModules, S("p"), J("strict")>>
Written == [a |-> <<".", "/", "a">>, b |-> <<".", "/", "conf", "/", "b", ".json">>, root |-> <<".", "/", "tsconfig", ".json">>,
            up |-> <<"..", "/", "tsconfig">>, w |-> <<"@", "/", "w", "/", "base">>, p |-> <<"p">>]
\* a file below conf names the others from there
From(file, e) == IF file = "b" /\ e \in {"a", "root"} THEN <<"..", "/">> \o SubSeq(Written[e], 3, Len(Written[e])) ELSE Written[e]

Entry(key, targets) == [key |-> key, targets |-> targets]
At == <<"@", "/">>
Src == Entry(At \o <<"*">>, <<<<"src", "/", "*">>>>)
Lib == Entry(At \o <<"*">>, <<<<"none", "/", "*">>, <<"lib", "/", "*">>>>)
One == Entry(At \o <<"db">>, <<<<"lib", "/", "db">>>>)
All == Entry(<<"*">>, <<<<"src", "/", "*">>, <<"*">>>>)
Hide == Entry(<<"*">>, <<<<"node_modules", "/", "*">>>>)
Out == Entry(At \o <<"d", "*">>, <<<<"..", "/", "..", "/", "..", "/", "*">>>>)
Options == [none |-> [base |-> None, paths |-> None], src |-> [base |-> None, paths |-> <<Src>>], lib |-> [base |-> None, paths |-> <<Lib>>],
            base |-> [base |-> <<".", "/", "src">>, paths |-> None]]
Specifiers == {<<"@", "/", "db">>, <<"@", "/", "db", ".js">>, <<"db">>, <<"@", "/", "dir">>}

Plain == [ext |-> [f \in {"root", "a", "b"} |-> <<>>], opt |-> [f \in {"root", "a", "b", "w", "p"} |-> "none"], paths |-> None, base |-> None, ws |-> "there",
          pkg |-> "file", bad |-> None, where |-> "src", dir |-> "index", spec |-> <<"@", "/", "db">>]
\* Extends of one, two and shared bases, in a circle and too deep.
Merges ==
    {[Plain EXCEPT !.ext = e, !.opt = [f \in {"root", "a", "b", "w", "p"} |-> IF f \in DOMAIN o THEN o[f] ELSE "none"], !.bad = bad] :
       e \in [root : {<<"a">>, <<"a", "b">>, <<"b", "a">>, <<"a", "b", "a">>, <<"a", "up", "b">>}, a : {<<>>, <<"b">>, <<"root">>, <<"b", "w">>}, b : {<<>>, <<"a">>, <<"w">>}],
       o \in [root : {"none", "src", "base"}, a : {"none", "src", "lib"}, b : {"none", "lib", "base"}, w : {"none", "src"}], bad \in {None, "b"}}
\* What the entries of paths and baseUrl select.
Selections ==
    {[Plain EXCEPT !.paths = p, !.base = b, !.spec = s, !.where = w, !.dir = d] :
       p \in {<<>>} \cup {<<x, y, z>> : x, y, z \in {Src, One, All, Hide, Out}}, b \in {None, <<"src">>}, s \in Specifiers, w \in {"src", "lib", "none"},
       d \in {"index", "steered", "astray", "unread", "nothing"}}
\* Bases in packages.
Bases ==
    {[Plain EXCEPT !.ext["root"] = e, !.opt = [f \in {"root", "a", "b", "w", "p"} |-> IF f \in DOMAIN o THEN o[f] ELSE "none"], !.ws = w, !.pkg = p] :
       e \in {<<"w">>, <<"p">>, <<"w", "p">>, <<"p", "w">>}, o \in [root : {"none", "src", "base"}, w : {"none", "src", "lib"}, p : {"none", "src", "lib", "base"}],
       w \in {"there", "lost", "twice"}, p \in {"file", "field", "root", "types", "hidden", "absent"}}
Scenarios == Merges \cup {s \in Selections : s.paths # <<>> \/ s.base # None} \cup Bases

Manifest(failure, name) == [failure |-> failure, name |-> name, tsconfig |-> None, exports |-> None, steers |-> FALSE, resolves |-> FALSE]
Text(t) == [text |-> t, conditions |-> <<>>]
Cond(c) == [text |-> None, conditions |-> c]
ManifestOfP(c) ==
    LET strict == <<".", "/", "strict", ".json">>
    IN  [Manifest(None, S("p")) EXCEPT
           !.tsconfig = IF c.pkg = "field" THEN <<"strict", ".json">> ELSE None,
           !.exports = CASE c.pkg = "root" -> [text |-> strict, subpaths |-> <<>>]
                         [] c.pkg = "types" -> [text |-> None, subpaths |-> <<[key |-> <<".">>, value |-> Cond(<<[name |-> "browser", value |-> Text(<<".", "/", "tsconfig", ".json">>)],
                                                                                                              [name |-> "types", value |-> Text(strict)]>>)]>>]
                         [] c.pkg = "hidden" -> [text |-> None, subpaths |-> <<[key |-> <<".", "/", "*">>, value |-> Text(<<".", "/", "*", ".json">>)]>>]
                         [] OTHER -> None]
IsThere(c, f) == CASE f \in {FileW} -> c.ws # "lost" [] f = <<S("twin"), PackageJson>> -> c.ws = "twice"
                   [] f \in {FileP, Other, <<NodeModules, S("p"), PackageJson>>} -> c.pkg # "absent" [] OTHER -> TRUE
DirManifest == <<App, S("src"), S("dir"), PackageJson>>
RepoOf(c) ==
    LET listing == SelectSeq(<<<<NodeModules, S("p"), PackageJson>>, FileP, Other, DirManifest>>
                       \o (IF c.dir \in {"index", "astray"} THEN <<<<App, S("src"), S("dir"), <<"index", ".ts">>>>>> ELSE <<<<App, S("src"), S("dir"), <<"main", ".ts">>>>>>)
                       \o (IF c.where = "none" THEN <<>> ELSE <<<<App, S(c.where), <<"db", ".ts">>>>>>)
                       \o <<Root, FileA, FileB, <<S("shared"), PackageJson>>, FileW, <<S("twin"), PackageJson>>>>, LAMBDA f : IsThere(c, f))
        Doc(n, options) == [failure |-> IF c.bad = n THEN "tsconfig-malformed" ELSE None, baseUrl |-> options.base, paths |-> options.paths,
                            extends |-> IF n \in DOMAIN c.ext THEN [i \in DOMAIN c.ext[n] |-> From(n, c.ext[n][i])] ELSE <<>>]
        P(at) == Doc("p", Options[IF (c.pkg \in {"field", "root", "types"}) = (at = Other) THEN c.opt["p"] ELSE "none"])
    IN  [listing |-> listing,
         configs |-> (Root :> (IF c.paths = None THEN Doc("root", Options[c.opt["root"]]) ELSE Doc("root", [base |-> c.base, paths |-> IF c.paths = <<>> THEN None ELSE c.paths])))
                       @@ (FileA :> Doc("a", Options[c.opt["a"]])) @@ (FileB :> Doc("b", Options[c.opt["b"]]))
                       @@ (FileW :> Doc("w", Options[c.opt["w"]])) @@ (FileP :> P(FileP)) @@ (Other :> P(Other)),
         packages |-> (<<NodeModules, S("p"), PackageJson>> :> ManifestOfP(c)) @@ (<<S("shared"), PackageJson>> :> Manifest(None, <<S("@"), S("w")>>))
                       @@ (<<S("twin"), PackageJson>> :> Manifest(None, <<S("@"), S("w")>>))
                       @@ (DirManifest :> [Manifest(IF c.dir = "unread" THEN "large" ELSE None, None) EXCEPT !.steers = c.dir \in {"steered", "astray"}, !.resolves = c.dir = "steered"])]

-----------------------------------------------------------------------------
(* What TypeScript makes of it. *)
\* The configs that are merged, the last that sets an option wins.
RECURSIVE Chain(_, _, _)
Chain(c, f, n) ==
    LET below == IF f \in DOMAIN c.ext /\ n > 0 THEN FlattenSeq([i \in DOMAIN c.ext[f] |-> IF c.ext[f][i] = "up" THEN <<>> ELSE Chain(c, c.ext[f][i], n - 1)]) ELSE <<>>
    IN  Append(below, f)
DirOf == [f \in {"root", "a", "b", "w", "p"} |-> CASE f = "b" -> <<App, S("conf")>> [] f = "w" -> <<S("shared")>> [] f = "p" -> <<NodeModules, S("p")>> [] OTHER -> <<App>>]
OptionOf(c, f) == IF f = "root" /\ c.paths # None THEN [base |-> c.base, paths |-> IF c.paths = <<>> THEN None ELSE c.paths]
                  ELSE IF f = "p" /\ c.pkg \in {"absent", "hidden"} THEN Options["none"] ELSE Options[c.opt[f]]
LastWith(s, Test(_)) == LET at == {i \in DOMAIN s : Test(s[i])} IN IF at = {} THEN None ELSE s[CHOOSE i \in at : \A j \in at : j <= i]
Effective(c) ==
    LET chain == Chain(c, "root", 3)
        b == LastWith(chain, LAMBDA f : OptionOf(c, f).base # None)
        p == LastWith(chain, LAMBDA f : OptionOf(c, f).paths # None)
        baseUrl == IF b = None THEN None ELSE JoinPath(DirOf[b], OptionOf(c, b).base)
    IN  [baseUrl |-> baseUrl, paths |-> IF p = None THEN <<>> ELSE OptionOf(c, p).paths,
         pathsBase |-> IF p = None THEN None ELSE IF b # None THEN baseUrl ELSE DirOf[p]]
\* The files of this project that a path names.
Named(c, path) ==
    CASE path \in {<<App, S("src"), S("db")>>, <<App, S("src"), <<"db", ".js">>>>} -> c.where = "src"
      [] path \in {<<App, S("lib"), S("db")>>, <<App, S("lib"), <<"db", ".js">>>>} -> c.where = "lib"
      [] path = <<App, S("src"), S("dir")>> -> c.dir \in {"index", "steered"}
      [] OTHER -> FALSE
Reaches(c, dir, text) == LET path == JoinPath(dir, text) IN path # None /\ Named(c, path)
TypeScripts(c) ==
    LET Rank(entry) == IF Stars(entry.key) = 0 THEN 99 ELSE Len(Before(entry.key))
        Fits(paths) == {i \in DOMAIN paths : IF Stars(paths[i].key) = 0 THEN paths[i].key = c.spec ELSE Matches(c.spec, paths[i].key)}
        Best(paths, fits) == CHOOSE i \in fits : \A j \in fits : Rank(paths[j]) < Rank(paths[i]) \/ (Rank(paths[j]) = Rank(paths[i]) /\ i <= j)
        Leads(dir, entry) ==
          \E t \in Range(entry.targets) : Reaches(c, dir, IF Stars(entry.key) = 0 THEN t ELSE Filled(t, Captured(c.spec, entry.key)))
        Under(e, fits) ==
          IF fits # {} THEN Leads(e.pathsBase, e.paths[Best(e.paths, fits)]) ELSE e.baseUrl # None /\ Reaches(c, e.baseUrl, c.spec)
        By(e) == Under(e, Fits(e.paths))
    IN  By(Effective(c))

\* What is not read: a circle, too deep or too many bases, a config that does
\* not parse, and a base that its package does not have.
Lossy(c) ==
    LET chain == Range(Chain(c, "root", 3))
        Below(f) == IF f \in DOMAIN c.ext THEN Range(c.ext[f]) ELSE {}
    IN  \/ "root" \in Below("a") \/ ("a" \in Below("b") /\ "b" \in Below("a"))
        \/ Cardinality(chain) - 1 > MaxExtendsBases
        \/ \E f \in {"a", "b"} : f \in Below("root") /\ (\E g \in Below(f) : Below(g) # {} /\ c.bad # g)
        \/ "b" \in chain /\ c.bad = "b"
        \/ "w" \in chain /\ c.ws # "there"
        \/ "p" \in chain /\ c.pkg \in {"absent", "hidden"}

Init == Calling("alias", Scenarios)
Next == Answering("alias", IsInternal(RepoOf(call.with), <<App, S("src")>>, call.with.spec))
Spec == Init /\ [][Next]_callVars

\* An import counts as one of the repository's own exactly if TypeScript
\* resolves it to a listed file, by the options of all the configs merged in
\* order and the one entry of paths it selects; unless something was not
\* read, and then that is noted (aliases.ts:23-27, 448-459, 263-270).
AliasesAreTypeScripts ==
    Answered("alias") => LET whole == result.limits = {} /\ result.unread = {} IN
        /\ whole => result.internal = TypeScripts(call.with) /\ result.config = Effective(call.with)
        /\ Lossy(call.with) => ~whole
        /\ ~whole => Lossy(call.with) \/ call.with.dir = "unread"

\* What an extends that is not installed would set is unknown, and that can
\* only add usage: no import is taken for one of the repository's own that
\* TypeScript, with the package installed, resolves elsewhere
\* (aliases.ts:203).
UnknownBasesOnlyAddUsage ==
    Answered("alias") /\ call.with.pkg = "absent" /\ result.limits = {} /\ result.internal =>
        TypeScripts([call.with EXCEPT !.pkg = "file"])
=============================================================================
