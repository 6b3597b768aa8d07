------------------------ MODULE MCPullRequestChanges ------------------------
(* Pull requests of a few files, the diffs git makes of them, and what       *)
(* GitHub delivers of such a diff.  A behaviour reads one of them.           *)
EXTENDS PullRequestChanges, Calls, TLC

pull == call.with

-----------------------------------------------------------------------------
(* The diff of a change: [old, new, script, binary, context].  A script is    *)
(* the lines of both sides in order; without context each run of changed     *)
(* lines is a hunk of its own.                                                *)

Line(tag, text) == [tag |-> tag, is |-> "text", text |-> text, path |-> None]
LooksLike(tag, is) == [tag |-> tag, is |-> is, text |-> "t", path |-> <<"z.ts">>]
Mark(is) == [tag |-> "x", is |-> is, text |-> "t"]
At(is, path) == [tag |-> IF is = "old" THEN "-" ELSE IF is = "new" THEN "+" ELSE "x", is |-> is, text |-> "t", path |-> path]

Before(script, i, tag) == Cardinality({j \in 1..(i - 1) : script[j].tag # tag})
Hunk(script, a, b) ==
    LET body == SubSeq(script, a, b)
        count(tag) == Len(SelectSeq(body, LAMBDA l : l.tag # tag))
    IN  <<[tag |-> "x", is |-> "hunk", text |-> "t",
           oldStart |-> Before(script, a, "+") + (IF count("+") = 0 THEN 0 ELSE 1), oldCount |-> count("+"),
           newStart |-> Before(script, a, "-") + (IF count("-") = 0 THEN 0 ELSE 1), newCount |-> count("-")]>>
          \o body
Runs(script) ==
    LET Changed(i) == i \in DOMAIN script /\ script[i].tag # " "
        starts == SetToSortSeq({i \in DOMAIN script : Changed(i) /\ ~Changed(i - 1)}, <)
        ends   == SetToSortSeq({i \in DOMAIN script : Changed(i) /\ ~Changed(i + 1)}, <)
    IN  FlattenSeq([n \in DOMAIN starts |-> Hunk(script, starts[n], ends[n])])

Sided(c) == IF c.old = None THEN c.new ELSE c.old
DiffOf(c) ==
    <<[tag |-> "x", is |-> "git", text |-> "t",
       old |-> IF c.plain THEN None ELSE Sided(c),
       new |-> IF c.plain THEN None ELSE IF c.new = None THEN c.old ELSE c.new]>>
    \o (CASE c.old = None -> <<Mark("new file")>>
          [] c.new = None -> <<Mark("deleted file")>>
          [] c.old # c.new -> <<At("rename from", c.old), At("rename to", c.new)>>
          [] OTHER -> <<>>)
    \o (IF c.binary THEN <<Mark("binary")>>
        ELSE IF c.dropped \/ (\A i \in DOMAIN c.script : c.script[i].tag = " ") THEN <<>>
        ELSE <<At("old", c.old), At("new", c.new)>>
             \o (IF c.context THEN Hunk(c.script, 1, Len(c.script)) ELSE Runs(c.script))
             \o <<[tag |-> "\\", is |-> "text", text |-> "t"]>>)

\* The lines a script adds or removes, with their numbers in that file.
Truth(script, tag, other) ==
    LET at == SetToSortSeq({i \in DOMAIN script : script[i].tag = tag}, <)
    IN  [n \in DOMAIN at |-> [line |-> Before(script, at[n], other) + 1, text |-> script[at[n]].text]]
Added(c) == IF c.binary THEN <<>> ELSE Truth(c.script, "+", "-")
Removed(c) == IF c.binary THEN <<>> ELSE Truth(c.script, "-", "+")

-----------------------------------------------------------------------------
(* The pull requests                                                         *)

Scripts ==
    {<<Line("+", "t")>>, <<Line("-", "t"), Line("+", "long")>>,
     <<Line(" ", "t"), Line("-", "t"), Line(" ", "t"), Line("+", "t"), Line("+", "u")>>,
     <<Line(" ", "t"), LooksLike("-", "old"), LooksLike("+", "new"), Line(" ", "t"), Line("-", "t")>>}
Changed(old, new, script) ==
    [old |-> old, new |-> new, script |-> script, binary |-> FALSE, context |-> TRUE, dropped |-> FALSE, plain |-> FALSE]
Edit == <<Line(" ", "t"), Line("+", "t")>>
\* GitHub sends the head of the file's diff and leaves out its patch.
WithoutPatch(c) == [c EXCEPT !.dropped = TRUE]

RootManifest == <<"package.json">>
Manifest == <<"a", "package.json">>
Sources ==
    {[Changed(o, n, s) EXCEPT !.context = x, !.plain = y]
        : o \in {<<"s.ts">>, <<"f", "s.ts">>}, n \in {<<"s.ts">>}, s \in Scripts, x, y \in BOOLEAN}
      \cup {Changed(<<"s.ts">>, None, <<Line("-", "t")>>), Changed(None, <<"s.ts">>, <<Line("+", "t")>>),
            WithoutPatch(Changed(<<"s.ts">>, <<"s.ts">>, Edit)),
            WithoutPatch(Changed(<<"s.ts">>, None, <<Line("-", "t")>>)), WithoutPatch(Changed(None, <<"s.ts">>, <<Line("+", "t")>>)),
            WithoutPatch(Changed(<<"f", "s.ts">>, <<"s.ts">>, Edit)),
            [Changed(<<"s.ts">>, <<"s.ts">>, Edit) EXCEPT !.binary = TRUE],
            Changed(<<"s.ts">>, <<"..", "s.ts">>, Edit)}
Manifests ==
    {Changed(o, n, Edit) : o, n \in {RootManifest, Manifest}}
      \cup {Changed(None, Manifest, <<Line("+", "t")>>), Changed(Manifest, None, <<Line("-", "t")>>),
            WithoutPatch(Changed(None, Manifest, <<Line("+", "t")>>)), WithoutPatch(Changed(Manifest, None, <<Line("-", "t")>>)),
            WithoutPatch(Changed(RootManifest, Manifest, Edit)), WithoutPatch(Changed(Manifest, Manifest, Edit)),
            Changed(Manifest, <<"f", "package.json">>, Edit), Changed(<<"node_modules", "package.json">>, <<"node_modules", "package.json">>, Edit),
            Changed(<<"go.mod">>, <<"go.mod">>, Edit)}
Locks == {Changed(<<"package-lock.json">>, <<"package-lock.json">>, Edit), Changed(<<"a", "package-lock.json">>, <<"a", "package-lock.json">>, Edit)}
Few == {Changed(<<"s.ts">>, <<"s.ts">>, Edit), Changed(RootManifest, RootManifest, Edit)}

Compatible(c, d) == {c.old, c.new} \cap {d.old, d.new} \subseteq {None}
PullRequests ==
    {<<c>> : c \in Sources \cup Manifests}
      \cup {<<c, d>> : c \in Sources \cup Manifests, d \in Manifests \cup Locks}
      \cup {<<Changed(<<"x.ts">>, <<"x.ts">>, Edit), Changed(<<"y.ts">>, <<"y.ts">>, Edit), c, d>> : c, d \in Few}
MCPullRequests == {pr \in PullRequests : \A i, j \in DOMAIN pr : i < j => Compatible(pr[i], pr[j])}

Dep(name, kind, constraint) == [name |-> name, kind |-> kind, constraint |-> constraint]
Declared ==
    {<<<<>>, <<Dep("n", "runtime", 1)>>>>,
     <<<<Dep("n", "runtime", 1), Dep("m", "dev", 1)>>, <<Dep("n", "dev", 1), Dep("m", "dev", 2)>>>>,
     <<<<Dep("n", "runtime", 1), Dep("n", "dev", 2)>>, <<Dep("n", "peer", 3), Dep("n", "optional", 4)>>>>,
     <<<<Dep("n", "runtime", 1), Dep("n", "dev", 2)>>, <<Dep("n", "peer", 3)>>>>,
     <<<<Dep("n", "runtime", 1)>>, <<Dep("n", "runtime", 1)>>>>,
     <<<<Dep("n", "runtime", 1)>>, None>>}

\* GitHub delivers the whole diff or, at its limit, a first part of the files;
\* the text may then be longer than the parser takes.
\* No lines: the request fails or is refused.
Deliveries == {[files |-> f, lines |-> l] : f \in {3, 9}, l \in {0, 3, 7, 12, 99}}

MCPulls == [changes : MCPullRequests, delivery : Deliveries, declared : Declared, roots : {{}, {<<"f">>}, {<<"a">>}}]

SidesOf(p, side) == p.declared[IF side = "base" THEN 1 ELSE 2]
\* What GitHub gives for a manifest's contents; None for one a side does not have.
Has(p, side, path) == \E i \in DOMAIN p.changes : path = IF side = "base" THEN p.changes[i].old ELSE p.changes[i].new
DeclaredIn(p) ==
    [at \in {"base", "head"} \X {RootManifest, Manifest, <<"f", "package.json">>} |->
        IF Has(p, at[1], at[2]) THEN SidesOf(p, at[1]) ELSE None]
Delivered(p) ==
    LET files == SubSeq(p.changes, 1, IF Len(p.changes) < p.delivery.files THEN Len(p.changes) ELSE p.delivery.files)
        lines == FlattenSeq([i \in DOMAIN files |-> DiffOf(files[i])])
    IN  [lines |-> SubSeq(lines, 1, IF Len(lines) < p.delivery.lines THEN Len(lines) ELSE p.delivery.lines),
         cut   |-> Len(lines) > p.delivery.lines]

SomePulls ==
    {p \in MCPulls : /\ Len(p.changes) > 2 => p.roots = {}
                     /\ p.declared[2] = None => p.delivery.lines = 99
                     /\ (\A i \in DOMAIN p.changes : {p.changes[i].old, p.changes[i].new} \cap {RootManifest, Manifest} = {})
                           => p.declared = <<<<>>, <<Dep("n", "runtime", 1)>>>>}
ReadPull(p) ==
    LET Of(delivered) == IF p.delivery.lines = 0 THEN None ELSE ParseUnifiedDiff(delivered.lines, delivered.cut)
        Told(diff, context) == [diff |-> diff, context |-> context, bounded |-> BoundSourceChanges(context.sources)]
        From(diff) == Told(diff, PullRequestContext(diff, DeclaredIn(p), p.roots))
    IN  From(Of(Delivered(p)))

ReadPullRequest == Answering("pullRequestContext", ReadPull(pull))
PullInit == Calling("pullRequestContext", SomePulls)
PullNext == ReadPullRequest

-----------------------------------------------------------------------------
(* Properties                                                               *)

StatusOf(c) == CASE c.old = None -> "added" [] c.new = None -> "deleted" [] c.old # c.new -> "renamed" [] OTHER -> "modified"

\* What was parsed is true of a change: its paths, its kind and every line with
\* its number.  Without the patch an added or deleted file keeps both the paths
\* of its header, and no line of it is known.
IsParsed(f, c) ==
    /\ f.status = StatusOf(c) /\ f.binary = c.binary
    /\ IF c.dropped THEN PathOf(f) = PathOf(c) ELSE f.old = c.old /\ f.new = c.new
    /\ c.dropped \/ (AddedLines(f) = Added(c) /\ RemovedLines(f) = Removed(c))

\* The changes of a manifest account for the difference of its two sides.
Leads(changes, base, head) ==
    LET Old(c) == [name |-> c.name[2], kind |-> c.before.kind, constraint |-> c.before.constraint]
        New(c) == [name |-> c.name[2], kind |-> c.after.kind, constraint |-> c.after.constraint]
        from   == {c \in changes : c.before # None}
        to     == {c \in changes : c.after # None}
        olds   == {Old(c) : c \in from}
    IN  /\ olds \subseteq ToSet(base) /\ Cardinality(olds) = Cardinality(from)
        /\ (ToSet(base) \ olds) \cup {New(c) : c \in to} = ToSet(head)
        \* One change of a name is one entry: no kind left by one is entered by another of it.
        /\ \A c, d \in changes : c.before # None /\ c.after = None /\ d.before = None => c.name[2] # d.name[2]

\* A context that calls itself complete tells each difference between the
\* declarations of both sides, whatever patches GitHub left out, a removed one
\* under the path its manifest had, and the lockfiles and the files left out by
\* the fixture scope; and it tells each changed line with its number, unless
\* GitHub left out the patch of a file that was added, deleted or renamed: one
\* of a file that was only modified is noticed (changes.ts:66), these are not.
\* The bound on source lines drops nothing silently (unified.ts:148-286,
\* dependency-changes.ts:119-294, changes.ts:62-229, source-changes.ts:27-102).
CompleteMeansEveryChange ==
    Answered("pullRequestContext") /\ result.context.complete =>
        LET p == pull.changes
            files == result.diff.files
            in == {i \in DOMAIN p : ~IsExcluded(p[i], pull.roots)}
        IN  /\ Len(files) = Len(p)
            /\ \A i \in DOMAIN p : IsParsed(files[i], p[i]) /\ (p[i].dropped => StatusOf(p[i]) # "modified")
            /\ result.context.excluded = Len(p) - Cardinality(in)
            /\ \A i \in in :
                 CASE MatchOf(p[i]) = None ->
                        LET s == [path |-> PathOf(p[i]), removed |-> Removed(p[i]), added |-> Added(p[i])]
                        IN  p[i].dropped \/ s.removed \o s.added = <<>> \/ s \in ToSet(result.context.sources)
                   [] HasRole(p[i], "manifest") ->
                        Leads({c \in result.context.changes :
                                 c.name[1] = IF c.after = None THEN Sided(p[i]) ELSE PathOf(p[i])},
                              IF p[i].old = None THEN <<>> ELSE SidesOf(pull, "base"),
                              IF p[i].new = None THEN <<>> ELSE SidesOf(pull, "head"))
                   [] OTHER -> PathOf(p[i]) \in result.context.lockfiles
            /\ ~result.bounded.finding => result.bounded.changes = result.context.sources
            /\ result.bounded.used <= MaxTotalChars

-----------------------------------------------------------------------------
(* Deliveries with a field missing or odd, the files they change, and what   *)
(* GitHub lists of those.                                                    *)
AFile(name) == [name |-> <<name>>, previous |-> None]
SomeFiles ==
    {AFile("package.json"), AFile("s.ts"), AFile("readme"), AFile("scope"),
     [name |-> <<"dist", "s.ts">>, previous |-> None], [name |-> <<"old.json">>, previous |-> <<"package.json">>],
     [name |-> <<"s.ts">>, previous |-> <<"x.txt">>]}
Few1 == {AFile("package.json"), AFile("s.ts"), AFile("readme")}
ChangedLists == UNION {[1..n -> SomeFiles] : n \in 0..2} \cup UNION {[1..n -> Few1] : n \in {3, 4}}

PullPayload == [action |-> "opened", repository |-> "r", installation |-> 1, head |-> "h", base |-> "b", number |-> 7, before |-> "p"]
PushPayload == [repository |-> "r", installation |-> 1, ref |-> DefaultBranch, after |-> "h", before |-> "p", deleted |-> FALSE]
Odd(p, fields, values) == {p} \cup {[p EXCEPT ![f] = v] : f \in fields, v \in values}
PullPayloads ==
    Odd(PullPayload, {"repository", "installation", "head", "base", "number", "before"}, {None})
      \cup {[PullPayload EXCEPT !.action = a, !.before = b] : a \in {"closed", "synchronize", "reopened"}, b \in {"p", ZeroSha, None}}
PushPayloads ==
    Odd(PushPayload, {"repository", "installation", "ref", "after", "before"}, {None})
      \cup {[PushPayload EXCEPT !.ref = "tag"], [PushPayload EXCEPT !.before = ZeroSha],
            [PushPayload EXCEPT !.deleted = TRUE], [PushPayload EXCEPT !.after = ZeroSha]}
RerunPayload == [action |-> "rerequested", check |-> CheckName, repository |-> "r", installation |-> 1, run |-> 9, head |-> "h", number |-> 7, base |-> "b"]
RerunPayloads == Odd(RerunPayload, {"repository", "installation", "run", "head", "number", "base"}, {None})
                   \cup {[RerunPayload EXCEPT !.action = "created"], [RerunPayload EXCEPT !.check = "other"]}

\* The commits of a push change a file each, the last one all that are left;
\* of those beyond the cap the payload says nothing.
Commits(changed, commits) ==
    [n \in 1..Least(commits, CommitCap) |->
        Names(SubSeq(changed, n, IF n = commits THEN Len(changed) ELSE Least(n, Len(changed))))]

Repository(id, name, full) == [id |-> id, name |-> name, owner |-> "o", fullName |-> full]
Granted == {Repository(1, "a", "a"), Repository(2, "b", "b"), Repository(2, "c", "c"), Repository(3, "d", "x"),
            Repository(None, "e", "e"), [Repository(4, "g", "g") EXCEPT !.owner = None]}

FilterCalls ==
    [event : {"pull_request"}, payload : PullPayloads, changed : ChangedLists, listed : BOOLEAN, trigger : BOOLEAN]
      \cup [event : {"push"}, payload : PushPayloads, commits : {0, 1, 2, 3, 4}, changed : ChangedLists, listed : BOOLEAN, trigger : {TRUE}]
      \cup [event : {"check_run"}, payload : RerunPayloads, changed : ChangedLists, listed : BOOLEAN, trigger : BOOLEAN]
      \cup [event : {"installation", "installation_repositories"},
            payload : [action : {"created", "added"}, installation : {1, None},
                       repositories : UNION {[1..n -> Granted] : n \in 0..2}, added : UNION {[1..n -> Granted] : n \in {3}}]]

FilterAnswer(c) ==
    LET lookup(kind) == IF c.listed THEN ChangedFiles(kind, c.changed) ELSE None
    IN  CASE c.event = "pull_request" -> Decide(c.event, c.payload, lookup("pull_request"), c.trigger)
          [] c.event = "push" -> Decide(c.event, [commits |-> Commits(c.changed, c.commits)] @@ c.payload, lookup("push"), c.trigger)
          [] c.event = "check_run" -> WithRerunSourceOnly(DecideRerequest(c.payload), lookup("pull_request"), c.trigger)
          [] OTHER -> InstallationCandidates(c.event, c.payload)

FilterEvent == Answering("filter", FilterAnswer(call.with))
EventInit == Calling("filter", FilterCalls)
EventNext == FilterEvent

-----------------------------------------------------------------------------
(* Properties                                                               *)

Relevant1(c) == LET all == Names(c.changed)
                IN  \/ DependencyFilesIn(all) # {} \/ ScopeConfigIn(all) # {}
                    \/ c.event # "push" /\ c.trigger /\ SourceFilesIn(all) # {}
OnlySource(c) == Relevant1(c) /\ DependencyFilesIn(Names(c.changed)) = {} /\ ScopeConfigIn(Names(c.changed)) = {}

\* A well-formed event that changes a relevant file, under its new or its old
\* name, is analysed whatever part of its files GitHub listed; a job marked as
\* source-only changes no dependency file; a re-run is marked as the first run
\* of its pull request; and an installation's repositories come once each
\* (filter.ts:93-276, changed-files.ts:20-63, rerequested.ts, installation.ts).
RelevantIsAnalysed ==
    Answered("filter") =>
        LET c == call.with
        IN  CASE c.event \in {"pull_request", "push"} ->
                   /\ c.payload \in {PullPayload, PushPayload} /\ Relevant1(c) => result.analyse
                   /\ result.analyse => /\ c.payload.repository # None /\ result.head \notin {None, ZeroSha}
                                        /\ result.trigger.sourceOnly => OnlySource(c) /\ c.event = "pull_request"
              [] c.event = "check_run" ->
                   /\ result.analyse /\ result.trigger.sourceOnly => OnlySource(c)
                   /\ c.payload = RerunPayload =>
                        LET first == Decide("pull_request", PullPayload, IF c.listed THEN ChangedFiles("pull_request", c.changed) ELSE None, c.trigger)
                        IN  result.trigger.sourceOnly = (first.analyse /\ first.trigger.sourceOnly)
              [] OTHER ->
                   LET granted == IF c.event = "installation" THEN c.payload.repositories ELSE c.payload.added
                   IN  /\ \A i, j \in DOMAIN result : result[i].id = result[j].id => i = j
                       /\ result # <<>> => \A i \in DOMAIN granted :
                             granted[i] \in {Repository(1, "a", "a"), Repository(2, "b", "b")} => granted[i].id \in {result[n].id : n \in DOMAIN result}
                       /\ \A n \in DOMAIN result : None \notin {result[n].id, result[n].owner}

-----------------------------------------------------------------------------
Init == PullInit \/ EventInit
Next == PullNext \/ EventNext
=============================================================================
