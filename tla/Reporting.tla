----------------------------- MODULE Reporting ------------------------------
(* What is made of a result: the check run of the app and the exit code of   *)
(* the command line; and what an analysis may claim by it.                   *)
EXTENDS ResultAssembly, SequencesExt, Calls

-----------------------------------------------------------------------------
(* From a result to a check run: renderCheck, failedCheck and              *)
(* truncateSummary of packages/checks-renderer/src/render.ts, the added    *)
(* lines of diff.ts, and main of packages/action/src/post-check.ts.        *)
(*                                                                         *)
(*   report  [findings, excluded, native], native a set of                 *)
(*           [dependency, status]                                          *)
(*   added   the files whose declarations the pull request added           *)
(*                                                                         *)
(* A summary is the sequence of its lines, each [section, of]; the texts   *)
(* are left out, and the limit counts lines instead of characters.         *)
CONSTANTS
    MaxAnnotations, MaxForkAnnotations,
    SummaryLimit,       \* lines a summary may have
    PageSize, MaxFilePages

\* A set in some order.
Listed(items) == FoldSet(LAMBDA item, list : Append(list, item), <<>>, items)
LinesOf(section, items) == LET list == Listed(items) IN [i \in DOMAIN list |-> [section |-> section, of |-> list[i]]]

TruncateSummary(summary) ==
    IF Len(summary) <= SummaryLimit THEN summary
    ELSE Append(SubSeq(summary, 1, SummaryLimit - 1), [section |-> "truncated", of |-> None])

Unresolved(report) == {e \in report.native : e.status # "produced"}
ScopeLines(report)  == IF report.excluded THEN LinesOf("scope", {"excluded"}) ELSE <<>>
GapLines(report)    == ScopeLines(report) \o LinesOf("native", Unresolved(report))
NoteLines(report, appNotes) ==
    LinesOf("facts", InGroup(report.findings, "fact")) \o LinesOf("awareness", InGroup(report.findings, "awareness"))
      \o LinesOf("notes", appNotes) \o LinesOf("notes", InGroup(report.findings, "incomplete"))
      \o LinesOf("notes", InGroup(report.findings, "note"))

\* Slip: the notes of the application do not count against a clean check.
SlipIncomplete(report, appNotes) ==
    InGroup(report.findings, "incomplete") # {} \/ report.excluded \/ Unresolved(report) # {}
\* What the run did not see, as far as it counts.
Incomplete(report, appNotes) ==
    InGroup(report.findings, "incomplete") # {} \/ appNotes # {} \/ report.excluded \/ Unresolved(report) # {}

\* Only a confident finding about a line the pull request added is annotated.
Annotatable(f, added) == f.confidence = "high" /\ f.located /\ f.file \in added

Check(conclusion, title, summary, annotations) ==
    [conclusion |-> conclusion, title |-> title, summary |-> TruncateSummary(summary), annotations |-> annotations]

RenderCheck(report, added, appNotes) ==
    LET verdicts   == InGroup(report.findings, "verdict")
        candidates == Listed({f \in verdicts : Annotatable(f, added)})
        annotated  == ToSet(SubSeq(candidates, 1, IF Len(candidates) < MaxAnnotations THEN Len(candidates) ELSE MaxAnnotations))
        others     == verdicts \ annotated
        body       ==
            GapLines(report)
              \o (IF annotated = {} THEN <<>> ELSE LinesOf("annotated", {Cardinality(annotated)}))
              \o (IF Len(candidates) <= MaxAnnotations THEN <<>> ELSE LinesOf("overflow", {Len(candidates) - MaxAnnotations}))
              \o LinesOf("high", {f \in others : f.confidence = "high"})
              \o LinesOf("lower", {f \in others : f.confidence # "high"})
              \o NoteLines(report, appNotes)
    IN  CASE verdicts = {} /\ ~Incomplete(report, appNotes) ->
                 Check("success", "quiet", GapLines(report) \o NoteLines(report, appNotes), {})
          [] verdicts = {} /\ Incomplete(report, appNotes) ->
                 Check("neutral", "incomplete", GapLines(report) \o NoteLines(report, appNotes), {})
          [] OTHER -> Check("neutral", Cardinality(verdicts), body, annotated)

FailedCheck(reason) == Check("neutral", reason, <<>>, {})

-----------------------------------------------------------------------------
(* The action: one check run from the output of the command line           *)

\* The files of a pull request, page by page: a note when the last page is full.
PullRequestAddedLines(files) ==
    LET seen == SubSeq(files, 1, IF Len(files) < PageSize * MaxFilePages THEN Len(files) ELSE PageSize * MaxFilePages)
    IN  [added |-> {seen[i].name : i \in {j \in DOMAIN seen : seen[j].added}},
         notes |-> IF Len(files) >= PageSize * MaxFilePages THEN {"truncated"} ELSE {}]

\* What the command line wrote: a result, an error object or neither.  "sound" says that the result has every
\* field that an analysis has and well-formed findings.
IsAnalysisResult(output) == output.kind = "result" /\ output.sound

\* The answer of the whole step: the check run, or None, and its exit code.
\* pr is None for a push; listing says that the files of the pull request can be read.
PostCheck(output, pr, listing) ==
    LET lines ==
            CASE pr # None /\ listing  -> PullRequestAddedLines(pr.files)
              [] pr # None /\ ~listing -> [added |-> {}, notes |-> {"unlisted"}]
              [] OTHER -> [added |-> {}, notes |-> {}]
        rendered ==
            CASE output.kind = "error"      -> FailedCheck("cli")
              [] output.kind = "unreadable" -> FailedCheck("unreadable")
              [] output.kind = "result" /\ ~IsAnalysisResult(output) -> FailedCheck("malformed")
              [] OTHER -> RenderCheck(output.result, lines.added, lines.notes)
        Notices(listed) == SubSeq(listed, 1, IF Len(listed) < MaxForkAnnotations THEN Len(listed) ELSE MaxForkAnnotations)
        Posted(check) ==
            IF pr # None /\ pr.fork
            THEN [check |-> None, summary |-> check.summary, exit |-> 0, notices |-> Notices(Listed(check.annotations))]
            ELSE [check |-> check, notices |-> <<>>, summary |-> check.summary, exit |-> 0]
    IN  IF IsAnalysisResult(output) /\ pr # None /\ ~listing /\ ~pr.fork
        THEN [check |-> None, notices |-> <<>>, summary |-> None, exit |-> 1]
        ELSE Posted(rendered)

-----------------------------------------------------------------------------
(* The command line: parseArgs, buildConfig and run of cli.ts, commands.ts, *)
(* runScan and analysePath of scan.ts and the tally of output/human.ts, in *)
(* packages/cli/src.                                                       *)
(*                                                                         *)
(* An argument is a word [text, path], path saying that it looks like one; *)
(* the dashes [text |-> "--"]; a flag [flag]; or an option [flag, value],  *)
(* value None when it stands in the next argument.  An option value is     *)
(* given as what it parses to: a severity, a rule, a <<rule, confidence>>  *)
(* pair, an allowlist entry, or "bad".                                     *)
CONSTANTS KnownRules, KnownEcosystems

RepoCommands    == {"scan", "languages", "packages"}
PackageCommands == {"inspect", "graph", "explain", "fix"}
Commands        == RepoCommands \cup PackageCommands
NotImplemented  == Commands \ {"scan", "fix"}
Options == {"fail-on", "severity", "disable-rule", "downgrade", "allowlist", "fixture-roots"}

IsWord(arg) == "text" \in DOMAIN arg
IsFlag(arg) == "flag" \in DOMAIN arg
IsDashes(arg) == IsWord(arg) /\ arg.text = "--"

\* What has been read: "values" are those of each option, and "awaiting" is the option whose value is next.
Parsed == [flags |-> {}, values |-> [option \in Options |-> <<>>], words |-> <<>>, dashes |-> FALSE, awaiting |-> None, error |-> FALSE]
\* The last value counts for an option that takes one.
Chosen(parsed, option) == IF parsed.values[option] = <<>> THEN None ELSE Last(parsed.values[option])

TakeArg(parsed, arg) ==
    LET free == ~parsed.error /\ ~parsed.dashes /\ parsed.awaiting = None
    IN  CASE parsed.error -> parsed
          [] ~parsed.error /\ parsed.dashes ->
                 [parsed EXCEPT !.words = Append(@, IF IsWord(arg) THEN arg ELSE [text |-> "-", path |-> FALSE])]
          [] ~parsed.error /\ ~parsed.dashes /\ parsed.awaiting # None ->
                 IF IsFlag(arg) \/ IsDashes(arg) THEN [parsed EXCEPT !.error = TRUE]
                 ELSE [parsed EXCEPT !.values[parsed.awaiting] = Append(@, arg.text), !.awaiting = None]
          [] free /\ IsDashes(arg) -> [parsed EXCEPT !.dashes = TRUE]
          [] free /\ IsWord(arg) /\ ~IsDashes(arg) -> [parsed EXCEPT !.words = Append(@, arg)]
          [] free /\ IsFlag(arg) /\ arg.flag \in {"json", "help", "version"} -> [parsed EXCEPT !.flags = @ \cup {arg.flag}]
          [] free /\ IsFlag(arg) /\ arg.flag \in Options ->
                 IF arg.value = None THEN [parsed EXCEPT !.awaiting = arg.flag]
                 ELSE [parsed EXCEPT !.values[arg.flag] = Append(@, arg.value)]
          [] OTHER -> [parsed EXCEPT !.error = TRUE]
\* What has been read after each number of arguments.
Reading(argv) ==
    LET read[n \in 0..Len(argv)] == IF n = 0 THEN Parsed ELSE TakeArg(read[n - 1], argv[n]) IN read
ParseArgs(argv) ==
    LET end == Reading(argv)[Len(argv)] IN [end EXCEPT !.error = @ \/ end.awaiting # None]

WantsJson(argv) ==
    LET end == {i \in DOMAIN argv : IsDashes(argv[i])}
    IN  \E i \in DOMAIN argv : (\A j \in end : i < j) /\ IsFlag(argv[i]) /\ argv[i].flag = "json"

ScanOnly == {"fail-on", "severity", "disable-rule", "downgrade", "allowlist"}
Policies == {"disable-rule", "downgrade", "allowlist"}
HasAny(parsed, options) == \E option \in options : parsed.values[option] # <<>>

\* Which command a line means: a word that looks like a path means a scan of it, options of a scan mean a scan.
Route(parsed) ==
    LET Go(command, args) == [command |-> command, args |-> args]
        first == parsed.words[1]
    IN  CASE parsed.words # <<>> /\ first.text \in Commands -> Go(first.text, Tail(parsed.words))
          [] parsed.words # <<>> /\ first.text \notin Commands ->
                 IF parsed.dashes \/ first.path THEN Go("scan", parsed.words) ELSE Go("usage", <<>>)
          [] parsed.words = <<>> /\ ("json" \in parsed.flags \/ HasAny(parsed, ScanOnly)) -> Go("scan", <<>>)
          [] parsed.words = <<>> /\ ~("json" \in parsed.flags \/ HasAny(parsed, ScanOnly)) ->
                 Go(IF HasAny(parsed, {"fixture-roots"}) THEN "usage" ELSE "help", <<>>)

ValuesAreKnown(parsed) ==
    /\ \A option \in {"fail-on", "severity"} : HasAny(parsed, {option}) => Chosen(parsed, option) \in ToSet(SeverityOrder)
    /\ ToSet(parsed.values["disable-rule"]) \subseteq KnownRules
    /\ ToSet(parsed.values["downgrade"]) \subseteq KnownRules \X Confidences
    /\ ToSet(parsed.values["allowlist"]) \subseteq KnownEcosystems \X {"exact", "prefix"}

\* Whether the command accepts what it was given.
Accepts(route, parsed) ==
    /\ HasAny(parsed, {"fixture-roots"}) => route.command \in {"scan", "fix"}
    /\ HasAny(parsed, ScanOnly) => route.command = "scan"
    /\ ValuesAreKnown(parsed)
    /\ ~(HasAny(parsed, {"severity"}) /\ "json" \in parsed.flags)
    /\ route.command \in RepoCommands => Len(route.args) <= 1
    /\ route.command \in PackageCommands => Len(route.args) \in 1..2

\* The confidence that the last --downgrade of a rule asks for.
ParseDowngrades(given) ==
    LET For(rule) == {i \in DOMAIN given : given[i][1] = rule}
    IN  [rule \in {v[1] : v \in ToSet(given)} |-> given[CHOOSE i \in For(rule) : \A j \in For(rule) : j <= i][2]]
Policy(parsed) ==
    [disabled  |-> ToSet(parsed.values["disable-rule"]),
     downgrade |-> ParseDowngrades(parsed.values["downgrade"]),
     allowlist |-> ToSet(parsed.values["allowlist"])]

-----------------------------------------------------------------------------
(* The scan                                                                *)

\* The findings of a scan: those of the engine, and the native ones as the policy leaves them.
AnalysePath(engine, native, policy) ==
    LET Held(f) == IF f.rule \in DOMAIN policy.downgrade
                   THEN [f EXCEPT !.confidence = CapConfidence(f.confidence, policy.downgrade[f.rule])] ELSE f
    IN  engine \cup {Stamped(Held(f)) : f \in {n \in native : n.rule \notin policy.disabled}}

\* Neither awareness nor package facts count.
Counted(f) == FindingGroup(f) \notin {"awareness", "fact"}

\* Slip: the gate sees what the filter shows.
SlipGate(findings, shown, failOn) == failOn # None /\ \E f \in shown : Counted(f) /\ AtOrAbove(f, failOn)
Gate(findings, shown, failOn) == failOn # None /\ \E f \in findings : Counted(f) /\ AtOrAbove(f, failOn)

RunScan(parsed, findings) ==
    LET min    == Chosen(parsed, "severity")
        shown  == IF min = None THEN findings ELSE {f \in findings : AtOrAbove(f, min)}
        hidden == Cardinality({f \in findings : Counted(f)}) - Cardinality({f \in shown : Counted(f)})
        code   == IF Gate(findings, shown, Chosen(parsed, "fail-on")) THEN 1 ELSE 0
    IN  IF "json" \in parsed.flags THEN [exit |-> code, out |-> "result", shown |-> findings, hidden |-> 0]
        ELSE [exit |-> code, out |-> "summary", shown |-> shown, hidden |-> hidden]

Said(argv, exit, out) == [exit |-> exit, out |-> IF out = "error" /\ WantsJson(argv) THEN "error object" ELSE out,
                          shown |-> {}, hidden |-> 0]

\* One invocation.  engine and native are what the analysis of the path finds; None when there is no such
\* directory or the engine fails; preview says that a removal can be previewed.
Run(argv, engine, native, preview) ==
    LET parsed == ParseArgs(argv)
        route  == Route(parsed)
    IN  IF parsed.error THEN Said(argv, 2, "error")
        ELSE IF "version" \in parsed.flags THEN Said(argv, 0, "version")
        ELSE IF "help" \in parsed.flags THEN Said(argv, 0, "help")
        ELSE IF parsed.words # <<>> /\ parsed.words[1].text = "help"
             THEN IF Len(parsed.words) > 1 /\ parsed.words[2].text \notin Commands
                  THEN Said(argv, 2, "error") ELSE Said(argv, 0, "help")
        ELSE IF route.command = "help" THEN Said(argv, 0, "help")
        ELSE IF route.command = "usage" \/ ~Accepts(route, parsed) THEN Said(argv, 2, "error")
        ELSE IF route.command \in NotImplemented THEN Said(argv, 3, "error")
        ELSE IF engine = None THEN Said(argv, 2, "error")
        ELSE IF route.command = "fix" THEN Said(argv, IF preview THEN 0 ELSE 2, "preview")
        ELSE RunScan(parsed, AnalysePath(engine, native, Policy(parsed)))

-----------------------------------------------------------------------------
(* An analysis that becomes a check, a result on its way to the check run   *)
(* of the action, and a command line; a behaviour makes one of the three.   *)
(*                                                                          *)
(*   analysis  [outcomes, changes, context: see ResultAssembly; default,    *)
(*             proposed: the default policy, or what another one says;      *)
(*             native, added, notes: see above; uses, needs: what the       *)
(*             repository really uses, a set of names, and what its direct  *)
(*             dependencies really need, [ecosystem, project, host, name]]  *)
(*   post      [output, pr, listing]                                        *)
(*   line      [argv, engine, native, preview]                              *)
CONSTANTS Analyses, Posts, CommandLines

ProposedBy(a) ==
    IF a.default THEN DefaultPolicy(Facts(a.outcomes, a.changes, a.context), a.context.config) ELSE a.proposed
ReportAnswer(a) ==
    LET findings == AssembledFindings(a.outcomes, ProposedBy(a), a.changes, a.context)
    IN  [findings |-> findings,
         check |-> RenderCheck([findings |-> findings, excluded |-> a.context.excluded, native |-> a.native], a.added, a.notes)]
Report == Answering("report", ReportAnswer(call.with))
Action == Answering("action", PostCheck(call.with.output, call.with.pr, call.with.listing))
Command == Answering("command", Run(call.with.argv, call.with.engine, call.with.native, call.with.preview))

ReportInit == Calling("report", Analyses) \/ Calling("action", Posts) \/ Calling("command", CommandLines)
ReportNext == Report \/ Action \/ Command
ReportSpec == ReportInit /\ [][ReportNext]_callVars

\* A finding has these fields, whoever made it.
IsFinding(f) ==
    f \in [kind : {f.kind}, rule : {f.rule}, dependency : {f.dependency}, confidence : Confidences, severity : {f.severity},
           marks : {f.marks}, limited : {f.limited}, plain : {f.plain}, file : {f.file}, located : {f.located}]
\* What the scan and the adapters say of their own work: notes (run-adapter.ts, isolated.ts, analyse-directory.ts).
OwnNotes(a) ==
    a.context.engineNotes \cup a.context.notes \cup UNION {o.findings \cup o.notes : o \in a.outcomes}
\* Of a whole scan in which no usage stage was cut, an adapter that calls usage and references analysed has seen
\* each use of what it found declared, and its graphs have each need of one direct dependency for another.
SeesWhatIsThere(a) ==
    LET in == Facts(a.outcomes, a.changes, a.context)
    IN  (\A o \in Detected(a.outcomes) : ~o.usageIncomplete) =>
        \A d \in in.dependencies : d.ecosystem \in in.referenceAnalysed =>
            /\ d.name \in a.uses => \E u \in in.usages : u.name = d.name /\ ~u.removed
            /\ \A n \in a.needs : SameProject(n, d) /\ n.name = d.name /\ n.host \in DirectsOf(in, d) \ {d.name} =>
                   \E g \in in.graphs : /\ SameProject(g, d)
                                        /\ \E edges \in {"closure", "peers", "unresolved"} :
                                               n.host \in DOMAIN g[edges] /\ d.name \in g[edges][n.host]
\* A word, or a flag that has a value, here or in the next argument, exactly if it is an option.
IsArgument(arg) ==
    \/ DOMAIN arg = {"text", "path"} /\ arg.text # None
    \/ DOMAIN arg = {"flag"} /\ arg.flag \notin Options
    \/ DOMAIN arg = {"flag", "value"} /\ arg.flag \in Options
ReportAssumption ==
    /\ \A a \in Analyses :
           /\ \A f \in OwnNotes(a) : IsFinding(f) /\ f.kind = "info"
           /\ a.default \in BOOLEAN
           /\ ~a.default /\ a.proposed # None => \A f \in a.proposed : IsFinding(f)
           /\ \A rule \in DOMAIN a.context.config.downgrade : a.context.config.downgrade[rule] \in Confidences
           /\ \A o \in a.outcomes : o.usageIncomplete => o.findings # {}
           /\ SeesWhatIsThere(a)
    /\ PageSize \in Nat /\ MaxFilePages \in Nat /\ MaxNotes \in Nat
    /\ \A p \in Posts : /\ p.output.kind \in {"result", "error", "unreadable"} /\ p.listing \in BOOLEAN
                        /\ p.pr # None => Len(p.pr.files) \in Nat
    /\ None \notin Options
    /\ \A line \in CommandLines :
           /\ line.argv \in Seq(ToSet(line.argv)) /\ \A arg \in ToSet(line.argv) : IsArgument(arg)
           /\ line.engine = None \/ IsFiniteSet(line.engine)
           /\ IsFiniteSet(line.native)

-----------------------------------------------------------------------------
(* Properties                                                              *)

Claims == {f \in result.findings : f.kind \in AbsenceKinds}

\* Nothing in the repository uses or needs d, and nothing excuses it.
IsTrulyUnused(a, d) ==
    /\ d.name \notin a.uses
    /\ ~ \E n \in a.needs, e \in Merged(a.outcomes, "dependencies") :
             n.name = d.name /\ SameProject(n, d) /\ SameProject(e, d) /\ n.host = e.name /\ e.name # d.name
    /\ d.kind \notin {"peer", "optional"} /\ d.registry
    /\ ~IsAllowlisted(a.context.config, d)

\* What the run knows that it did not see.
PartlySeen(a) ==
    \/ a.context.incomplete \/ a.context.excluded \/ a.context.notes # {}
    \/ \E o \in a.outcomes : o.notes # {} \/ (o.detected /\ o.malformed # {})

\* What the default policy calls unused is used by nothing in the repository,
\* seen or not, is needed by no other direct dependency, and was not excused
\* by the configuration, however adapters, the scan and the options combine
\* (policy.ts, analyse.ts: "a false unused is the worst output").
UnusedIsUnused ==
    Answered("report") /\ call.with.default =>
        \A f \in Claims : \E d \in Merged(call.with.outcomes, "dependencies") :
            d.name = f.dependency /\ d.manifest = f.file /\ IsTrulyUnused(call.with, d)

\* Nobody's claim that something is not needed, the policy's or an adapter's,
\* outlives partial facts unmarked: none is left when a usage stage was cut
\* short, each is capped and says why when the scan was, and none that says
\* "unused" is ever shown as certain; without such a gap its severity is the
\* one the claim deserved when it was made (analyse.ts:479-632).
PartialFactsNeverConvict ==
    Answered("report") =>
        /\ (\E o \in Detected(call.with.outcomes) : o.usageIncomplete) => Claims = {}
        /\ \A f \in Claims :
               /\ PartlySeen(call.with) => f.limited /\ f.confidence # "high"
               /\ f.kind = "unused" => f.confidence # "high"
               /\ PartlySeen(call.with) \/ \E p \in ProposedBy(call.with) :
                      p.kind = f.kind /\ p.rule = f.rule /\ p.dependency = f.dependency /\ f.severity = SeverityOf(p)

\* What is called unused is used by nothing in the repository, seen or not, and
\* no such claim outlives facts that are partial unmarked (policy.ts,
\* analyse.ts:388-606).
AbsenceIsProved == UnusedIsUnused /\ PartialFactsNeverConvict

Marks(f) == f.marks \cap {"healthFact", "awareness", "adapterNote"}
ListsAll(output) ==
    /\ \A f \in output.findings : f.kind = "info" /\ Marks(f) # {}
    /\ ~output.excluded /\ \A e \in output.native : e.status = "produced"

\* What a line says, by what stands where: an option counts until the dashes,
\* and its value stands with it or in the next argument.
Dashed(argv, n)  == \E j \in 1..n : IsDashes(argv[j])
Stated(argv, flag) == {i \in DOMAIN argv : IsFlag(argv[i]) /\ argv[i].flag = flag /\ ~Dashed(argv, i)}
ValueAt(argv, i) == IF argv[i].value = None THEN argv[i + 1].text ELSE argv[i].value
LastValue(argv, at) == ValueAt(argv, CHOOSE i \in at : \A j \in at : j <= i)
Positional(argv, i) ==
    \/ Dashed(argv, i - 1)
    \/ IsWord(argv[i]) /\ ~IsDashes(argv[i]) /\ ~ \E option \in Options : i - 1 \in Stated(argv, option) /\ argv[i - 1].value = None
AsksForHelp(argv) ==
    \/ Stated(argv, "help") # {}
    \/ \E i \in DOMAIN argv : /\ Positional(argv, i) /\ \A j \in 1..i - 1 : ~Positional(argv, j)
                              /\ IsWord(argv[i]) /\ argv[i].text = "help"

\* What a scan finds: all that the engine does, and of the native rules that the line leaves on, as far as it trusts them.
Judged(line) ==
    LET CapOf(f) == {i \in Stated(line.argv, "downgrade") : ValueAt(line.argv, i)[1] = f.rule}
        Held(f) == IF CapOf(f) = {} THEN f
                   ELSE [f EXCEPT !.confidence = CapConfidence(f.confidence, LastValue(line.argv, CapOf(f))[2])]
    IN  line.engine \cup {Stamped(Held(f)) : f \in
            {n \in line.native : \A i \in Stated(line.argv, "disable-rule") : ValueAt(line.argv, i) # n.rule}}

\* A gate is never silently skipped: a line with --fail-on ends with 0 only if
\* it asks for help or the version, or a scan ran and found nothing that counts
\* at the threshold it names last, whatever the display filter hides, and with
\* 1 only if one did; a filtered display says how much it hides; and a line
\* that asks for JSON is given the whole result or an error object (cli.ts:
\* 300-373, scan.ts:164-209).
GateIsNeverSkipped ==
    Answered("command") =>
        LET argv == call.with.argv
            failOn == Stated(argv, "fail-on")
            Fails(f) == Counted(f) /\ AtOrAbove(f, LastValue(argv, failOn))
        IN  /\ failOn # {} /\ result.exit = 0 =>
                   \/ result.out = "version" /\ Stated(argv, "version") # {}
                   \/ result.out = "help" /\ AsksForHelp(argv)
                   \/ result.out \in {"summary", "result"} /\ \A f \in Judged(call.with) : ~Fails(f)
            /\ result.exit = 1 =>
                   failOn # {} /\ result.out \in {"summary", "result"} /\ \E f \in Judged(call.with) : Fails(f)
            /\ result.out = "summary" =>
                   /\ result.shown \subseteq Judged(call.with)
                   /\ Cardinality({f \in Judged(call.with) : Counted(f)}) = result.hidden + Cardinality({f \in result.shown : Counted(f)})
            /\ result.out = "result" => result.shown = Judged(call.with)
            /\ result.out \in {"summary", "result", "error", "error object"} =>
                   (Stated(argv, "json") # {} <=> result.out \in {"result", "error object"})

\* A clean check is a promise: nothing failed, was cut, dropped or left out,
\* nobody proposed anything, each change of the pull request was accounted
\* for, and no adapter can mark its failure away; neither the action nor a
\* result that is not one can turn a gap into a pass, and no command line skips
\* its gate (render.ts of the checks renderer, post-check.ts, cli.ts).
SuccessIsMeant ==
    /\ GateIsNeverSkipped
    /\ Answered("report") /\ result.check.conclusion = "success" =>
           LET a == call.with
           IN  /\ ~PartlySeen(a) /\ a.context.engineNotes = {} /\ a.notes = {}
               /\ \A o \in a.outcomes : o.findings = {} /\ ~o.usageIncomplete
               /\ ProposedBy(a) = {}
               /\ a.changes # None => \A c \in a.changes : c.change # "removed" =>
                      \E d \in Merged(a.outcomes, "dependencies") :
                          d.ecosystem = c.ecosystem /\ d.name = c.name /\ d.manifest = c.manifest
               /\ ListsAll([findings |-> result.findings, excluded |-> a.context.excluded, native |-> a.native])
    /\ Answered("action") /\ result.check # None /\ result.check.conclusion = "success" =>
           /\ call.with.output.kind = "result" /\ call.with.output.sound /\ ListsAll(call.with.output.result)
           /\ call.with.pr # None => call.with.listing /\ Len(call.with.pr.files) < PageSize * MaxFilePages
=============================================================================
