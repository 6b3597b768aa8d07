------------------------- MODULE PullRequestChanges -------------------------
(***************************************************************************)
(* What a pull request changes: pullRequestContext in                      *)
(* packages/github-app/src/pull-request/changes.ts with core's             *)
(* extractDependencyChanges (diff/dependency-changes.ts), the classes of   *)
(* files (diff/dependency-files.ts) and the bound on source lines          *)
(* (engine/source-changes.ts).                                             *)
(*                                                                         *)
(* A path is a sequence of names.  A manifest declares a sequence of       *)
(* dependencies [name, kind, constraint], no kind and name twice.          *)
(***************************************************************************)
EXTENDS Absent, Integers, SequencesExt

-----------------------------------------------------------------------------
(* The parser of unified diffs, parseUnifiedDiff in                        *)
(* packages/core/src/diff/unified.ts.                                      *)
(*                                                                         *)
(* A line of a diff has the tag it begins with (" ", "+", "-", "\\", ""    *)
(* for an empty line, "x" for any other) and what it reads as outside a    *)
(* hunk: "git", "old" (---), "new" (+++), "hunk", "unreadable hunk", "new  *)
(* file", "deleted file", "rename from", "rename to", "binary" or "text".  *)
(* Both matter: a removed line can look like a header.  Quoted paths are   *)
(* decoded, None is /dev/null or a path that cannot be read.               *)
CONSTANTS MaxFiles, MaxLines

NewFile(old, new) == [old |-> old, new |-> new, status |-> "modified", binary |-> FALSE, hunks |-> <<>>]

Start == [files |-> <<>>, current |-> None, inHunk |-> FALSE, oldLine |-> 0, newLine |-> 0,
          oldLeft |-> 0, newLeft |-> 0, total |-> 0, truncated |-> FALSE, problems |-> {}, skip |-> FALSE,
          stopped |-> FALSE]

\* finalise: what the paths say outranks the mode lines.
Finalised(f) ==
    [f EXCEPT !.status =
        CASE f.old = None /\ f.new # None -> "added"
          [] f.new = None /\ f.old # None -> "deleted"
          [] f.old # f.new /\ @ = "modified" -> "renamed"
          [] OTHER -> @]

EndFile(p) ==
    IF p.current = None THEN p
    ELSE [p EXCEPT !.files = Append(@, Finalised(p.current)), !.current = None, !.inHunk = FALSE,
                   !.problems = IF p.current.old = None /\ p.current.new = None
                                THEN @ \cup {"no readable path"} ELSE @]

StartFile(p, old, new) ==
    LET q == EndFile(p)
    IN  IF Len(q.files) >= MaxFiles THEN [q EXCEPT !.truncated = TRUE, !.stopped = TRUE]
        ELSE [q EXCEPT !.current = NewFile(old, new), !.inHunk = FALSE]

InHunk(p) == p.inHunk /\ (p.oldLeft > 0 \/ p.newLeft > 0)

\* Slip: the lines of a removal count on the new side.
SlipHunkLine(p, line) ==
    [p EXCEPT !.total = @ + 1,
              !.current.hunks[Len(p.current.hunks)] =
                  Append(@, [tag |-> IF line.tag = "" THEN " " ELSE line.tag, text |-> line.text, old |-> p.oldLine, new |-> p.newLine]),
              !.oldLine = IF line.tag = "+" THEN @ ELSE @ + 1,
              !.oldLeft = IF line.tag = "+" THEN @ ELSE @ - 1,
              !.newLine = @ + 1,
              !.newLeft = @ - 1]

\* A line of the hunk, with its numbers; blank context may have lost its space.
HunkLine(p, line) ==
    [p EXCEPT !.total = @ + 1,
              !.current.hunks[Len(p.current.hunks)] =
                  Append(@, [tag |-> IF line.tag = "" THEN " " ELSE line.tag, text |-> line.text, old |-> p.oldLine, new |-> p.newLine]),
              !.oldLine = IF line.tag = "+" THEN @ ELSE @ + 1,
              !.oldLeft = IF line.tag = "+" THEN @ ELSE @ - 1,
              !.newLine = IF line.tag = "-" THEN @ ELSE @ + 1,
              !.newLeft = IF line.tag = "-" THEN @ ELSE @ - 1]

StartHunk(p, line) ==
    [p EXCEPT !.current.hunks = Append(@, <<>>), !.inHunk = TRUE,
              !.oldLine = line.oldStart, !.oldLeft = line.oldCount,
              !.newLine = line.newStart, !.newLeft = line.newCount]

\* A line that is not of a hunk.
Header(p, line, next) ==
    CASE line.tag = "\\" -> p
      [] line.is = "git" -> StartFile(p, line.old, line.new)
      [] line.is = "old" /\ next.is = "new" ->
            LET q == IF p.current = None \/ p.current.hunks # <<>> THEN StartFile(p, line.path, next.path)
                     ELSE [p EXCEPT !.current.old = line.path, !.current.new = next.path]
            IN  [q EXCEPT !.skip = ~q.stopped]
      [] p.current = None -> p
      [] line.is = "hunk" -> StartHunk(p, line)
      [] line.is = "unreadable hunk" -> [p EXCEPT !.inHunk = FALSE, !.problems = @ \cup {"unreadable hunk"}]
      [] line.is = "new file" -> [p EXCEPT !.current.status = "added"]
      [] line.is = "deleted file" -> [p EXCEPT !.current.status = "deleted"]
      [] line.is = "rename from" -> [p EXCEPT !.current.old = line.path, !.current.status = "renamed"]
      [] line.is = "rename to" -> [p EXCEPT !.current.new = line.path, !.current.status = "renamed"]
      [] line.is = "binary" -> [p EXCEPT !.current.binary = TRUE]
      [] OTHER -> p

EndEarly(p) == [p EXCEPT !.oldLeft = 0, !.newLeft = 0, !.problems = @ \cup {"ended early"}]

ReadLine(p, line, next) ==
    CASE p.stopped -> p
      [] p.skip -> [p EXCEPT !.skip = FALSE]
      [] InHunk(p) /\ line.tag \in {" ", "+", "-", ""} ->
            IF p.total + 1 > MaxLines THEN [p EXCEPT !.truncated = TRUE, !.stopped = TRUE] ELSE HunkLine(p, line)
      [] InHunk(p) /\ line.tag = "\\" -> p
      [] InHunk(p) -> Header(EndEarly(p), line, next)
      [] OTHER -> Header(p, line, next)

\* parseUnifiedDiff; cut says that the text was longer than maxChars.
ParseUnifiedDiff(lines, cut) ==
    LET Next(i) == IF i < Len(lines) THEN lines[i + 1] ELSE [tag |-> "", is |-> "text"]
        read == FoldLeft(LAMBDA p, i : ReadLine(p, lines[i], Next(i)), [Start EXCEPT !.truncated = cut],
                         [i \in 1..Len(lines) |-> i])
        end  == EndFile(read)
    IN  [files |-> end.files, truncated |-> end.truncated,
         problems |-> end.problems \cup IF end.oldLeft > 0 \/ end.newLeft > 0 THEN {"ended inside a hunk"} ELSE {}]

\* addedLines and removedLines of a file: [line, text] of its hunks.
LinesTagged(f, tag) ==
    LET tagged == SelectSeq(FlattenSeq(f.hunks), LAMBDA l : l.tag = tag)
    IN  [i \in DOMAIN tagged |-> [line |-> IF tag = "+" THEN tagged[i].new ELSE tagged[i].old, text |-> tagged[i].text]]
AddedLines(f) == LinesTagged(f, "+")
RemovedLines(f) == LinesTagged(f, "-")

-----------------------------------------------------------------------------
CONSTANTS
    DependencyFiles,   \* [name -> [ecosystem, role]] for the names that matter
    VendoredDirs,      \* directories whose files are no dependency files
    UnsafePaths,       \* paths that may not be read or shown
    ReadableManifests, \* names of the manifests that are read: package.json
    CompareLimit,      \* GITHUB_COMPARE_FILE_LIMIT
    Chars,             \* the length of a line's text
    MaxLinesPerFile, MaxLineChars, MaxTotalChars

Dir(path) == Front(path)
Name(path) == path[Len(path)]
IsWithin(path, root) == IsPrefix(root, path)

Classify(path) ==
    IF path = None \/ (\E i \in 1..(Len(path) - 1) : path[i] \in VendoredDirs) \/ Name(path) \notin DOMAIN DependencyFiles
    THEN None ELSE DependencyFiles[Name(path)]

-----------------------------------------------------------------------------
(* Declared dependencies of two sides                                      *)

Key(d) == <<d.kind, d.name>>
\* The dependencies of one side whose kind and name the other does not have.
OnlyIn(deps, others) == SelectSeq(deps, LAMBDA d : \A i \in DOMAIN others : Key(others[i]) # Key(d))
\* How many of the first i are of the name at i: pairs moves between kinds.
Nth(deps, i) == Cardinality({j \in 1..i : deps[j].name = deps[i].name})

Change(change, name, before, after) == [change |-> change, name |-> name, before |-> before, after |-> after]
Version(d) == [constraint |-> d.constraint, kind |-> d.kind]

\* Slip: of several kinds only the first that moved is taken from the removed.
SlipMoves(added, removed) ==
    {m \in (DOMAIN added) \X (DOMAIN removed) :
        added[m[1]].name = removed[m[2]].name /\ Nth(removed, m[2]) = 1}

\* <<i, j>>: the i-th added dependency is the j-th removed one in another kind.
Moves(added, removed) ==
    {m \in (DOMAIN added) \X (DOMAIN removed) :
        added[m[1]].name = removed[m[2]].name /\ Nth(added, m[1]) = Nth(removed, m[2])}

DiffDeclaredDependencies(base, head) ==
    LET added   == OnlyIn(head, base)
        removed == OnlyIn(base, head)
        moves   == Moves(added, removed)
    IN  {Change("changed", h.name, Version(b), Version(h)) :
            <<b, h>> \in {p \in ToSet(base) \X ToSet(head) : Key(p[1]) = Key(p[2]) /\ p[1].constraint # p[2].constraint}}
        \cup {Change("changed", added[m[1]].name, Version(removed[m[2]]), Version(added[m[1]])) : m \in moves}
        \cup {Change("added", added[i].name, None, Version(added[i])) : i \in DOMAIN added \ {m[1] : m \in moves}}
        \cup {Change("removed", removed[j].name, Version(removed[j]), None) : j \in DOMAIN removed \ {m[2] : m \in moves}}

-----------------------------------------------------------------------------
(* The changes of a diff                                                   *)

PathOf(f) == IF f.new # None THEN f.new ELSE f.old
Sides(f) == {f.old, f.new} \ {None}
IsUnsafe(f) == Sides(f) \cap UnsafePaths # {}
MatchOf(f) == IF Classify(PathOf(f)) # None THEN Classify(PathOf(f)) ELSE Classify(f.old)
HasRole(f, role) == MatchOf(f) # None /\ MatchOf(f).role = role

\* readDeclared(side, path): a missing side declares nothing; None is unreadable.
Read(declared, side, path) ==
    IF path = None THEN <<>> ELSE IF Name(path) \in ReadableManifests THEN declared[<<side, path>>] ELSE None

Extract(diff, declared) ==
    LET usable    == SelectSeq(diff.files, LAMBDA f : Sides(f) # {} /\ ~IsUnsafe(f))
        manifests == {f \in ToSet(usable) : HasRole(f, "manifest")}
        readable  == {f \in manifests : Read(declared, "base", f.old) # None /\ Read(declared, "head", f.new) # None}
        \* A removed declaration goes by the path the manifest had in the base.
        Found(f)  == {[c EXCEPT !.name = <<IF c.change = "removed" /\ f.old # None THEN f.old ELSE PathOf(f), @>>]
                        : c \in DiffDeclaredDependencies(Read(declared, "base", f.old), Read(declared, "head", f.new))}
        locks     == {f \in ToSet(usable) : HasRole(f, "lockfile")}
        sources   == SelectSeq(usable, LAMBDA f : MatchOf(f) = None /\ ~f.binary
                                                  /\ AddedLines(f) \o RemovedLines(f) # <<>>)
    IN  [changes   |-> UNION {Found(f) : f \in readable},
         manifests |-> {PathOf(f) : f \in manifests},
         lockfiles |-> {PathOf(f) : f \in locks},
         \* No lockfile of the ecosystem in its directory or one above changed.
         withoutLockfile |-> {PathOf(f) : f \in {f \in readable :
                                 /\ Found(f) # {}
                                 /\ \A l \in locks : MatchOf(l).ecosystem = MatchOf(f).ecosystem
                                                       => ~IsWithin(Dir(PathOf(f)), Dir(PathOf(l)))}},
         sources   |-> [i \in DOMAIN sources |-> [path |-> PathOf(sources[i]), removed |-> RemovedLines(sources[i]),
                                                  added |-> IF sources[i].new = None THEN <<>> ELSE AddedLines(sources[i])]],
         limitations |-> (IF diff.truncated THEN {"truncated"} ELSE {}) \cup diff.problems
                            \cup {"no readable path" : f \in {f \in ToSet(diff.files) : Sides(f) = {}}}
                            \cup {"unsafe path" : f \in {f \in ToSet(diff.files) : IsUnsafe(f)}}
                            \cup {"unreadable manifest" : f \in manifests \ readable}]

\* Signs that GitHub cut the diff without saying so.
SilentTruncation(files) ==
    \/ Len(files) >= CompareLimit
    \/ \E i \in DOMAIN files : files[i].status = "modified" /\ ~files[i].binary /\ files[i].hunks = <<>>

\* A file with either side below a fixture root is left out with both.
IsExcluded(f, roots) == \E p \in Sides(f), r \in roots : IsWithin(p, r)
ExcludedPaths(files, roots) == UNION {Sides(f) : f \in {f \in ToSet(files) : IsExcluded(f, roots)}}

Unavailable == [changes |-> {}, sources |-> <<>>, complete |-> FALSE, excluded |-> 0]

\* diff is None when GitHub did not return its text.
PullRequestContext(diff, declared, roots) ==
    LET Except(all, gone) ==
          [changes   |-> {c \in all.changes : c.name[1] \notin gone},
           manifests |-> all.manifests \ gone,
           lockfiles |-> all.lockfiles \ gone,
           withoutLockfile |-> all.withoutLockfile \ gone,
           sources   |-> SelectSeq(all.sources, LAMBDA s : s.path \notin gone),
           complete  |-> all.limitations = {} /\ ~SilentTruncation(diff.files),
           excluded  |-> Len(SelectSeq(diff.files, LAMBDA f : IsExcluded(f, roots)))]
    IN  IF diff = None THEN Unavailable ELSE Except(Extract(diff, declared), ExcludedPaths(diff.files, roots))

-----------------------------------------------------------------------------
(* The bound on source lines                                               *)

\* takeLines: lines too long are dropped, then those beyond a limit.
TakeLine(t, l) ==
    IF Chars[l.text] > MaxLineChars \/ Len(t.lines) >= MaxLinesPerFile \/ Chars[l.text] > t.budget
    THEN [t EXCEPT !.dropped = @ + 1]
    ELSE [t EXCEPT !.budget = @ - Chars[l.text], !.lines = Append(@, l)]
TakeLines(lines, budget) ==
    FoldLeft(TakeLine, [lines |-> <<>>, budget |-> budget, dropped |-> 0], lines)

TakeFile(b, s) ==
    IF s.path \in UnsafePaths \/ Len(s.path) > b.budget THEN [b EXCEPT !.droppedFiles = @ + 1]
    ELSE LET removed == TakeLines(s.removed, b.budget - Len(s.path))
             added   == TakeLines(s.added, removed.budget)
         IN  [b EXCEPT !.budget = added.budget,
                       !.droppedLines = @ + removed.dropped + added.dropped,
                       !.changes = Append(@, [path |-> s.path, removed |-> removed.lines, added |-> added.lines])]

\* boundSourceChanges, with its finding when anything was dropped.
BoundSourceChanges(sources) ==
    LET b == FoldLeft(TakeFile, [changes |-> <<>>, budget |-> MaxTotalChars, droppedFiles |-> 0, droppedLines |-> 0], sources)
    IN  [changes |-> b.changes, used |-> MaxTotalChars - b.budget,
         finding |-> b.droppedFiles > 0 \/ b.droppedLines > 0]

-----------------------------------------------------------------------------
(* Which deliveries are analysed: events/filter.ts, changed-files.ts,      *)
(* manifests.ts, rerequested.ts and installation.ts of packages/github-app. *)
(*                                                                         *)
(* A field a payload may lack is None.  A path is a sequence of names; a   *)
(* changed file is [name, previous], previous None unless it was renamed.  *)
CONSTANTS
    ZeroSha,
    DependencyNames, SourceNames, GeneratedNames, ExcludedDirs, ScopeConfig,
    CommitCap,          \* PUSH_PAYLOAD_COMMIT_CAP
    PageSize, MaxPages, \* of the listing of a pull request's files
    CompareCap,         \* COMPARE_FILES_CAP
    DefaultBranch, CheckName

FileName(path) == path[Len(path)]
IsDependencyFile(path) == FileName(path) \in DependencyNames
IsAnalysableSource(path) ==
    /\ \A i \in 1..(Len(path) - 1) : path[i] \notin ExcludedDirs
    /\ FileName(path) \in SourceNames \ GeneratedNames
IsScopeConfig(path) == path = ScopeConfig
DependencyFilesIn(files) == {f \in files : IsDependencyFile(f)}
SourceFilesIn(files) == {f \in files : IsAnalysableSource(f)}
ScopeConfigIn(files) == {f \in files : IsScopeConfig(f)}

-----------------------------------------------------------------------------
(* The first stage: the event and its payload                              *)

Skip == [skip |-> TRUE]
Identity(p) == [repository |-> p.repository, installation |-> p.installation]
HasIdentity(p) == p.repository # None /\ p.installation # None

PullRequestCandidate(p) ==
    IF p.action \notin {"opened", "synchronize", "reopened"} \/ ~HasIdentity(p) \/ None \in {p.head, p.base, p.number}
    THEN Skip
    ELSE [skip |-> FALSE, of |-> Identity(p), head |-> p.head, files |-> None,
          trigger |-> [kind |-> "pull_request", number |-> p.number, base |-> p.base, sourceOnly |-> FALSE,
                       before |-> IF p.action = "synchronize" /\ p.before # ZeroSha THEN p.before ELSE None]]

\* Slip: a full payload counts as complete.
SlipPayloadIsComplete(commits) == Len(commits) > 0 /\ Len(commits) <= CommitCap
\* The payload names every file unless its list of commits is at the cap.
PayloadIsComplete(commits) == Len(commits) > 0 /\ Len(commits) < CommitCap

PushCandidate(p) ==
    IF \/ ~HasIdentity(p) \/ None \in {p.ref, p.after} \/ p.deleted \/ p.after = ZeroSha
       \/ p.ref # DefaultBranch \/ p.before \in {None, ZeroSha}
    THEN Skip
    ELSE [skip |-> FALSE, of |-> Identity(p), head |-> p.after,
          files |-> IF PayloadIsComplete(p.commits) THEN UNION ToSet(p.commits) ELSE None,
          trigger |-> [kind |-> "push", before |-> p.before, sourceOnly |-> FALSE]]

PreFilter(event, p) ==
    CASE event = "pull_request" -> PullRequestCandidate(p)
      [] event = "push"         -> PushCandidate(p)
      [] OTHER                  -> Skip

-----------------------------------------------------------------------------
(* The second stage: the changed files                                     *)

Names(listing) == {f.name : f \in ToSet(listing)} \cup ({f.previous : f \in ToSet(listing)} \ {None})
Least(m, n) == IF m < n THEN m ELSE n

\* changedFiles: GitHub lists a pull request's files in pages, and at most
\* CompareCap files of a comparison.
ChangedFiles(kind, changed) ==
    CASE kind = "pull_request" ->
           LET taken == Least(Len(changed), PageSize * MaxPages)
           IN  [files |-> Names(SubSeq(changed, 1, taken)), complete |-> taken < PageSize * MaxPages]
      [] kind = "push" ->
           LET taken == Least(Len(changed), CompareCap)
           IN  [files |-> Names(SubSeq(changed, 1, taken)), complete |-> taken < CompareCap]

IsSourceOnly(changed, sourceTrigger) ==
    /\ sourceTrigger /\ changed.complete
    /\ DependencyFilesIn(changed.files) = {} /\ ScopeConfigIn(changed.files) = {}
    /\ SourceFilesIn(changed.files) # {}

Job(candidate, sourceOnly) ==
    [analyse |-> TRUE, of |-> candidate.of, head |-> candidate.head,
     trigger |-> [candidate.trigger EXCEPT !.sourceOnly = sourceOnly]]
NoJob == [analyse |-> FALSE]

\* decide; lookup is None when the listing failed.
Decide(event, p, lookup, sourceTrigger) ==
    LET c == PreFilter(event, p)
        changed == IF c.files # None THEN [files |-> c.files, complete |-> TRUE] ELSE lookup
        relevant == \/ DependencyFilesIn(changed.files) # {} \/ ScopeConfigIn(changed.files) # {}
                    \/ event = "pull_request" /\ sourceTrigger /\ SourceFilesIn(changed.files) # {}
    IN  CASE c.skip -> NoJob
          [] changed = None -> Job(c, FALSE)
          [] ~relevant /\ changed.complete -> NoJob
          [] OTHER -> Job(c, event = "pull_request" /\ IsSourceOnly(changed, sourceTrigger))

-----------------------------------------------------------------------------
(* Re-runs and installations                                               *)

DecideRerequest(p) ==
    IF \/ p.action # "rerequested" \/ p.check # CheckName \/ ~HasIdentity(p) \/ None \in {p.run, p.head}
    THEN NoJob
    ELSE [analyse |-> TRUE, of |-> Identity(p), head |-> p.head,
          trigger |-> [kind |-> "rerequested", run |-> p.run, sourceOnly |-> FALSE,
                       pullRequest |-> IF None \in {p.number, p.base} THEN None ELSE [number |-> p.number, base |-> p.base]]]

\* withRerunSourceOnly: the same question as the first run's, to the same lookup.
WithRerunSourceOnly(job, lookup, sourceTrigger) ==
    IF ~job.analyse \/ job.trigger.pullRequest = None \/ ~sourceTrigger \/ lookup = None THEN job
    ELSE [job EXCEPT !.trigger.sourceOnly = IsSourceOnly(lookup, TRUE)]

\* The repositories of an installation: well-formed ones, each id once.
InstallationCandidates(event, p) ==
    LET granted == CASE event = "installation" /\ p.action = "created" -> p.repositories
                     [] event = "installation_repositories" /\ p.action = "added" -> p.added
                     [] OTHER -> <<>>
        Usable(i) == /\ None \notin {granted[i].id, granted[i].name, granted[i].owner}
                     /\ granted[i].name = granted[i].fullName
    IN  IF p.installation = None THEN <<>>
        ELSE FoldLeft(LAMBDA out, i : IF Usable(i) /\ granted[i].id \notin {out[n].id : n \in DOMAIN out}
                                      THEN Append(out, [id |-> granted[i].id, name |-> granted[i].name, owner |-> granted[i].owner])
                                      ELSE out,
                      <<>>, [i \in DOMAIN granted |-> i])
=============================================================================
