--------------------------- MODULE RepositoryScan ---------------------------
(***************************************************************************)
(* The repository scanner: scanRepository in                               *)
(* packages/core/src/engine/scanner/scanner.ts with its fixture scope      *)
(* (scope.ts), and what its skips mean to a caller: scanCompletenessFind-  *)
(* ings (analyse-directory.ts) and the limitations of listEntries          *)
(* (handle.ts).                                                            *)
(*                                                                         *)
(* A tree maps paths, which are sequences of names, to what is there.      *)
(* The kinds are "file"; "directory"; "symlink"; "special", a device, pipe *)
(* or socket; "sealed", a directory that cannot be read; "vanishing", a    *)
(* file that goes before its lstat.                                        *)
(* Names are numbers, in the order of their bytes; the classes a name can  *)
(* belong to are sets.  A behaviour scans one tree; the walk is iterative, *)
(* and reads one entry of a directory per step.  At the end, the reads of  *)
(* a file that the scan has listed.                                        *)
(***************************************************************************)
EXTENDS Absent, Integers, Sequences, FiniteSets

CONSTANTS
    Trees,            \* the trees scanned: [path -> [kind, size]]
    Limits,           \* the limits used
    Configs,          \* what .ghostdeps.json may be: None, Malformed or roots
    Overrides,        \* the per-run override: None, Malformed or roots
    UnsafeNames, ExcludedNames, GeneratedNames, LockfileNames,
    Malformed

VARIABLES
    repository,  \* the tree that is scanned
    limits, config, override,
    scope,       \* the fixture scope, empty until it is read
    stack,       \* directories still to visit, the next one first
    visited,     \* how many directories were visited
    unread,      \* the entries of the open directory that are still to be read
    children,    \* its directories that are to be visited
    files,       \* the files listed, in the order of the walk
    totalBytes,
    skipped,     \* every skip, [path, reason]: skippedCounts counts them
    recorded,    \* the skips that are recorded one by one
    status       \* "scope", "walking", "reading", "done", "failed", or why it stopped early

inputVars == <<repository, limits, config, override>>
walkVars == <<stack, visited, unread, children, files, totalBytes, skipped, recorded>>
scanVars == <<inputVars, scope, walkVars, status>>

Root == <<>>
Below(root, p) == Len(p) > Len(root) /\ SubSeq(p, 1, Len(root)) = root
NameOf(p) == p[Len(p)]
EntriesIn(dir) == {p \in DOMAIN repository : Len(p) = Len(dir) + 1 /\ Below(dir, p)}
IsDirectory(p) == p = Root \/ (p \in DOMAIN repository /\ repository[p].kind \in {"directory", "sealed"})
InDirectories(p) == \A n \in 1..(Len(p) - 1) : IsDirectory(SubSeq(p, 1, n))

\* A tree is finite, and whatever is in it is in directories that can be read.
Kinds == {"file", "directory", "symlink", "special", "sealed", "vanishing"}
IsTreeOfFiles(t) ==
    /\ IsFiniteSet(DOMAIN t)
    /\ \A p \in DOMAIN t : /\ p \in Seq(Nat) /\ p # Root /\ t[p].kind \in Kinds /\ t[p].size \in Nat
                          /\ \A n \in 1..(Len(p) - 1) : SubSeq(p, 1, n) \in DOMAIN t
                                                        /\ t[SubSeq(p, 1, n)].kind = "directory"
ScanAssumption ==
    /\ \A t \in Trees : IsTreeOfFiles(t)
    /\ \A l \in Limits : {l.maxFiles, l.maxDirectories, l.maxTotalBytes, l.maxSkippedRecords} \subseteq Nat
    /\ \A c \in Configs \cup Overrides : c \in {None, Malformed} \/ c \subseteq Seq(Nat)

ScanStarts(t, l, c, o) ==
    /\ repository = t /\ limits = l /\ config = c /\ override = o
    /\ scope = [roots |-> {}, excludedFiles |-> 0]
    /\ stack = <<Root>> /\ visited = 0 /\ unread = {} /\ children = <<>>
    /\ files = <<>> /\ totalBytes = 0
    /\ skipped = {} /\ recorded = {}
    /\ status = "scope"
ScanInit == \E t \in Trees, l \in Limits, c \in Configs, o \in Overrides : ScanStarts(t, l, c, o)

-----------------------------------------------------------------------------
(* The fixture scope                                                       *)

\* A root names a directory by safe names, none of them excluded anyway; two
\* roots neither repeat nor contain each other.
RootsAreValid(roots) ==
    /\ \A r \in roots : /\ r # Root /\ Len(r) <= limits.maxDepth /\ Len(r) <= limits.maxPathLength
                        /\ \A i \in DOMAIN r : r[i] \notin UnsafeNames \cup ExcludedNames
    /\ \A r, s \in roots : ~Below(r, s)

Parses(source) == source # Malformed /\ (source = None \/ RootsAreValid(source))

\* An override replaces the roots of the configuration, also with none.
EffectiveRoots == IF override # None THEN override ELSE IF config # None THEN config ELSE {}

Within(r) == {p \in DOMAIN repository : Below(r, p)}
Matched(r) == r \in DOMAIN repository /\ InDirectories(r) /\ IsDirectory(r)
\* lstat of the root or of a directory above it says there is no such entry.
Missing(r) == \E n \in 1..Len(r) : InDirectories(SubSeq(r, 1, n)) /\ SubSeq(r, 1, n) \notin DOMAIN repository

\* Only what can be counted exactly is: anything below the root that is
\* neither a directory nor a file, and any limit exceeded, is an error.
Countable(r) ==
    /\ \A p \in Within(r) : /\ repository[p].kind \in {"file", "vanishing", "directory"}
                            /\ NameOf(p) \notin UnsafeNames
                            /\ Len(p) <= limits.maxPathLength
                            /\ repository[p].kind = "directory" => Len(p) <= limits.maxDepth
    /\ repository[r].kind = "directory"

FilesOf(r) == {p \in Within(r) : repository[p].kind \in {"file", "vanishing"}}
DirectoriesOf(r) == {r} \cup {p \in Within(r) : repository[p].kind = "directory"}
MatchedRoots == {r \in EffectiveRoots : Matched(r)}
DirectoriesInScope == UNION {DirectoriesOf(r) : r \in MatchedRoots}
FilesInScope == UNION {FilesOf(r) : r \in MatchedRoots}

\* Slip: an override hides a configuration that does not parse.
SlipScopeIsRead ==
    /\ Parses(override)
    /\ override = None => Parses(config)
    /\ \A r \in EffectiveRoots : Missing(r) \/ (Matched(r) /\ Countable(r))
    /\ Cardinality(DirectoriesInScope) <= limits.maxDirectories
    /\ Cardinality(FilesInScope) <= limits.maxFiles

ScopeIsRead ==
    /\ Parses(config) /\ Parses(override)
    /\ \A r \in EffectiveRoots : Missing(r) \/ (Matched(r) /\ Countable(r))
    /\ Cardinality(DirectoriesInScope) <= limits.maxDirectories
    /\ Cardinality(FilesInScope) <= limits.maxFiles

\* The scope is read first, the configuration even when it is overridden.
ReadScope ==
    /\ status = "scope"
    /\ IF ScopeIsRead
       THEN /\ status' = "walking"
            /\ scope' = [roots |-> EffectiveRoots, excludedFiles |-> Cardinality(FilesInScope)]
       ELSE status' = "failed" /\ UNCHANGED scope
    /\ UNCHANGED <<inputVars, walkVars>>

-----------------------------------------------------------------------------
(* The walk                                                                *)

Ceiling(name) == IF name \in LockfileNames THEN limits.maxLockfileBytes ELSE limits.maxFileBytes

\* What becomes of an entry: the reason to skip it, or "descend" or "list".
Verdict(p) ==
    LET name == NameOf(p)
        e    == repository[p]
    IN  IF name \in UnsafeNames THEN "unsafe-name"
        ELSE IF Len(p) > limits.maxPathLength THEN "path-too-long"
        ELSE IF e.kind = "symlink" THEN "symlink"
        ELSE IF IsDirectory(p) THEN IF p \in scope.roots THEN "fixture-root"
                                    ELSE IF name \in ExcludedNames THEN "excluded-directory"
                                    ELSE IF Len(p) > limits.maxDepth THEN "too-deep"
                                    ELSE "descend"
        ELSE IF e.kind = "special" THEN "special-file"
        ELSE IF name \in GeneratedNames \ LockfileNames THEN "excluded-generated-file"
        ELSE IF e.kind = "vanishing" THEN "unreadable"
        ELSE IF e.size > Ceiling(name) THEN "file-too-large"
        ELSE "list"

Skipping(p, reason) ==
    LET skip == [path |-> p, reason |-> reason]
    IN  /\ skipped' = skipped \cup {skip}
        /\ recorded' = IF Cardinality(recorded) < limits.maxSkippedRecords THEN recorded \cup {skip} ELSE recorded

\* A directory is opened, unless it is one too many or cannot be read.
OpenDirectory ==
    /\ status = "walking" /\ stack # <<>>
    /\ visited' = visited + 1 /\ stack' = Tail(stack)
    /\ LET dir    == Head(stack)
           tooFar == visited + 1 > limits.maxDirectories
           sealed == dir # Root /\ repository[dir].kind = "sealed"
       IN  \/ tooFar /\ status' = "max-directories" /\ UNCHANGED <<unread, skipped, recorded>>
           \/ ~tooFar /\ sealed /\ Skipping(dir, "unreadable") /\ UNCHANGED <<unread, status>>
           \/ ~tooFar /\ ~sealed /\ unread' = EntriesIn(dir) /\ status' = "reading" /\ UNCHANGED <<skipped, recorded>>
    /\ UNCHANGED <<inputVars, scope, children, files, totalBytes>>

\* Slip: the byte limit is tested on what is listed already.
SlipStop(p) ==
    IF Len(files) + 1 > limits.maxFiles THEN "max-files"
    ELSE IF totalBytes > limits.maxTotalBytes THEN "max-total-bytes"
    ELSE "reading"

\* What becomes of the walk when a file is to be listed.
Stop(p) ==
    IF Len(files) + 1 > limits.maxFiles THEN "max-files"
    ELSE IF totalBytes + repository[p].size > limits.maxTotalBytes THEN "max-total-bytes"
    ELSE "reading"

ListFile(p) ==
    /\ status' = Stop(p)
    /\ IF Stop(p) = "reading"
       THEN files' = Append(files, p) /\ totalBytes' = totalBytes + repository[p].size
       ELSE UNCHANGED <<files, totalBytes>>

\* The entries are read in the order of their names, until a limit stops it.
IsNext(p) == p \in unread /\ \A q \in unread : NameOf(p) <= NameOf(q)
ReadEntry(p) ==
    /\ status = "reading" /\ IsNext(p)
    /\ unread' = unread \ {p}
    /\ \/ /\ Verdict(p) = "descend" /\ children' = Append(children, p)
          /\ UNCHANGED <<files, totalBytes, skipped, recorded, status>>
       \/ /\ Verdict(p) = "list" /\ ListFile(p)
          /\ UNCHANGED <<children, skipped, recorded>>
       \/ /\ Verdict(p) \notin {"descend", "list"} /\ Skipping(p, Verdict(p))
          /\ UNCHANGED <<children, files, totalBytes, status>>
    /\ UNCHANGED <<inputVars, scope, stack, visited>>

\* Slip: a directory's own are visited after everything that waits already.
SlipDeeper == stack \o children

\* They are pushed from the last to the first, and so visited in order.
Deeper == children \o stack

CloseDirectory ==
    /\ status = "reading" /\ unread = {}
    /\ stack' = Deeper /\ children' = <<>> /\ status' = "walking"
    /\ UNCHANGED <<inputVars, scope, visited, unread, files, totalBytes, skipped, recorded>>

FinishWalk ==
    /\ status = "walking" /\ stack = <<>>
    /\ status' = "done"
    /\ UNCHANGED <<inputVars, scope, walkVars>>

ScanNext == ReadScope \/ OpenDirectory \/ (\E p \in unread : ReadEntry(p)) \/ CloseDirectory \/ FinishWalk
ScanSpec == ScanInit /\ [][ScanNext]_scanVars

-----------------------------------------------------------------------------
(* What the skips mean                                                     *)

Truncations == {"max-files", "max-directories", "max-total-bytes"}

\* Slip: an unreadable directory is left out as if by design.
SlipHidesSource == {"file-too-large", "too-deep", "path-too-long", "unsafe-name"}

\* INCOMPLETENESS_REASONS: skips that may hide the project's own files.
HidesSource == {"file-too-large", "too-deep", "path-too-long", "unsafe-name", "unreadable"}

\* The findings of an incomplete scan: one for an early stop, one for files
\* in fixture roots, one per reason.
CompletenessFindings ==
    (IF status \in Truncations THEN {"truncated"} ELSE {})
      \cup (IF scope.excludedFiles > 0 THEN {"fixture-scope"} ELSE {})
      \cup {s.reason : s \in {s \in skipped : s.reason \in HidesSource}}

LeftOutByDesign == {"symlink", "excluded-directory", "excluded-generated-file", "fixture-root"}

\* listEntries calls its listing complete: no early stop, no other skip, and
\* each link among the records.
ListingIsComplete ==
    /\ status \notin Truncations
    /\ \A s \in skipped : s.reason \in LeftOutByDesign
    /\ {s \in recorded : s.reason = "symlink"} = {s \in skipped : s.reason = "symlink"}

-----------------------------------------------------------------------------
(* Properties                                                              *)

ListedFiles == {files[i] : i \in DOMAIN files}
Ended == status = "done" \/ status \in Truncations

\* Files of the project: neither below an excluded directory nor generated.
OwnFile(p) ==
    /\ repository[p].kind \in {"file", "vanishing"}
    /\ NameOf(p) \notin GeneratedNames \ LockfileNames
    /\ \A n \in 1..(Len(p) - 1) : p[n] \notin ExcludedNames

\* A scan that reports nothing has listed every file of
\* the project that is reached through directories, and a complete listing
\* says the same of all but the fixture roots and has each link on record
\* (analyse-directory.ts:23-100, handle.ts:95-107).
SilenceMeansWhole ==
    Ended =>
        /\ CompletenessFindings = {} =>
              \A p \in DOMAIN repository : OwnFile(p) => p \in ListedFiles
        /\ ListingIsComplete =>
              \A p \in DOMAIN repository :
                  (\A r \in scope.roots : ~Below(r, p) /\ p # r) =>
                      /\ OwnFile(p) => p \in ListedFiles
                      /\ repository[p].kind = "symlink" /\ (\A n \in 1..(Len(p) - 1) : p[n] \notin ExcludedNames)
                             => [path |-> p, reason |-> "symlink"] \in recorded

\* The limits hold at every moment, an early stop included, and what is on
\* record was skipped (scanner.ts:181-289).
ScanIsBounded ==
    /\ Len(files) <= limits.maxFiles
    /\ totalBytes <= limits.maxTotalBytes
    /\ Cardinality(recorded) <= limits.maxSkippedRecords
    /\ recorded \subseteq skipped

\* The scope's account is exact: no listed file is below one of its roots,
\* the count is that of the files below them, and a declaration that does not
\* parse fails the scan (scope.ts:313-359, scanner.ts:242).
ScopeIsExact ==
    Ended =>
        /\ config # Malformed
        /\ \A r \in scope.roots, i \in DOMAIN files : ~Below(r, files[i])
        /\ scope.excludedFiles =
              Cardinality({p \in DOMAIN repository : /\ repository[p].kind \in {"file", "vanishing"}
                                               /\ \E r \in scope.roots : Below(r, p)})

\* A scan that reports nothing left no file of the project out, keeps its
\* limits at every moment and accounts for its fixture scope exactly
\* (scanner.ts:192-302, scope.ts, analyse-directory.ts:23-100).
ScanAccountsForAll == SilenceMeansWhole /\ ScanIsBounded /\ ScopeIsExact

-----------------------------------------------------------------------------
(* Reads of a scanned file while the directory changes: FsRepositoryHandle   *)
(* in packages/core/src/engine/scanner/handle.ts.                            *)
(*                                                                           *)
(* The file was listed at inode Listed in its version 1; a reader checks the *)
(* path, opens it and reads, and between any two of its calls the file may   *)
(* be written, another object put at its path, or its directory replaced by  *)
(* a link.  A byte is the inode and the version it is from.  External: every *)
(* write gives a file another mtime, and an open file keeps its inode.       *)
CONSTANTS
    Listed,      \* the inode the scan listed
    Files,       \* the inodes of regular files, Listed one of them
    Link,        \* an object that is no regular file
    Outside,     \* the file the path names when its directory is a link
    NoFile,      \* what a path names where nothing is
    Sizes,       \* the sizes files have and are written to
    MaxBytes,    \* maxFileBytes or maxLockfileBytes
    HeadBytes,   \* the bytes a head read takes at most
    MaxDisturbances  \* bound: changes of the directory during one read

ReadsAssumption ==
    /\ Listed \in Files /\ Link \notin Files /\ NoFile \notin Files
    /\ Sizes \subseteq Nat /\ MaxBytes \in Nat /\ HeadBytes \in Nat

VARIABLES
    size, version,   \* of each file; the version stands for mtime too
    at,              \* what the path names below its real directory
    parent,          \* "directory", "link" or "gone"
    disturbances,    \* how often the directory changed
    operation,       \* "readFileBytes", "readFile" or "readFileHead"
    expected,        \* the listed size
    nextCall,        \* the reader's next call, or its outcome
    before,          \* the inode of its lstat
    opened,          \* the inode it has open
    stat,            \* [size, version] of the open file
    buffer           \* the bytes read

placeVars == <<size, version, at, parent, disturbances>>
readerVars == <<operation, expected, nextCall, before, opened, stat, buffer>>
readVars == <<placeVars, readerVars>>

Now(i) == [size |-> size[i], version |-> version[i]]
\* What the whole path names: links in its directories are followed.
Resolved == CASE parent = "directory" -> at
              [] parent = "link"      -> Outside
              [] parent = "gone"      -> NoFile
Outcomes == {"served", "changed", "too-large"}

ReadsInit ==
    /\ size \in [Files -> Sizes] /\ version = [f \in Files |-> 1]
    /\ at = Listed /\ parent = "directory" /\ disturbances = 0
    /\ operation \in {"readFileBytes", "readFile", "readFileHead"}
    /\ expected = size[Listed]
    /\ nextCall = "parents"
    /\ before = NoFile /\ opened = NoFile
    /\ stat = NoFile
    /\ buffer = <<>>

-----------------------------------------------------------------------------
(* The directory changes                                                   *)

Write == \E f \in Files, s \in Sizes :
    /\ size' = [size EXCEPT ![f] = s]
    /\ version' = [version EXCEPT ![f] = @ + 1]
    /\ UNCHANGED <<at, parent>>

Replace ==
    /\ \/ at' \in (Files \ {Outside}) \cup {Link, NoFile} /\ UNCHANGED parent
       \/ parent' \in {"link", "gone"} /\ UNCHANGED at
    /\ UNCHANGED <<size, version>>

ChangeDirectory ==
    /\ nextCall \notin Outcomes /\ disturbances < MaxDisturbances
    /\ Write \/ Replace
    /\ disturbances' = disturbances + 1
    /\ UNCHANGED readerVars

-----------------------------------------------------------------------------
(* The reader                                                              *)

IsListed(i) == i = Listed /\ Now(i) = [size |-> expected, version |-> 1]

CheckParents ==
    /\ nextCall = "parents"
    /\ nextCall' = IF parent = "directory" THEN "lstat" ELSE "changed"
    /\ UNCHANGED <<placeVars, operation, expected, before, opened, stat, buffer>>

Lstat ==
    /\ nextCall = "lstat"
    /\ before' = Resolved
    /\ nextCall' = IF Resolved \in Files /\ (operation = "readFileBytes" => IsListed(Resolved)) THEN "open" ELSE "changed"
    /\ UNCHANGED <<placeVars, operation, expected, opened, stat, buffer>>

\* O_NOFOLLOW refuses a link at the end of the path.
Open ==
    /\ nextCall = "open"
    /\ opened' = Resolved
    /\ nextCall' = IF Resolved \in Files THEN "fstat" ELSE "changed"
    /\ UNCHANGED <<placeVars, operation, expected, before, stat, buffer>>

Fstat ==
    /\ nextCall = "fstat"
    /\ stat' = Now(opened)
    /\ nextCall' = CASE operation = "readFileBytes" -> IF IsListed(opened) /\ expected <= MaxBytes THEN "read" ELSE "changed"
                 [] opened # before -> "changed"
                 [] operation = "readFile" /\ size[opened] > MaxBytes -> "too-large"
                 [] OTHER -> "read"
    /\ UNCHANGED <<placeVars, operation, expected, before, opened, buffer>>

\* One byte more than expected is asked for, so that growth shows; not for a head.
Wanted == CASE operation = "readFileBytes" -> stat.size + 1
            [] operation = "readFile"      -> stat.size + 1
            [] operation = "readFileHead"  -> IF stat.size < HeadBytes THEN stat.size ELSE HeadBytes

MoreToRead == Len(buffer) < Wanted /\ Len(buffer) < size[opened]

\* readPrefix: reads until it has enough or meets the end, here byte by byte.
Read ==
    /\ nextCall = "read" /\ MoreToRead
    /\ buffer' = Append(buffer, <<opened, version[opened]>>)
    /\ UNCHANGED <<placeVars, operation, expected, nextCall, before, opened, stat>>

\* Slip: only the length of what was read is compared.
SlipUnchanged == Len(buffer) = expected
\* The second fstat of readFileBytes.
Unchanged == Len(buffer) = expected /\ Now(opened) = stat

EndRead ==
    /\ nextCall = "read" /\ ~MoreToRead
    /\ nextCall' = CASE operation = "readFileBytes" -> IF Unchanged THEN "served" ELSE "changed"
                 [] operation = "readFile"      -> IF Len(buffer) > MaxBytes THEN "too-large" ELSE "served"
                 [] operation = "readFileHead"  -> "served"
    /\ UNCHANGED <<placeVars, operation, expected, before, opened, stat, buffer>>

ReadsNext == ChangeDirectory \/ CheckParents \/ Lstat \/ Open \/ Fstat \/ Read \/ EndRead
ReadsSpec == ReadsInit /\ [][ReadsNext]_readVars

-----------------------------------------------------------------------------
(* Properties                                                              *)

\* readFileBytes serves the bytes of the listed version, all of them and of no
\* other, whatever happens to the directory meanwhile; the other reads serve
\* bytes of one regular file, at most their ceiling, and hold no more than one
\* byte beyond it (handle.ts:169-326).
ServedIsWhatWasChecked ==
    /\ nextCall = "served" =>
        /\ operation = "readFileBytes" => buffer = [b \in 1..expected |-> <<Listed, 1>>]
        /\ operation = "readFile" => Len(buffer) <= MaxBytes
        /\ operation = "readFileHead" => Len(buffer) <= HeadBytes
        /\ \A b \in DOMAIN buffer : buffer[b][1] = before
    /\ Len(buffer) <= (IF operation = "readFileHead" THEN HeadBytes ELSE MaxBytes + 1)
=============================================================================
