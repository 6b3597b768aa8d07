---------------------------- MODULE MCDirectories ----------------------------
(* Directories on a disk that others change or that fails: an archive is     *)
(* extracted into one, one is scanned, a file of a scanned one is read,      *)
(* evidence for a finding is collected in one, a fix of one is previewed.    *)
(* A behaviour moves one of the five and leaves the others at their start.   *)
EXTENDS NativeEvidence, FixPreview, RepositoryScan, Extraction, SequencesExt, TLC

CONSTANTS
    i1, i2     \* files that a path may name while it is read

VARIABLE machine

-----------------------------------------------------------------------------
(* How the archives that codeload.github.com sends are made: one header and   *)
(* body per item, after an extension when the header cannot hold the name.    *)
(* An item says "how" it is named: "plain", by "prefix", by "pax", by "gnu",  *)
(* after a harmless "global" header, or "named globally", as no archive is.   *)

HeaderBlock(flag, bytes, prefix, name, target) ==
    [kind |-> "header", flag |-> flag, size |-> bytes, prefix |-> prefix, name |-> name, link |-> target]
RecordsBlock(path, linkpath, bytes) ==
    [kind |-> "records", path |-> path, linkpath |-> linkpath, size |-> bytes]
NameBlock(name) == [kind |-> "name", name |-> name]
ZeroBlock == [kind |-> "zero"]

FlagOf(type) ==
    CASE type = "file" -> "0" [] type = "directory" -> "5"
      [] type = "hardlink" -> "1" [] type = "symlink" -> "2" [] OTHER -> "3"

\* What a header holds of a name that is too long for it.
Short(name) == IF name = <<>> THEN <<>> ELSE SubSeq(name, 1, 1)

BodyOf(item) ==
    [b \in 1 .. (item.size + Block - 1) \div Block |->
        [kind |-> "content", of |-> item.name, part |-> b]]

EncodeItem(item) ==
    LET flag  == FlagOf(item.type)
        plain == HeaderBlock(flag, item.size, <<>>, item.name, item.link)
        short == HeaderBlock(flag, item.size, <<>>, Short(item.name), Short(item.link))
        global(path) == <<HeaderBlock("g", 1, <<>>, <<>>, <<>>), RecordsBlock(path, None, None)>>
    IN  CASE item.how = "plain"  -> <<plain>> \o BodyOf(item)
          [] item.how = "prefix" ->
               <<HeaderBlock(flag, item.size, Front(item.name), <<Last(item.name)>>, item.link)>>
                   \o BodyOf(item)
          [] item.how = "pax" ->
               <<HeaderBlock("x", Len(item.name), <<>>, <<>>, <<>>),
                 RecordsBlock(item.name, IF item.link = <<>> THEN None ELSE item.link, item.size),
                 [short EXCEPT !.size = 0]>> \o BodyOf(item)
          [] item.how = "gnu" ->
               <<HeaderBlock("L", Len(item.name), <<>>, <<>>, <<>>), NameBlock(item.name)>>
                   \o (IF item.link = <<>> THEN <<>>
                       ELSE <<HeaderBlock("K", Len(item.link), <<>>, <<>>, <<>>), NameBlock(item.link)>>)
                   \o <<short>> \o BodyOf(item)
          [] item.how = "global" -> global(None) \o <<plain>> \o BodyOf(item)
          [] item.how = "named globally" -> global(item.name) \o <<plain>> \o BodyOf(item)

Encode(items) ==
    FlattenSeq([i \in DOMAIN items |-> EncodeItem(items[i])]) \o <<ZeroBlock, ZeroBlock>>

\* What arrives of an archive: all of it, or its first n blocks.
Whole(items) ==
    {[items |-> items, gzip |-> gzip, cut |-> FALSE, blocks |-> Encode(items)] : gzip \in BOOLEAN}
Cut(items) ==
    LET blocks == Encode(items)
    IN  {[items |-> items, gzip |-> gzip, cut |-> TRUE, blocks |-> SubSeq(blocks, 1, n)] :
            gzip \in BOOLEAN, n \in 0 .. Len(blocks) - 1}

-----------------------------------------------------------------------------
(* Archives of up to four items, of which some conflict, some are no part of  *)
(* a tree, and some exceed a limit.                                           *)
Item(type, name, target, bytes, how) ==
    [type |-> type, name |-> name, link |-> target, size |-> bytes, how |-> how]

\* Items that go together and in one another's way.
SomeItems ==
    {Item("directory", <<".", "a">>, <<>>, 0, "global"),
     Item("directory", <<"A">>, <<>>, 0, "plain"),
     Item("file", <<"a", "b">>, <<>>, 3, "prefix"),
     Item("file", <<"a", "b">>, <<>>, 2, "gnu"),
     Item("file", <<"b">>, <<>>, 2, "pax"),
     Item("file", <<"A">>, <<>>, 0, "plain"),
     Item("symlink", <<"b">>, <<"..", "x">>, 0, "plain"),
     Item("symlink", <<"c", "b">>, <<"a", "b">>, 0, "gnu"),
     Item("hardlink", <<"c">>, <<"a", "b">>, 0, "pax")}

\* Items that are refused wherever they stand.
BadItems ==
    {Item("file", <<"a", "..", "b">>, <<>>, 1, "plain"),
     Item("file", <<"a", "b", "c">>, <<>>, 1, "gnu"),
     Item("file", <<"a", "b", "c", "x">>, <<>>, 1, "plain"),
     Item("file", <<"b">>, <<>>, 5, "pax"),
     Item("directory", <<"a">>, <<>>, 1, "plain"),
     Item("device", <<"a">>, <<>>, 0, "plain"),
     Item("symlink", <<"a">>, <<>>, 0, "plain"),
     Item("file", <<"a">>, <<>>, 0, "named globally")}

Pairs == {<<i, j>> : i \in SomeItems, j \in SomeItems \cup BadItems}
Triples == [1 .. 3 -> SomeItems]
Quadruples == [1 .. 4 -> {Item("file", <<"b">>, <<>>, 0, "plain"), Item("hardlink", <<"a">>, <<"b">>, 0, "plain"),
                          Item("symlink", <<"A", "b">>, <<"b">>, 0, "gnu"),
                          Item("directory", <<"c">>, <<>>, 0, "global")}]

\* What there is when nothing is extracted or scanned.
NoStream == [items |-> <<>>, gzip |-> FALSE, cut |-> FALSE, blocks |-> <<>>]
NoTree == [p \in {} |-> None]

SomeStreams ==
    UNION {Whole(items) : items \in {<<>>} \cup {<<i>> : i \in BadItems} \cup Pairs \cup Triples \cup Quadruples}
        \cup UNION {Cut(<<i, j>>) : i, j \in SomeItems}

MCFold == [s \in {".", "..", "a", "A", "b", "c", "x"} |-> IF s = "A" THEN "a" ELSE s]

\* Every tree of nine paths with a few kinds each: 1 is a plain name, 2 a
\* directory's, 3 a lockfile's, 4 excluded as a directory and generated as a
\* file, 5 unsafe.
File(n) == [kind |-> "file", size |-> n]
Is(kind) == [kind |-> kind, size |-> 0]
Empty == Is("nothing")

Top1 == {Empty, File(1), File(2), Is("vanishing")}
Inside == {Empty, File(1), Is("symlink"), Is("special")}
Two == {<<2>> :> e : e \in {Is("sealed"), Is("symlink"), File(1)}}
         \cup {(<<2>> :> Is("directory")) @@ (<<2, 1>> :> e) @@ (<<2, 2>> :> d) @@ (<<2, 2, 1>> :> f)
                 : e \in Inside, d \in {Is("directory")}, f \in {Empty, File(1)}}
         \cup {(<<2>> :> Is("directory")) @@ (<<2, 1>> :> e) : e \in Inside}
Four == {<<4>> :> Empty, <<4>> :> File(1), (<<4>> :> Is("directory")) @@ (<<4, 1>> :> File(1))}
Existing(t) == [p \in {p \in DOMAIN t : t[p] # Empty} |-> t[p]]
\* Two directories, of which the first has one of its own.
Forked == (<<2>> :> Is("directory")) @@ (<<2, 2>> :> Is("directory")) @@ (<<2, 2, 1>> :> File(1))
              @@ (<<3>> :> Is("directory")) @@ (<<3, 1>> :> File(1))
SomeTrees ==
    {Existing((<<1>> :> a) @@ b @@ (<<3>> :> c) @@ d @@ (<<5>> :> e))
        : a \in Top1, b \in Two, c \in {Empty, File(2)}, d \in Four, e \in {Empty, File(1)}}
    \cup {Forked}

Wide == [maxFiles |-> 9, maxDirectories |-> 9, maxDepth |-> 9, maxPathLength |-> 9, maxFileBytes |-> 1,
         maxLockfileBytes |-> 2, maxTotalBytes |-> 9, maxSkippedRecords |-> 9]
SomeLimits == {Wide, [Wide EXCEPT !.maxFiles = 2, !.maxSkippedRecords = 1],
           [Wide EXCEPT !.maxTotalBytes = 3, !.maxDepth = 1],
           [Wide EXCEPT !.maxDirectories = 2, !.maxPathLength = 2]}
SomeConfigs == {None, Malformed, {<<2>>}, {<<2, 2>>}, {<<2>>, <<2, 2>>}}
SomeOverrides == {None, {}, {<<2, 2>>}}

\* A file that was listed, another, and one outside of the directory.
MCFiles == {i1, i2, Outside}

\* A manifest, a file of targets and a script; one of them may be missing from
\* the start, or the script speak against the rule.
MCOrder == <<"ghostdeps.targets.json", "index.ts", "package.json">>
First(supports) == [content |-> [mark |-> 0, supports |-> supports], stamp |-> 0]
AllThere == [p \in {"package.json", "ghostdeps.targets.json", "index.ts"} |-> First(TRUE)]
MCInitialTrees == {AllThere, [AllThere EXCEPT !["package.json"] = None], [AllThere EXCEPT !["index.ts"] = First(FALSE)]}

\* A manifest and its lockfile, and two scripts, of which one comes later.
MCRemovable(texts) == texts["package.json"] # 2
MCUses(source, number) == source = "b.ts" \/ number = 1

ASSUME DirectoriesAssumption ==
    /\ TarAssumption /\ ExtractionAssumption /\ ScanAssumption /\ ReadsAssumption
    /\ EvidenceAssumption /\ TreeAssumption

-----------------------------------------------------------------------------
allVars == <<machine, archiveVars, scanVars, vars, previewVars, readVars>>

DirectoriesInit ==
    /\ machine \in {"extraction", "scan", "read", "evidence", "preview"}
    /\ Init /\ (machine # "evidence" => tree = AllThere)
    /\ PreviewInit
    /\ ReadsInit /\ (machine # "read" => operation = "readFile" /\ size = [f \in Files |-> 1])
    /\ IF machine = "extraction" THEN ExtractInit ELSE ExtractStarts(NoStream, "absent")
    /\ IF machine = "scan" THEN ScanInit ELSE ScanStarts(NoTree, Wide, None, None)

DirectoriesNext ==
    /\ UNCHANGED machine
    /\ \/ machine = "extraction" /\ ExtractNext /\ UNCHANGED <<scanVars, vars, previewVars, readVars>>
       \/ machine = "scan" /\ ScanNext /\ UNCHANGED <<archiveVars, vars, previewVars, readVars>>
       \/ machine = "read" /\ ReadsNext /\ UNCHANGED <<archiveVars, scanVars, vars, previewVars>>
       \/ machine = "evidence" /\ Next /\ UNCHANGED <<archiveVars, scanVars, previewVars, readVars>>
       \/ machine = "preview" /\ PreviewNext /\ UNCHANGED <<archiveVars, scanVars, vars, readVars>>

DirectoriesSpec == DirectoriesInit /\ [][DirectoriesNext]_allVars

-----------------------------------------------------------------------------
\* The files are listed in the order of the walk, a directory's own before
\* those of its subdirectories and both in the order of names, so that an early
\* stop keeps the first of them; their bytes are those that are counted
\* (scanner.ts:192-302).
WalkOrder(p, q) ==
    LET n == CHOOSE i \in 1..Len(p) : SubSeq(p, 1, i - 1) = SubSeq(q, 1, i - 1) /\ (i > Len(q) \/ p[i] # q[i])
    IN  \/ Len(p) = n /\ Len(q) > n
        \/ (Len(p) = n <=> Len(q) = n) /\ p[n] < q[n]
FilesAreInWalkOrder ==
    /\ totalBytes = FoldLeft(LAMBDA sum, p : sum + repository[p].size, 0, files)
    /\ \A i, j \in DOMAIN files : i < j => WalkOrder(files[i], files[j])

\* What a machine has made is the whole of its source, in its order: an
\* extraction has made the archive's tree (extract.ts:159-203), and the files
\* of a scan are in the order of the walk (scanner.ts:192-302).
WholeAndInOrder == TreeIsTheArchive /\ FilesAreInWalkOrder
=============================================================================
